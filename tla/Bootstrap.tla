------------------------------ MODULE Bootstrap ------------------------------
(***************************************************************************)
(* wine_portal_init (src/wine_xdg_portal.c): how a Windows program that    *)
(* runs under Wine learns its own Unix pid and opens a gate to the system  *)
(* calls of the libc it shares its address space with.  A process          *)
(*                                                                         *)
(*   1. maps a canary, a file named after its Windows process id;          *)
(*   2. walks /proc for a process whose maps mention the canary (find_pid, *)
(*      src/recon.c and src/procfs.c), then removes the canary;            *)
(*   3. finds the libc of that process (find_libc) and builds the gate out *)
(*      of it in code_buffer, which it then write-protects (hg_setup,      *)
(*      src/heavens.c);                                                    *)
(*   4. asks the gate for its pid and for a system call that does not      *)
(*      exist, and compares what comes back.                               *)
(*                                                                         *)
(* Windows process ids are unique in a Wine prefix only, /proc belongs to  *)
(* everybody, a process of /proc may end at any time, and the program may  *)
(* call wine_portal_init again after it failed.                            *)
(*                                                                         *)
(* Abstractions: the maps of one process are read in one step; find_libc   *)
(* says whose libc it found and whether the errno offset it took from the  *)
(* code is the one that libc uses, and hg_setup whether it copied all of   *)
(* Wine's trampoline; Unix pids are not reused.                            *)
(***************************************************************************)
EXTENDS Naturals, Sequences, FiniteSets, SequencesExt

CONSTANTS
  Pids,      \* the Unix processes listed in /proc
  Callers,   \* those that call wine_portal_init
  WinPid,    \* the Windows process id of each
  Layout,    \* where each has its libc
  ErrnoCode, \* which instructions its __errno_location shows: "load", "fs"
  MaxInits,  \* how often a process calls wine_portal_init
  NoProcess, \* an entry of /proc that is no process
  NULL       \* no process, no libc, no gate

ASSUME PidsAssumption   == IsFiniteSet(Pids) /\ Callers \subseteq Pids
ASSUME WinPidAssumption == WinPid \in [Pids -> Nat \ {0}]
ASSUME CodeAssumption   == ErrnoCode \in [Pids -> SUBSET {"load", "fs"}]
ASSUME InitsAssumption  == MaxInits \in Nat

Libcs == [of : Pids, errno : {"right", "wrong"}]

(* The gate holds what libc points to, and a copy of Wine's trampoline.    *)
Gates == [of : Pids, errno : {"right", "wrong"}, copy : {"whole", "cut"}]

(* What enosys() returns, and what it leaves in errno.                     *)
Probes == {"-1", "other"} \X {"ENOSYS", "other"}

ASSUME EntryAssumption ==
  NoProcess \notin Pids /\ NULL \notin Pids \cup Libcs \cup Gates \cup Probes

VARIABLES
  pc,       \* where each process is in wine_portal_init
  inits,    \* how often each process called it
  mapped,   \* a process has its canary mapped
  files,    \* the canaries that exist in /tmp
  listing,  \* what FindFirstFile("/proc/*") enumerates for each process
  at,       \* the entry each enumeration holds in findData
  unread,   \* history: its find_pid could not open the maps of the process itself
  pid,      \* what find_pid returned
  libc,     \* what find_libc returned
  gate,     \* heavensGate
  sealed,   \* code_buffer is PAGE_EXECUTE_READ
  probe     \* what enosys() gave each process last

scanVars == <<listing, at, unread>>
canaryVars == <<mapped, files>>
gateVars == <<libc, gate, sealed, probe>>
vars     == <<pc, inits, mapped, files, scanVars, pid, gateVars>>

-----------------------------------------------------------------------------
Running(p) == pc[p] \in {"canary", "list", "scan", "unmap", "unlink", "libc",
                         "setup", "getpid", "enosys"}
Alive(p)   == pc[p] \notin {"crashed", "exited"}

CanaryWithinAny(n, m) == TRUE   \* mutant: the search string lacks the process id

(* strstr finds the name of canary m in the name of canary n: both end in  *)
(* the decimal digits of a process id, so those of m lead those of n.      *)
PowersOf10 == {10, 100, 1000, 10000, 100000, 1000000, 10000000, 100000000, 1000000000}

CanaryWithin(n, m) == n = m \/ \E d \in PowersOf10 : n \div d = m

(* What procfs_map_iter_next finds in the maps of process q.               *)
ShowsCanary(q, p) == mapped[q] /\ CanaryWithin(WinPid[q], WinPid[p])

Goto(p, l) == pc' = [pc EXCEPT ![p] = l]

(* wine_portal_init returns -1; what it found out is gone.                 *)
Fail(p) ==
  /\ Goto(p, "failed")
  /\ pid'  = [pid EXCEPT ![p] = NULL]
  /\ libc' = [libc EXCEPT ![p] = NULL]

(* find_pid returns; procfs_processes_iter_free ends the enumeration.      *)
FindPidReturns(p, q) ==
  /\ Goto(p, "unmap")
  /\ pid'     = [pid EXCEPT ![p] = q]
  /\ listing' = [listing EXCEPT ![p] = <<>>]
  /\ at'      = [at EXCEPT ![p] = 1]
  /\ unread'  = [unread EXCEPT ![p] = FALSE]

Init ==
  /\ pc      = [p \in Pids |-> "idle"]
  /\ inits   = [p \in Pids |-> 0]
  /\ mapped  = [p \in Pids |-> FALSE]
  /\ files   = {}
  /\ listing = [p \in Pids |-> <<>>]
  /\ at      = [p \in Pids |-> 1]
  /\ unread  = [p \in Pids |-> FALSE]
  /\ pid     = [p \in Pids |-> NULL]
  /\ libc    = [p \in Pids |-> NULL]
  /\ gate    = [p \in Pids |-> NULL]
  /\ sealed  = [p \in Pids |-> FALSE]
  /\ probe   = [p \in Pids |-> NULL]

-----------------------------------------------------------------------------
(* wine_portal_init.                                                       *)

(* The call begins.                                                        *)
Start(p) ==
  /\ pc[p] \in {"idle", "ok", "failed"}
  /\ inits[p] < MaxInits
  /\ inits' = [inits EXCEPT ![p] = @ + 1]
  /\ pid'   = [pid EXCEPT ![p] = NULL]
  /\ Goto(p, "canary")
  /\ UNCHANGED <<canaryVars, scanVars, gateVars>>

(* Without Wine, /tmp or fsgsbase it fails before it makes its canary.     *)
NotSupported(p) ==
  /\ pc[p] = "canary"
  /\ Fail(p)
  /\ UNCHANGED <<inits, canaryVars, scanVars, gate, sealed, probe>>

(* CreateFileA, CreateFileMapping, MapViewOfFile.  No result is looked at: *)
(* without a file the mapping is anonymous, without a mapping there is     *)
(* none.                                                                   *)
MakeCanary(p) ==
  /\ pc[p] = "canary"
  /\ \/ files' = files \cup {WinPid[p]} /\ mapped' = [mapped EXCEPT ![p] = TRUE]
     \/ files' = files \cup {WinPid[p]} /\ UNCHANGED mapped
     \/ UNCHANGED <<files, mapped>>
  /\ Goto(p, "list")
  /\ UNCHANGED <<inits, scanVars, pid, gateVars>>

(* procfs_processes_iter_new: the directory is read at once, in an order   *)
(* the program does not control; its first entry is in findData already.   *)
ListProcesses(p) ==
  /\ pc[p] = "list"
  /\ \E s \in SetToSeqs({q \in Pids : Alive(q)} \cup {NoProcess}) :
       listing' = [listing EXCEPT ![p] = s]
  /\ Goto(p, "scan")
  /\ UNCHANGED <<inits, canaryVars, at, unread, pid, gateVars>>

ListingFails(p) ==
  /\ pc[p] = "list"
  /\ FindPidReturns(p, NULL)
  /\ UNCHANGED <<inits, canaryVars, gateVars>>

SkipsFirst(p, j) ==   \* mutant: FindNextFile before findData is looked at
  /\ j \in (at[p] + 1) .. Len(listing[p])
  /\ listing[p][j] # NoProcess
  /\ \A i \in (at[p] + 1) .. (j - 1) : listing[p][i] = NoProcess

(* procfs_processes_iter_next returns entry j: the next process.           *)
NextProcess(p, j) ==
  /\ j \in at[p] .. Len(listing[p])
  /\ listing[p][j] # NoProcess
  /\ \A i \in at[p] .. (j - 1) : listing[p][i] = NoProcess

StaysThere(p, j) == UNCHANGED at   \* mutant: FindNextFile is not called

(* ... and moves on, unless FindNextFile finds no other entry: findData    *)
(* then keeps the last one, which the next call returns again.             *)
Advance(p, j) ==
  at' = [at EXCEPT ![p] = IF j < Len(listing[p]) THEN j + 1 ELSE j]

(* find_pid looks through the maps of the next process: the canary is      *)
(* there, ...                                                              *)
Match(p, j) ==
  /\ pc[p] = "scan"
  /\ NextProcess(p, j)
  /\ ShowsCanary(listing[p][j], p)
  /\ FindPidReturns(p, listing[p][j])
  /\ UNCHANGED <<inits, canaryVars, gateVars>>

(* ... or it is not, and it goes on, ...                                   *)
NoMatch(p, j) ==
  /\ pc[p] = "scan"
  /\ NextProcess(p, j)
  /\ ~ShowsCanary(listing[p][j], p)
  /\ Advance(p, j)
  /\ UNCHANGED <<pc, inits, canaryVars, listing, unread, pid, gateVars>>

(* ... or they cannot be opened, and it goes on as well, be they its own.  *)
CannotOpen(p, j) ==
  /\ pc[p] = "scan"
  /\ NextProcess(p, j)
  /\ Advance(p, j)
  /\ unread' = [unread EXCEPT ![p] = @ \/ listing[p][j] = p]
  /\ UNCHANGED <<pc, inits, canaryVars, listing, pid, gateVars>>

(* No process is left: find_pid returns 0.                                 *)
EndOfList(p) ==
  /\ pc[p] = "scan"
  /\ \A i \in at[p] .. Len(listing[p]) : listing[p][i] = NoProcess
  /\ FindPidReturns(p, NULL)
  /\ UNCHANGED <<inits, canaryVars, gateVars>>

StaysMapped(p) == UNCHANGED mapped   \* mutant: the handles are closed, the view is not

UnmapView(p) == mapped' = [mapped EXCEPT ![p] = FALSE]

Unmap(p) ==
  /\ pc[p] = "unmap"
  /\ UnmapView(p)
  /\ Goto(p, "unlink")
  /\ UNCHANGED <<inits, files, scanVars, pid, gateVars>>

KeepsOnFailure(p) ==   \* mutant: the canary is removed on success only
  files' = IF pid[p] = NULL THEN files ELSE files \ {WinPid[p]}

RemoveCanary(p) == files' = files \ {WinPid[p]}

Unlink(p) ==
  /\ pc[p] = "unlink"
  /\ RemoveCanary(p)
  /\ IF pid[p] = NULL THEN Fail(p) ELSE Goto(p, "libc") /\ UNCHANGED <<pid, libc>>
  /\ UNCHANGED <<inits, mapped, scanVars, gate, sealed, probe>>

(* find_libc reads the maps and the memory of the process find_pid named.  *)
(* It takes the errno offset from the first load it sees in the code of    *)
(* __errno_location, which need not be the one that function returns.      *)
FindLibc(p) ==
  /\ pc[p] = "libc"
  /\ Alive(pid[p])
  /\ "load" \in ErrnoCode[pid[p]]
  /\ \E e \in {"right", "wrong"} :
       libc' = [libc EXCEPT ![p] = [of |-> pid[p], errno |-> e]]
  /\ Goto(p, "setup")
  /\ UNCHANGED <<inits, canaryVars, scanVars, pid, gate, sealed, probe>>

(* if (!offAt && !fsAt) fails: with the addition of fs alone find_libc     *)
(* goes on and reads the displacement of a load it has not found.          *)
MisreadsCode(q) == ErrnoCode[q] = {"fs"}

FindLibcFaults(p) ==
  /\ pc[p] = "libc"
  /\ Alive(pid[p])
  /\ MisreadsCode(pid[p])
  /\ Goto(p, "crashed")
  /\ UNCHANGED <<inits, canaryVars, scanVars, pid, gateVars>>

(* The process may have ended, or its libc is not what find_libc expects.  *)
FindLibcFails(p) ==
  /\ pc[p] = "libc"
  /\ Fail(p)
  /\ UNCHANGED <<inits, canaryVars, scanVars, gate, sealed, probe>>

SealsOnFailure(p) ==   \* mutant: VirtualProtect before the result is checked
  sealed' = [sealed EXCEPT ![p] = TRUE]

(* What hg_setup leaves behind when it fails.                              *)
Abort(p) == UNCHANGED sealed

(* hg_setup begins by clearing code_buffer, which faults if an earlier     *)
(* hg_setup has write-protected it.                                        *)
HgSetupFaults(p) ==
  /\ pc[p] = "setup"
  /\ sealed[p]
  /\ Goto(p, "crashed")
  /\ UNCHANGED <<inits, canaryVars, scanVars, pid, gateVars>>

(* No TEB entry, or a trampoline decompile_copy does not understand.       *)
HgSetupFails(p) ==
  /\ pc[p] = "setup"
  /\ ~sealed[p]
  /\ Abort(p)
  /\ Fail(p)
  /\ UNCHANGED <<inits, canaryVars, scanVars, gate, probe>>

(* hg_setup returns 0 for a trampoline without an iret, or with more code  *)
(* than there is room for, too: the copy stops, or overwrites the core.    *)
HgSetup(p) ==
  /\ pc[p] = "setup"
  /\ ~sealed[p]
  /\ \E c \in {"whole", "cut"} :
       gate' = [gate EXCEPT ![p] =
                  [of |-> libc[p].of, errno |-> libc[p].errno, copy |-> c]]
  /\ sealed' = [sealed EXCEPT ![p] = TRUE]
  /\ Goto(p, "getpid")
  /\ UNCHANGED <<inits, canaryVars, scanVars, pid, libc, probe>>

BelievesPid(p) == TRUE   \* mutant: getpidx() is called and not compared

(* getpidx() == pid: the kernel answers with the caller's own pid.         *)
PidConfirmed(p) == pid[p] = p

(* getpidx() runs the copy of the trampoline and jumps to the address of   *)
(* syscall in the libc the gate was made of.                               *)
GateWorks(p) == gate[p].copy = "whole" /\ Layout[gate[p].of] = Layout[p]

GetPid(p) ==
  /\ pc[p] = "getpid"
  /\ GateWorks(p)
  /\ IF PidConfirmed(p) THEN Goto(p, "enosys") /\ UNCHANGED <<pid, libc>> ELSE Fail(p)
  /\ UNCHANGED <<inits, canaryVars, scanVars, gate, sealed, probe>>

(* If that copy is not the whole code, or the own libc is elsewhere, the   *)
(* process ends there.                                                     *)
GetPidFaults(p) ==
  /\ pc[p] = "getpid"
  /\ ~GateWorks(p)
  /\ Goto(p, "crashed")
  /\ UNCHANGED <<inits, canaryVars, scanVars, pid, gateVars>>

(* With a wrong offset the gate reads some other word of the frame that    *)
(* stands in for the TLS.                                                  *)
EnosysResults(p) ==
  IF gate[p].errno = "right" THEN {<<"-1", "ENOSYS">>} ELSE Probes

(* if (errx != -1 && errno != ENOSYS) the call fails.                      *)
Enosys(p) ==
  /\ pc[p] = "enosys"
  /\ \E r \in EnosysResults(p) :
       /\ probe' = [probe EXCEPT ![p] = r]
       /\ IF r[1] # "-1" /\ r[2] # "ENOSYS" THEN Fail(p)
          ELSE Goto(p, "ok") /\ libc' = [libc EXCEPT ![p] = NULL] /\ UNCHANGED pid
  /\ UNCHANGED <<inits, canaryVars, scanVars, gate, sealed>>

(* Any process may end at any time; its mappings end with it.              *)
Exit(p) ==
  /\ Alive(p)
  /\ Goto(p, "exited")
  /\ mapped' = [mapped EXCEPT ![p] = FALSE]
  /\ UNCHANGED <<inits, files, scanVars, pid, gateVars>>

-----------------------------------------------------------------------------
Step(p) ==
  \/ NotSupported(p)
  \/ MakeCanary(p)
  \/ ListProcesses(p)
  \/ ListingFails(p)
  \/ \E j \in DOMAIN listing[p] : Match(p, j)
  \/ \E j \in DOMAIN listing[p] : NoMatch(p, j)
  \/ \E j \in DOMAIN listing[p] : CannotOpen(p, j)
  \/ EndOfList(p)
  \/ Unmap(p)
  \/ Unlink(p)
  \/ FindLibc(p)
  \/ FindLibcFaults(p)
  \/ FindLibcFails(p)
  \/ HgSetupFaults(p)
  \/ HgSetupFails(p)
  \/ HgSetup(p)
  \/ GetPid(p)
  \/ GetPidFaults(p)
  \/ Enosys(p)

Next ==
  \/ \E p \in Callers : Start(p)
  \/ \E p \in Callers : Step(p)
  \/ \E p \in Pids : Exit(p)

Spec == Init /\ [][Next]_vars

(* A process inside wine_portal_init, which waits for nobody, is scheduled *)
(* again.                                                                  *)
FairSpec == Spec /\ \A p \in Callers : WF_vars(Step(p))

-----------------------------------------------------------------------------
(* Types; a canary is mapped only while find_pid may look for it; and the  *)
(* code buffer is write-protected exactly when there is a gate in it.      *)
TypeOK ==
  /\ pc \in [Pids -> {"idle", "canary", "list", "scan", "unmap", "unlink", "libc",
                      "setup", "getpid", "enosys", "ok", "failed", "crashed", "exited"}]
  /\ inits \in [Pids -> Nat]
  /\ mapped \in [Pids -> BOOLEAN]
  /\ files \subseteq {WinPid[p] : p \in Pids}
  /\ listing \in [Pids -> Seq(Pids \cup {NoProcess})]
  /\ at \in [Pids -> Nat \ {0}]
  /\ unread \in [Pids -> BOOLEAN]
  /\ pid \in [Pids -> Pids \cup {NULL}]
  /\ libc \in [Pids -> Libcs \cup {NULL}]
  /\ gate \in [Pids -> Gates \cup {NULL}]
  /\ sealed \in [Pids -> BOOLEAN]
  /\ probe \in [Pids -> Probes \cup {NULL}]
  /\ \A p \in Pids : mapped[p] => pc[p] \in {"list", "scan", "unmap"}
  /\ \A p \in Pids : sealed[p] <=> gate[p] # NULL

(* wine_portal_init returns 0 only in a process that found itself and      *)
(* whose gate leads to its own libc, whichever canaries others have mapped *)
(* meanwhile: a wrong pid does not survive the comparison with getpidx().  *)
SuccessIsOwnProcess ==
  \A p \in Pids : pc[p] = "ok" => pid[p] = p /\ gate[p].of = p

(* A process whose canary is mapped and whose maps can be opened is found  *)
(* whatever the order of /proc and whoever else comes and goes: the scan   *)
(* never ends without a match.                                             *)
OwnPidNotMissed ==
  [][\A p \in Pids :
       /\ pc[p] = "scan" /\ pc'[p] = "unmap"
       /\ mapped[p] /\ ~unread[p]
       => pid'[p] # NULL]_vars

(* What find_pid may take for the caller: only a process that has called   *)
(* wine_portal_init itself and whose Windows pid is not below the caller's *)
(* own.  So of two processes with different pids at most one mistakes the  *)
(* other for itself.                                                       *)
MistakenIdentity ==
  \A p \in Pids :
    pid[p] # NULL => inits[pid[p]] > 0 /\ WinPid[pid[p]] >= WinPid[p]

(* wine_portal_init crashes the process only if it was taken for another   *)
(* one, if an earlier call in the same process got past hg_setup, if the   *)
(* errno code of its own libc is of the form find_libc mistakes for the    *)
(* one it knows, or if hg_setup took a part of the trampoline for all.     *)
CrashHasCause ==
  \A p \in Pids :
    pc[p] = "crashed" =>
      \/ pid[p] # p
      \/ inits[p] > 1 /\ gate[p] # NULL
      \/ MisreadsCode(p)
      \/ gate[p] # NULL /\ gate[p].copy = "cut"

(* A canary is left in /tmp only by a process that ended before it could   *)
(* remove it, although every failure on the way returns early and two      *)
(* processes may share one canary file.                                    *)
CanaryLeftNeedsExit ==
  \A w \in files :
    \E p \in Pids :
      WinPid[p] = w /\ pc[p] \in {"list", "scan", "unmap", "unlink", "exited"}

(* A call returns, unless the scan passed the process by, because its      *)
(* canary could not be mapped or its maps not opened, and /proc lists a    *)
(* process last, which procfs_processes_iter_next then returns for ever.   *)
SpinsOnLast(p) ==
  /\ pc[p] = "scan"
  /\ ~mapped[p] \/ unread[p]
  /\ Last(listing[p]) # NoProcess

InitReturns ==
  \A p \in Callers : Running(p) ~> ~Running(p) \/ SpinsOnLast(p)

(* "find pid of our process" (wine_xdg_portal.c:68): the pid find_pid      *)
(* returns is the caller's.                                                *)
FindsOwnPid == \A p \in Pids : pc[p] = "libc" => pid[p] = p

(* "enosys() = %d, error=%d, expected %d" (wine_xdg_portal.c:115): unless  *)
(* a system call that does not exist returns -1 with errno ENOSYS,         *)
(* wine_portal_init fails.                                                 *)
ErrnoTested == \A p \in Pids : pc[p] = "ok" => probe[p] = <<"-1", "ENOSYS">>

=============================================================================
