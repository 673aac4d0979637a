--------------------------- MODULE BootstrapProofs ---------------------------
(***************************************************************************)
(* Proofs about Bootstrap, for any number of processes and callers, any    *)
(* assignment of Windows process ids and libc addresses, and any number of *)
(* calls.                                                                  *)
(***************************************************************************)
EXTENDS Bootstrap, FiniteSetTheorems, SequenceTheorems, TLAPS

(* A scan begins with the first entry, and as long as it can succeed it    *)
(* has the caller's own entry ahead of it.                                 *)
OwnEntryAhead ==
  \A p \in Pids :
    /\ pc[p] \notin {"scan", "exited"} => at[p] = 1
    /\ pc[p] = "scan" /\ mapped[p] /\ ~unread[p] =>
         \E i \in at[p] .. Len(listing[p]) : listing[p][i] = p

(* The pid found is the one whose libc the gate is made of, and getpidx()  *)
(* is the only way past "getpid".                                          *)
GateOfPid ==
  \A p \in Pids :
    /\ pc[p] \in {"libc", "setup", "getpid", "enosys", "ok"} => pid[p] \in Pids
    /\ pc[p] = "setup" => libc[p] \in Libcs /\ libc[p].of = pid[p]
    /\ pc[p] \in {"getpid", "enosys", "ok"} => gate[p] \in Gates /\ gate[p].of = pid[p]
    /\ pc[p] \in {"enosys", "ok"} => pid[p] = p

(* Only an earlier call can have sealed the buffer hg_setup will clear.    *)
SealedByEarlierCall ==
  \A p \in Pids :
    /\ Running(p) \/ sealed[p] => inits[p] > 0
    /\ sealed[p] /\ pc[p] \in {"canary", "list", "scan", "unmap", "unlink", "libc", "setup"}
         => inits[p] > 1

Inv == /\ TypeOK
       /\ OwnEntryAhead
       /\ GateOfPid
       /\ SealedByEarlierCall
       /\ CrashHasCause
       /\ CanaryLeftNeedsExit
       /\ MistakenIdentity

(* An enumeration lists every process once.                                *)
LEMMA ListsAll ==
  ASSUME NEW S, IsFiniteSet(S), NEW s \in SetToSeqs(S)
  PROVE  /\ s \in Seq(S)
         /\ Len(s) \in Nat
         /\ \A q \in S : \E i \in 1 .. Len(s) : s[i] = q
<1> DEFINE n == Cardinality(S)
<1>1. n \in Nat
  BY FS_CardinalityType
<1>2. s \in [1 .. n -> S] /\ \A i, j \in 1 .. n : i # j => s[i] # s[j]
  BY DEF SetToSeqs
<1>3. s \in Seq(S) /\ Len(s) = n
  BY <1>1, <1>2
<1>4. s \in Injection(1 .. n, S)
  BY <1>2 DEF Injection, IsInjective
<1>5. IsFiniteSet(1 .. n) /\ Cardinality(1 .. n) = n
  BY <1>1, FS_Interval
<1>6. s \in Surjection(1 .. n, S)
  BY <1>4, <1>5, FS_Injection
<1>7. QED
  BY <1>1, <1>3, <1>6 DEF Surjection

(* The initial states.                                                     *)
LEMMA InitInv == Init => Inv
BY EntryAssumption, PidsAssumption
DEF Init, Inv, TypeOK, OwnEntryAhead, GateOfPid, SealedByEarlierCall, CrashHasCause,
    CanaryLeftNeedsExit, MistakenIdentity, Running

(* The actions with two outcomes, each as one of two plain assignments.    *)
UnlinkEnds(p) ==
  /\ files' = files \ {WinPid[p]}
  /\ pc[p] = "unlink"
  /\ UNCHANGED <<inits, mapped, scanVars, gate, sealed, probe>>
  /\ \/ /\ pc'   = [pc EXCEPT ![p] = "failed"]
        /\ pid'  = [pid EXCEPT ![p] = NULL]
        /\ libc' = [libc EXCEPT ![p] = NULL]
     \/ /\ pid[p] # NULL
        /\ pc' = [pc EXCEPT ![p] = "libc"]
        /\ UNCHANGED <<pid, libc>>

GetPidEnds(p) ==
  /\ UNCHANGED <<inits, mapped, files, scanVars, gate, sealed, probe>>
  /\ pc[p] = "getpid"
  /\ \/ /\ pc'   = [pc EXCEPT ![p] = "failed"]
        /\ pid'  = [pid EXCEPT ![p] = NULL]
        /\ libc' = [libc EXCEPT ![p] = NULL]
     \/ /\ pid[p] = p
        /\ pc' = [pc EXCEPT ![p] = "enosys"]
        /\ UNCHANGED <<pid, libc>>

EnosysEnds(p) ==
  /\ UNCHANGED <<inits, mapped, files, scanVars, gate, sealed>>
  /\ pc[p] = "enosys"
  /\ \E r \in Probes : probe' = [probe EXCEPT ![p] = r]
  /\ libc' = [libc EXCEPT ![p] = NULL]
  /\ \/ /\ pc'  = [pc EXCEPT ![p] = "failed"]
        /\ pid' = [pid EXCEPT ![p] = NULL]
     \/ /\ pc' = [pc EXCEPT ![p] = "ok"]
        /\ UNCHANGED pid

LEMMA UnlinkOutcome == ASSUME NEW p, Unlink(p) PROVE UnlinkEnds(p)
BY DEF Unlink, RemoveCanary, Goto, Fail, scanVars, UnlinkEnds

LEMMA GetPidOutcome == ASSUME NEW p, GetPid(p) PROVE GetPidEnds(p)
BY DEF GetPid, PidConfirmed, Goto, Fail, canaryVars, scanVars, GetPidEnds

LEMMA EnosysOutcome == ASSUME NEW p, Enosys(p) PROVE EnosysEnds(p)
<1>1. UNCHANGED <<inits, mapped, files, scanVars, gate, sealed>> /\ pc[p] = "enosys"
  BY DEF Enosys, canaryVars
<1>2. PICK r \in EnosysResults(p) :
        /\ probe' = [probe EXCEPT ![p] = r]
        /\ IF r[1] # "-1" /\ r[2] # "ENOSYS" THEN Fail(p)
           ELSE Goto(p, "ok") /\ libc' = [libc EXCEPT ![p] = NULL] /\ UNCHANGED pid
  BY Zenon DEF Enosys
<1>3. r \in Probes
  BY DEF EnosysResults, Probes
<1>4. \/ Fail(p)
      \/ Goto(p, "ok") /\ libc' = [libc EXCEPT ![p] = NULL] /\ UNCHANGED pid
  BY <1>2
<1>5. QED
  BY <1>1, <1>2, <1>3, <1>4 DEF Fail, Goto, EnosysEnds

LEMMA GateBuilt ==
  ASSUME TypeOK, GateOfPid, NEW p \in Pids, HgSetup(p)
  PROVE  /\ gate' \in [Pids -> Gates \cup {NULL}]
         /\ gate'[p] \in Gates /\ gate'[p].of = libc[p].of
         /\ \A q \in Pids : q # p => gate'[q] = gate[q]
<1>1. PICK c \in {"whole", "cut"} :
        gate' = [gate EXCEPT ![p] = [of |-> libc[p].of, errno |-> libc[p].errno, copy |-> c]]
  BY DEF HgSetup
<1>2. libc[p] \in Libcs
  BY DEF HgSetup, GateOfPid
<1>3. [of |-> libc[p].of, errno |-> libc[p].errno, copy |-> c] \in Gates
  BY <1>2 DEF Libcs, Gates
<1>4. QED
  BY <1>1, <1>3 DEF TypeOK

(* Every step keeps the types; FindLibc needs the pid find_pid returned.   *)
LEMMA TypeOKStep ==
  ASSUME TypeOK, GateOfPid, Next
  PROVE  TypeOK'
<1>1. ASSUME NEW p \in Pids, Start(p)
      PROVE  TypeOK'
  BY <1>1, EntryAssumption
  DEF Start, Goto, TypeOK, GateOfPid, canaryVars, scanVars, gateVars
<1>2. ASSUME NEW p \in Pids, NotSupported(p)
      PROVE  TypeOK'
  BY <1>2, EntryAssumption
  DEF NotSupported, Goto, Fail, TypeOK, GateOfPid, canaryVars, scanVars
<1>3. ASSUME NEW p \in Pids, MakeCanary(p)
      PROVE  TypeOK'
  <2>1. files' \subseteq {WinPid[q] : q \in Pids} /\ mapped' \in [Pids -> BOOLEAN]
    BY <1>3 DEF MakeCanary, TypeOK
  <2>2. \A q \in Pids : q # p => mapped'[q] = mapped[q]
    BY <1>3 DEF MakeCanary, TypeOK
  <2>3. QED
    BY <1>3, <2>1, <2>2 DEF MakeCanary, Goto, TypeOK, scanVars, gateVars
<1>4. ASSUME NEW p \in Pids, ListProcesses(p)
      PROVE  TypeOK'
  <2>1. PICK s \in SetToSeqs({q \in Pids : Alive(q)} \cup {NoProcess}) :
          listing' = [listing EXCEPT ![p] = s]
    BY <1>4 DEF ListProcesses
  <2>2. IsFiniteSet({q \in Pids : Alive(q)} \cup {NoProcess})
    BY PidsAssumption, FS_Subset, FS_AddElement
  <2>3. s \in Seq({q \in Pids : Alive(q)} \cup {NoProcess})
    BY <2>2, ListsAll
  <2>4. s \in Seq(Pids \cup {NoProcess})
    BY <2>3
  <2>5. listing' \in [Pids -> Seq(Pids \cup {NoProcess})]
    BY <2>1, <2>4 DEF TypeOK
  <2>6. QED
    BY <1>4, <2>5 DEF ListProcesses, Goto, TypeOK, canaryVars, gateVars
<1>5. ASSUME NEW p \in Pids, ListingFails(p)
      PROVE  TypeOK'
  BY <1>5, EntryAssumption
  DEF ListingFails, Goto, FindPidReturns, TypeOK, GateOfPid, canaryVars, gateVars
<1>6. ASSUME NEW p \in Pids, NEW j \in DOMAIN listing[p], Match(p, j)
      PROVE  TypeOK'
  BY <1>6, EntryAssumption
  DEF Match, Goto, FindPidReturns, NextProcess, TypeOK, GateOfPid, canaryVars,
      gateVars
<1>7. ASSUME NEW p \in Pids, NEW j \in DOMAIN listing[p], NoMatch(p, j)
      PROVE  TypeOK'
  BY <1>7, EntryAssumption
  DEF NoMatch, NextProcess, Advance, TypeOK, GateOfPid, canaryVars, gateVars
<1>8. ASSUME NEW p \in Pids, EndOfList(p)
      PROVE  TypeOK'
  BY <1>8, EntryAssumption
  DEF EndOfList, Goto, FindPidReturns, TypeOK, GateOfPid, canaryVars, gateVars
<1>9. ASSUME NEW p \in Pids, Unmap(p)
      PROVE  TypeOK'
  BY <1>9, EntryAssumption
  DEF Unmap, Goto, UnmapView, TypeOK, GateOfPid, scanVars, gateVars
<1>10. ASSUME NEW p \in Pids, Unlink(p)
      PROVE  TypeOK'
  <2>1. UnlinkEnds(p)
    BY <1>10, UnlinkOutcome
  <2>2. QED
    BY <2>1 DEF UnlinkEnds, scanVars, TypeOK
<1>11. ASSUME NEW p \in Pids, FindLibc(p)
      PROVE  TypeOK'
  <2>1. libc' \in [Pids -> Libcs \cup {NULL}]
    BY <1>11 DEF FindLibc, GateOfPid, Libcs, TypeOK
  <2>2. QED
    BY <1>11, <2>1 DEF FindLibc, Goto, TypeOK, canaryVars, scanVars
<1>12. ASSUME NEW p \in Pids, FindLibcFails(p)
      PROVE  TypeOK'
  BY <1>12, EntryAssumption
  DEF FindLibcFails, Goto, Fail, TypeOK, GateOfPid, canaryVars, scanVars
<1>13. ASSUME NEW p \in Pids, HgSetupFaults(p)
      PROVE  TypeOK'
  BY <1>13, EntryAssumption
  DEF HgSetupFaults, Goto, TypeOK, GateOfPid, canaryVars, scanVars, gateVars
<1>14. ASSUME NEW p \in Pids, HgSetupFails(p)
      PROVE  TypeOK'
  BY <1>14, EntryAssumption
  DEF HgSetupFails, Goto, Fail, Abort, TypeOK, GateOfPid, canaryVars, scanVars
<1>15. ASSUME NEW p \in Pids, HgSetup(p)
      PROVE  TypeOK'
  <2>1. /\ gate' \in [Pids -> Gates \cup {NULL}] /\ gate'[p] # NULL
        /\ \A q \in Pids : q # p => gate'[q] = gate[q]
    BY <1>15, GateBuilt, EntryAssumption
  <2>2. sealed' = [sealed EXCEPT ![p] = TRUE] /\ pc[p] = "setup" /\ pc' = [pc EXCEPT ![p] = "getpid"]
    BY <1>15 DEF HgSetup, Goto
  <2>3. QED
    BY <1>15, <2>1, <2>2 DEF HgSetup, TypeOK, canaryVars, scanVars
<1>16. ASSUME NEW p \in Pids, GetPid(p)
      PROVE  TypeOK'
  <2>1. GetPidEnds(p)
    BY <1>16, GetPidOutcome
  <2>2. QED
    BY <2>1 DEF GetPidEnds, scanVars, TypeOK
<1>17. ASSUME NEW p \in Pids, GetPidFaults(p)
      PROVE  TypeOK'
  BY <1>17, EntryAssumption
  DEF GetPidFaults, Goto, TypeOK, GateOfPid, canaryVars, scanVars, gateVars
<1>18. ASSUME NEW p \in Pids, Enosys(p)
      PROVE  TypeOK'
  <2>1. EnosysEnds(p)
    BY <1>18, EnosysOutcome
  <2>2. PICK r \in Probes : probe' = [probe EXCEPT ![p] = r]
    BY <2>1 DEF EnosysEnds
  <2>3. probe' \in [Pids -> Probes \cup {NULL}]
    BY <2>2 DEF TypeOK
  <2>4. QED
    BY <2>1, <2>3 DEF EnosysEnds, scanVars, TypeOK
<1>19. ASSUME NEW p \in Pids, Exit(p)
      PROVE  TypeOK'
  BY <1>19, EntryAssumption
  DEF Exit, Goto, UnmapView, Alive, TypeOK, GateOfPid, scanVars, gateVars
<1>20. ASSUME NEW p \in Pids, FindLibcFaults(p)
      PROVE  TypeOK'
  BY <1>20, EntryAssumption
  DEF FindLibcFaults, Goto, TypeOK, GateOfPid, canaryVars, scanVars, gateVars
<1>21. ASSUME NEW p \in Pids, NEW j \in DOMAIN listing[p], CannotOpen(p, j)
      PROVE  TypeOK'
  BY <1>21, EntryAssumption
  DEF CannotOpen, NextProcess, Advance, TypeOK, canaryVars, gateVars
<1>22. QED
  BY <1>1, <1>2, <1>3, <1>4, <1>5, <1>6, <1>7, <1>8, <1>9, <1>10, <1>11, <1>12,
     <1>13, <1>14, <1>15, <1>16, <1>17, <1>18, <1>19, <1>20, <1>21,
     PidsAssumption
  DEF Next, Step

(* The scan goes past entry j, and past the caller only where it has to.   *)
LEMMA PassesEntry ==
  ASSUME TypeOK, OwnEntryAhead, NEW p \in Pids, NEW j \in DOMAIN listing[p], pc[p] = "scan",
         NextProcess(p, j), Advance(p, j), UNCHANGED <<pc, mapped, listing>>,
         \A q \in Pids : unread[q] => unread'[q],
         listing[p][j] = p => ~mapped[p] \/ unread'[p]
  PROVE  OwnEntryAhead'
<1>1. /\ at[p] \in Nat /\ Len(listing[p]) \in Nat /\ j \in at[p] .. Len(listing[p])
      /\ \A k \in at[p] .. (j - 1) : listing[p][k] = NoProcess
  <2>1. at[p] \in Nat /\ Len(listing[p]) \in Nat
    BY DEF TypeOK
  <2>2. j \in at[p] .. Len(listing[p]) /\ \A k \in at[p] .. (j - 1) : listing[p][k] = NoProcess
    BY DEF NextProcess
  <2>3. QED
    BY <2>1, <2>2
<1>2. at' = [at EXCEPT ![p] = IF j < Len(listing[p]) THEN j + 1 ELSE j]
  BY DEF Advance
<1>3. ASSUME mapped[p], ~unread'[p]
      PROVE  \E k \in at'[p] .. Len(listing[p]) : listing[p][k] = p
  <2>1. PICK k \in at[p] .. Len(listing[p]) : listing[p][k] = p
    BY <1>1, <1>3 DEF OwnEntryAhead
  <2>2. k > j
    <3>1. k # j
      BY <1>1, <1>3, <2>1
    <3>2. k \notin at[p] .. (j - 1)
      BY <1>1, <2>1, EntryAssumption
    <3>3. QED
      BY <1>1, <2>1, <3>1, <3>2
  <2>3. k \in at'[p] .. Len(listing[p])
    BY <1>1, <1>2, <2>1, <2>2 DEF TypeOK
  <2>4. QED
    BY <2>1, <2>3
<1>4. ASSUME NEW q \in Pids, q # p
      PROVE  at'[q] = at[q]
  BY <1>2, <1>4 DEF TypeOK
<1>5. QED
  BY <1>1, <1>3, <1>4 DEF OwnEntryAhead

(* ListProcesses puts the caller into the list, NoMatch never skips it.    *)
LEMMA OwnEntryAheadStep ==
  ASSUME TypeOK, OwnEntryAhead, Next
  PROVE  OwnEntryAhead'
<1>1. ASSUME NEW p \in Pids, Start(p)
      PROVE  OwnEntryAhead'
  BY <1>1
  DEF Start, Goto, TypeOK, OwnEntryAhead, canaryVars, scanVars, gateVars
<1>2. ASSUME NEW p \in Pids, NotSupported(p)
      PROVE  OwnEntryAhead'
  BY <1>2
  DEF NotSupported, Goto, Fail, TypeOK, OwnEntryAhead, canaryVars, scanVars
<1>3. ASSUME NEW p \in Pids, MakeCanary(p)
      PROVE  OwnEntryAhead'
  BY <1>3
  DEF MakeCanary, Goto, TypeOK, OwnEntryAhead, scanVars, gateVars
<1>4. ASSUME NEW p \in Pids, ListProcesses(p)
      PROVE  OwnEntryAhead'
  <2>1. PICK s \in SetToSeqs({q \in Pids : Alive(q)} \cup {NoProcess}) :
          listing' = [listing EXCEPT ![p] = s]
    BY <1>4 DEF ListProcesses
  <2>2. IsFiniteSet({q \in Pids : Alive(q)} \cup {NoProcess})
    BY PidsAssumption, FS_Subset, FS_AddElement
  <2>3. Alive(p) /\ at' = at
    BY <1>4 DEF ListProcesses, Alive
  <2>4. \A q \in {q \in Pids : Alive(q)} \cup {NoProcess} :
          \E k \in 1 .. Len(s) : s[k] = q
    BY <2>2, ListsAll
  <2>5. \E k \in 1 .. Len(s) : s[k] = p
    BY <2>3, <2>4 DEF Alive
  <2>6. QED
    BY <1>4, <2>1, <2>5 DEF ListProcesses, Goto, TypeOK, OwnEntryAhead, canaryVars
<1>5. ASSUME NEW p \in Pids, ListingFails(p)
      PROVE  OwnEntryAhead'
  BY <1>5
  DEF ListingFails, Goto, FindPidReturns, TypeOK, OwnEntryAhead, canaryVars,
      gateVars
<1>6. ASSUME NEW p \in Pids, NEW j \in DOMAIN listing[p], Match(p, j)
      PROVE  OwnEntryAhead'
  BY <1>6
  DEF Match, Goto, FindPidReturns, NextProcess, TypeOK, OwnEntryAhead, canaryVars,
      gateVars
<1>7. ASSUME NEW p \in Pids, NEW j \in DOMAIN listing[p], NoMatch(p, j)
      PROVE  OwnEntryAhead'
  <2>1. listing[p][j] = p => ~mapped[p]
    BY <1>7, Zenon DEF NoMatch, ShowsCanary, CanaryWithin
  <2>2. NextProcess(p, j) /\ Advance(p, j) /\ UNCHANGED <<pc, mapped, listing, unread>>
    BY <1>7 DEF NoMatch, canaryVars
  <2>3. QED
    BY <1>7, <2>1, <2>2, PassesEntry DEF NoMatch
<1>8. ASSUME NEW p \in Pids, EndOfList(p)
      PROVE  OwnEntryAhead'
  BY <1>8
  DEF EndOfList, Goto, FindPidReturns, TypeOK, OwnEntryAhead, canaryVars, gateVars
<1>9. ASSUME NEW p \in Pids, Unmap(p)
      PROVE  OwnEntryAhead'
  BY <1>9
  DEF Unmap, Goto, UnmapView, TypeOK, OwnEntryAhead, scanVars, gateVars
<1>10. ASSUME NEW p \in Pids, Unlink(p)
      PROVE  OwnEntryAhead'
  <2>1. UnlinkEnds(p)
    BY <1>10, UnlinkOutcome
  <2>2. QED
    BY <2>1 DEF UnlinkEnds, scanVars, TypeOK, OwnEntryAhead
<1>11. ASSUME NEW p \in Pids, FindLibc(p)
      PROVE  OwnEntryAhead'
  BY <1>11
  DEF FindLibc, Goto, TypeOK, OwnEntryAhead, canaryVars, scanVars
<1>12. ASSUME NEW p \in Pids, FindLibcFails(p)
      PROVE  OwnEntryAhead'
  BY <1>12
  DEF FindLibcFails, Goto, Fail, TypeOK, OwnEntryAhead, canaryVars, scanVars
<1>13. ASSUME NEW p \in Pids, HgSetupFaults(p)
      PROVE  OwnEntryAhead'
  BY <1>13
  DEF HgSetupFaults, Goto, TypeOK, OwnEntryAhead, canaryVars, scanVars, gateVars
<1>14. ASSUME NEW p \in Pids, HgSetupFails(p)
      PROVE  OwnEntryAhead'
  BY <1>14
  DEF HgSetupFails, Goto, Fail, Abort, TypeOK, OwnEntryAhead, canaryVars, scanVars
<1>15. ASSUME NEW p \in Pids, HgSetup(p)
      PROVE  OwnEntryAhead'
  BY <1>15
  DEF HgSetup, Goto, TypeOK, OwnEntryAhead, canaryVars, scanVars
<1>16. ASSUME NEW p \in Pids, GetPid(p)
      PROVE  OwnEntryAhead'
  <2>1. GetPidEnds(p)
    BY <1>16, GetPidOutcome
  <2>2. QED
    <3>1. UNCHANGED <<mapped, listing, at, unread>> /\ pc[p] = "getpid"
      BY <2>1 DEF GetPidEnds, scanVars
    <3>2. \E l \in {"failed", "enosys"} : pc' = [pc EXCEPT ![p] = l]
      BY <2>1 DEF GetPidEnds
    <3>3. QED
      BY <3>1, <3>2 DEF TypeOK, OwnEntryAhead
<1>17. ASSUME NEW p \in Pids, GetPidFaults(p)
      PROVE  OwnEntryAhead'
  BY <1>17
  DEF GetPidFaults, Goto, TypeOK, OwnEntryAhead, canaryVars, scanVars, gateVars
<1>18. ASSUME NEW p \in Pids, Enosys(p)
      PROVE  OwnEntryAhead'
  <2>1. EnosysEnds(p)
    BY <1>18, EnosysOutcome
  <2>2. QED
    BY <2>1 DEF EnosysEnds, scanVars, TypeOK, OwnEntryAhead
<1>19. ASSUME NEW p \in Pids, Exit(p)
      PROVE  OwnEntryAhead'
  BY <1>19
  DEF Exit, Goto, UnmapView, Alive, TypeOK, OwnEntryAhead, scanVars, gateVars
<1>20. ASSUME NEW p \in Pids, FindLibcFaults(p)
      PROVE  OwnEntryAhead'
  BY <1>20
  DEF FindLibcFaults, Goto, TypeOK, OwnEntryAhead, canaryVars, scanVars, gateVars
<1>21. ASSUME NEW p \in Pids, NEW j \in DOMAIN listing[p], CannotOpen(p, j)
      PROVE  OwnEntryAhead'
  <2>1. unread' = [unread EXCEPT ![p] = unread[p] \/ listing[p][j] = p]
    BY <1>21 DEF CannotOpen
  <2>2. /\ NextProcess(p, j) /\ Advance(p, j) /\ UNCHANGED <<pc, mapped, listing>>
        /\ pc[p] = "scan"
    BY <1>21 DEF CannotOpen, canaryVars
  <2>3. /\ \A q \in Pids : unread[q] => unread'[q]
        /\ listing[p][j] = p => unread'[p]
    BY <2>1 DEF TypeOK
  <2>4. QED
    BY <2>2, <2>3, PassesEntry
<1>22. QED
  BY <1>1, <1>2, <1>3, <1>4, <1>5, <1>6, <1>7, <1>8, <1>9, <1>10, <1>11, <1>12,
     <1>13, <1>14, <1>15, <1>16, <1>17, <1>18, <1>19, <1>20, <1>21,
     PidsAssumption
  DEF Next, Step

(* HgSetup takes the libc of that pid, GetPid lets only the own pid pass.  *)
LEMMA GateOfPidStep ==
  ASSUME TypeOK, GateOfPid, Next
  PROVE  GateOfPid'
<1>1. ASSUME NEW p \in Pids, Start(p)
      PROVE  GateOfPid'
  BY <1>1, EntryAssumption
  DEF Start, Goto, TypeOK, GateOfPid, canaryVars, scanVars, gateVars
<1>2. ASSUME NEW p \in Pids, NotSupported(p)
      PROVE  GateOfPid'
  BY <1>2, EntryAssumption
  DEF NotSupported, Goto, Fail, TypeOK, GateOfPid, canaryVars, scanVars
<1>3. ASSUME NEW p \in Pids, MakeCanary(p)
      PROVE  GateOfPid'
  BY <1>3, EntryAssumption
  DEF MakeCanary, Goto, TypeOK, GateOfPid, scanVars, gateVars
<1>4. ASSUME NEW p \in Pids, ListProcesses(p)
      PROVE  GateOfPid'
  BY <1>4, EntryAssumption
  DEF ListProcesses, Goto, TypeOK, GateOfPid, canaryVars, gateVars
<1>5. ASSUME NEW p \in Pids, ListingFails(p)
      PROVE  GateOfPid'
  BY <1>5, EntryAssumption
  DEF ListingFails, Goto, FindPidReturns, TypeOK, GateOfPid, canaryVars, gateVars
<1>6. ASSUME NEW p \in Pids, NEW j \in DOMAIN listing[p], Match(p, j)
      PROVE  GateOfPid'
  BY <1>6, EntryAssumption
  DEF Match, Goto, FindPidReturns, NextProcess, TypeOK, GateOfPid, canaryVars,
      gateVars
<1>7. ASSUME NEW p \in Pids, NEW j \in DOMAIN listing[p], NoMatch(p, j)
      PROVE  GateOfPid'
  BY <1>7, EntryAssumption
  DEF NoMatch, NextProcess, Advance, TypeOK, GateOfPid, canaryVars, gateVars
<1>8. ASSUME NEW p \in Pids, EndOfList(p)
      PROVE  GateOfPid'
  BY <1>8, EntryAssumption
  DEF EndOfList, Goto, FindPidReturns, TypeOK, GateOfPid, canaryVars, gateVars
<1>9. ASSUME NEW p \in Pids, Unmap(p)
      PROVE  GateOfPid'
  BY <1>9, EntryAssumption
  DEF Unmap, Goto, UnmapView, TypeOK, GateOfPid, scanVars, gateVars
<1>10. ASSUME NEW p \in Pids, Unlink(p)
      PROVE  GateOfPid'
  BY <1>10, EntryAssumption
  DEF Unlink, Goto, Fail, RemoveCanary, TypeOK, GateOfPid, scanVars
<1>11. ASSUME NEW p \in Pids, FindLibc(p)
      PROVE  GateOfPid'
  <2>1. PICK e \in {"right", "wrong"} :
          libc' = [libc EXCEPT ![p] = [of |-> pid[p], errno |-> e]]
    BY <1>11 DEF FindLibc
  <2>2. [of |-> pid[p], errno |-> e] \in Libcs /\ [of |-> pid[p], errno |-> e].of = pid[p]
    BY <1>11 DEF FindLibc, GateOfPid, Libcs
  <2>3. libc'[p] \in Libcs /\ libc'[p].of = pid[p]
    BY <2>1, <2>2 DEF TypeOK
  <2>4. \A q \in Pids : q # p => libc'[q] = libc[q]
    BY <2>1 DEF TypeOK
  <2>5. QED
    BY <1>11, <2>3, <2>4 DEF FindLibc, Goto, TypeOK, GateOfPid
<1>12. ASSUME NEW p \in Pids, FindLibcFails(p)
      PROVE  GateOfPid'
  BY <1>12, EntryAssumption
  DEF FindLibcFails, Goto, Fail, TypeOK, GateOfPid, canaryVars, scanVars
<1>13. ASSUME NEW p \in Pids, HgSetupFaults(p)
      PROVE  GateOfPid'
  BY <1>13, EntryAssumption
  DEF HgSetupFaults, Goto, TypeOK, GateOfPid, canaryVars, scanVars, gateVars
<1>14. ASSUME NEW p \in Pids, HgSetupFails(p)
      PROVE  GateOfPid'
  BY <1>14, EntryAssumption
  DEF HgSetupFails, Goto, Fail, Abort, TypeOK, GateOfPid, canaryVars, scanVars
<1>15. ASSUME NEW p \in Pids, HgSetup(p)
      PROVE  GateOfPid'
  <2>1. pc[p] = "setup" /\ pc' = [pc EXCEPT ![p] = "getpid"] /\ UNCHANGED <<pid, libc>>
    BY <1>15 DEF HgSetup, Goto
  <2>2. gate'[p] \in Gates /\ gate'[p].of = libc[p].of
    BY <1>15, GateBuilt
  <2>3. \A q \in Pids : q # p => pc'[q] = pc[q] /\ gate'[q] = gate[q]
    BY <1>15, <2>1, GateBuilt DEF TypeOK
  <2>4. QED
    BY <2>1, <2>2, <2>3 DEF TypeOK, GateOfPid
<1>16. ASSUME NEW p \in Pids, GetPid(p)
      PROVE  GateOfPid'
  BY <1>16, EntryAssumption
  DEF GetPid, Goto, Fail, PidConfirmed, TypeOK, GateOfPid, canaryVars, scanVars
<1>17. ASSUME NEW p \in Pids, GetPidFaults(p)
      PROVE  GateOfPid'
  BY <1>17, EntryAssumption
  DEF GetPidFaults, Goto, TypeOK, GateOfPid, canaryVars, scanVars, gateVars
<1>18. ASSUME NEW p \in Pids, Enosys(p)
      PROVE  GateOfPid'
  BY <1>18, EntryAssumption
  DEF Enosys, Goto, Fail, TypeOK, GateOfPid, canaryVars, scanVars
<1>19. ASSUME NEW p \in Pids, Exit(p)
      PROVE  GateOfPid'
  BY <1>19, EntryAssumption
  DEF Exit, Goto, UnmapView, Alive, TypeOK, GateOfPid, scanVars, gateVars
<1>20. ASSUME NEW p \in Pids, FindLibcFaults(p)
      PROVE  GateOfPid'
  BY <1>20, EntryAssumption
  DEF FindLibcFaults, Goto, TypeOK, GateOfPid, canaryVars, scanVars, gateVars
<1>21. ASSUME NEW p \in Pids, NEW j \in DOMAIN listing[p], CannotOpen(p, j)
      PROVE  GateOfPid'
  BY <1>21, EntryAssumption
  DEF CannotOpen, NextProcess, Advance, TypeOK, GateOfPid, canaryVars, gateVars
<1>22. QED
  BY <1>1, <1>2, <1>3, <1>4, <1>5, <1>6, <1>7, <1>8, <1>9, <1>10, <1>11, <1>12,
     <1>13, <1>14, <1>15, <1>16, <1>17, <1>18, <1>19, <1>20, <1>21,
     PidsAssumption
  DEF Next, Step

(* Only HgSetup seals the buffer, and it ends the part that counts.        *)
LEMMA SealedByEarlierCallStep ==
  ASSUME TypeOK, SealedByEarlierCall, Next
  PROVE  SealedByEarlierCall'
<1>1. ASSUME NEW p \in Pids, Start(p)
      PROVE  SealedByEarlierCall'
  BY <1>1
  DEF Start, Goto, TypeOK, SealedByEarlierCall, Running, canaryVars, scanVars,
      gateVars
<1>2. ASSUME NEW p \in Pids, NotSupported(p)
      PROVE  SealedByEarlierCall'
  BY <1>2
  DEF NotSupported, Goto, Fail, TypeOK, SealedByEarlierCall, Running, canaryVars,
      scanVars
<1>3. ASSUME NEW p \in Pids, MakeCanary(p)
      PROVE  SealedByEarlierCall'
  BY <1>3
  DEF MakeCanary, Goto, TypeOK, SealedByEarlierCall, Running, scanVars, gateVars
<1>4. ASSUME NEW p \in Pids, ListProcesses(p)
      PROVE  SealedByEarlierCall'
  BY <1>4
  DEF ListProcesses, Goto, TypeOK, SealedByEarlierCall, Running, canaryVars,
      gateVars
<1>5. ASSUME NEW p \in Pids, ListingFails(p)
      PROVE  SealedByEarlierCall'
  BY <1>5
  DEF ListingFails, Goto, FindPidReturns, TypeOK, SealedByEarlierCall, Running,
      canaryVars, gateVars
<1>6. ASSUME NEW p \in Pids, NEW j \in DOMAIN listing[p], Match(p, j)
      PROVE  SealedByEarlierCall'
  BY <1>6
  DEF Match, Goto, FindPidReturns, NextProcess, TypeOK, SealedByEarlierCall,
      Running, canaryVars, gateVars
<1>7. ASSUME NEW p \in Pids, NEW j \in DOMAIN listing[p], NoMatch(p, j)
      PROVE  SealedByEarlierCall'
  BY <1>7
  DEF NoMatch, NextProcess, Advance, TypeOK, SealedByEarlierCall, Running,
      canaryVars, gateVars
<1>8. ASSUME NEW p \in Pids, EndOfList(p)
      PROVE  SealedByEarlierCall'
  BY <1>8
  DEF EndOfList, Goto, FindPidReturns, TypeOK, SealedByEarlierCall, Running,
      canaryVars, gateVars
<1>9. ASSUME NEW p \in Pids, Unmap(p)
      PROVE  SealedByEarlierCall'
  BY <1>9
  DEF Unmap, Goto, UnmapView, TypeOK, SealedByEarlierCall, Running, scanVars,
      gateVars
<1>10. ASSUME NEW p \in Pids, Unlink(p)
      PROVE  SealedByEarlierCall'
  BY <1>10
  DEF Unlink, Goto, Fail, RemoveCanary, TypeOK, SealedByEarlierCall, Running,
      scanVars
<1>11. ASSUME NEW p \in Pids, FindLibc(p)
      PROVE  SealedByEarlierCall'
  BY <1>11
  DEF FindLibc, Goto, TypeOK, SealedByEarlierCall, Running, canaryVars, scanVars
<1>12. ASSUME NEW p \in Pids, FindLibcFails(p)
      PROVE  SealedByEarlierCall'
  BY <1>12
  DEF FindLibcFails, Goto, Fail, TypeOK, SealedByEarlierCall, Running, canaryVars,
      scanVars
<1>13. ASSUME NEW p \in Pids, HgSetupFaults(p)
      PROVE  SealedByEarlierCall'
  BY <1>13
  DEF HgSetupFaults, Goto, TypeOK, SealedByEarlierCall, Running, canaryVars,
      scanVars, gateVars
<1>14. ASSUME NEW p \in Pids, HgSetupFails(p)
      PROVE  SealedByEarlierCall'
  BY <1>14
  DEF HgSetupFails, Goto, Fail, Abort, TypeOK, SealedByEarlierCall, Running,
      canaryVars, scanVars
<1>15. ASSUME NEW p \in Pids, HgSetup(p)
      PROVE  SealedByEarlierCall'
  <2>1. inits[p] > 0
    BY <1>15 DEF HgSetup, SealedByEarlierCall, Running
  <2>2. QED
    BY <1>15, <2>1 DEF HgSetup, Goto, TypeOK, SealedByEarlierCall, Running
<1>16. ASSUME NEW p \in Pids, GetPid(p)
      PROVE  SealedByEarlierCall'
  BY <1>16
  DEF GetPid, Goto, Fail, PidConfirmed, TypeOK, SealedByEarlierCall, Running,
      canaryVars, scanVars
<1>17. ASSUME NEW p \in Pids, GetPidFaults(p)
      PROVE  SealedByEarlierCall'
  BY <1>17
  DEF GetPidFaults, Goto, TypeOK, SealedByEarlierCall, Running, canaryVars,
      scanVars, gateVars
<1>18. ASSUME NEW p \in Pids, Enosys(p)
      PROVE  SealedByEarlierCall'
  BY <1>18
  DEF Enosys, Goto, Fail, TypeOK, SealedByEarlierCall, Running, canaryVars, scanVars
<1>19. ASSUME NEW p \in Pids, Exit(p)
      PROVE  SealedByEarlierCall'
  BY <1>19
  DEF Exit, Goto, UnmapView, Alive, TypeOK, SealedByEarlierCall, Running, scanVars,
      gateVars
<1>20. ASSUME NEW p \in Pids, FindLibcFaults(p)
      PROVE  SealedByEarlierCall'
  BY <1>20
  DEF FindLibcFaults, Goto, TypeOK, SealedByEarlierCall, Running, canaryVars,
      scanVars, gateVars
<1>21. ASSUME NEW p \in Pids, NEW j \in DOMAIN listing[p], CannotOpen(p, j)
      PROVE  SealedByEarlierCall'
  BY <1>21, EntryAssumption
  DEF CannotOpen, NextProcess, Advance, TypeOK, SealedByEarlierCall, Running, canaryVars, gateVars
<1>22. QED
  BY <1>1, <1>2, <1>3, <1>4, <1>5, <1>6, <1>7, <1>8, <1>9, <1>10, <1>11, <1>12,
     <1>13, <1>14, <1>15, <1>16, <1>17, <1>18, <1>19, <1>20, <1>21,
     PidsAssumption
  DEF Next, Step

(* Both faults leave their cause behind.                                   *)
LEMMA CrashHasCauseStep ==
  ASSUME TypeOK, GateOfPid, SealedByEarlierCall, CrashHasCause, Next
  PROVE  CrashHasCause'
<1>1. ASSUME NEW p \in Pids, Start(p)
      PROVE  CrashHasCause'
  BY <1>1, EntryAssumption
  DEF Start, Goto, TypeOK, GateOfPid, SealedByEarlierCall, CrashHasCause, Running,
      canaryVars, scanVars, gateVars
<1>2. ASSUME NEW p \in Pids, NotSupported(p)
      PROVE  CrashHasCause'
  BY <1>2, EntryAssumption
  DEF NotSupported, Goto, Fail, TypeOK, GateOfPid, SealedByEarlierCall,
      CrashHasCause, Running, canaryVars, scanVars
<1>3. ASSUME NEW p \in Pids, MakeCanary(p)
      PROVE  CrashHasCause'
  BY <1>3, EntryAssumption
  DEF MakeCanary, Goto, TypeOK, GateOfPid, SealedByEarlierCall, CrashHasCause,
      Running, scanVars, gateVars
<1>4. ASSUME NEW p \in Pids, ListProcesses(p)
      PROVE  CrashHasCause'
  BY <1>4, EntryAssumption
  DEF ListProcesses, Goto, TypeOK, GateOfPid, SealedByEarlierCall, CrashHasCause,
      Running, canaryVars, gateVars
<1>5. ASSUME NEW p \in Pids, ListingFails(p)
      PROVE  CrashHasCause'
  BY <1>5, EntryAssumption
  DEF ListingFails, Goto, FindPidReturns, TypeOK, GateOfPid, SealedByEarlierCall,
      CrashHasCause, Running, canaryVars, gateVars
<1>6. ASSUME NEW p \in Pids, NEW j \in DOMAIN listing[p], Match(p, j)
      PROVE  CrashHasCause'
  BY <1>6, EntryAssumption
  DEF Match, Goto, FindPidReturns, NextProcess, TypeOK, GateOfPid,
      SealedByEarlierCall, CrashHasCause, Running, canaryVars, gateVars
<1>7. ASSUME NEW p \in Pids, NEW j \in DOMAIN listing[p], NoMatch(p, j)
      PROVE  CrashHasCause'
  BY <1>7, EntryAssumption
  DEF NoMatch, NextProcess, Advance, TypeOK, GateOfPid, SealedByEarlierCall,
      CrashHasCause, Running, canaryVars, gateVars
<1>8. ASSUME NEW p \in Pids, EndOfList(p)
      PROVE  CrashHasCause'
  BY <1>8, EntryAssumption
  DEF EndOfList, Goto, FindPidReturns, TypeOK, GateOfPid, SealedByEarlierCall,
      CrashHasCause, Running, canaryVars, gateVars
<1>9. ASSUME NEW p \in Pids, Unmap(p)
      PROVE  CrashHasCause'
  BY <1>9, EntryAssumption
  DEF Unmap, Goto, UnmapView, TypeOK, GateOfPid, SealedByEarlierCall,
      CrashHasCause, Running, scanVars, gateVars
<1>10. ASSUME NEW p \in Pids, Unlink(p)
      PROVE  CrashHasCause'
  BY <1>10, EntryAssumption
  DEF Unlink, Goto, Fail, RemoveCanary, TypeOK, GateOfPid, SealedByEarlierCall,
      CrashHasCause, Running, scanVars
<1>11. ASSUME NEW p \in Pids, FindLibc(p)
      PROVE  CrashHasCause'
  BY <1>11, EntryAssumption
  DEF FindLibc, Goto, TypeOK, GateOfPid, SealedByEarlierCall, CrashHasCause,
      Running, canaryVars, scanVars
<1>12. ASSUME NEW p \in Pids, FindLibcFails(p)
      PROVE  CrashHasCause'
  BY <1>12, EntryAssumption
  DEF FindLibcFails, Goto, Fail, TypeOK, GateOfPid, SealedByEarlierCall,
      CrashHasCause, Running, canaryVars, scanVars
<1>13. ASSUME NEW p \in Pids, HgSetupFaults(p)
      PROVE  CrashHasCause'
  BY <1>13, EntryAssumption
  DEF HgSetupFaults, Goto, TypeOK, GateOfPid, SealedByEarlierCall, CrashHasCause,
      Running, canaryVars, scanVars, gateVars
<1>14. ASSUME NEW p \in Pids, HgSetupFails(p)
      PROVE  CrashHasCause'
  BY <1>14, EntryAssumption
  DEF HgSetupFails, Goto, Fail, Abort, TypeOK, GateOfPid, SealedByEarlierCall,
      CrashHasCause, Running, canaryVars, scanVars
<1>15. ASSUME NEW p \in Pids, HgSetup(p)
      PROVE  CrashHasCause'
  BY <1>15, EntryAssumption
  DEF HgSetup, Goto, TypeOK, GateOfPid, SealedByEarlierCall, CrashHasCause,
      Running, canaryVars, scanVars
<1>16. ASSUME NEW p \in Pids, GetPid(p)
      PROVE  CrashHasCause'
  BY <1>16, EntryAssumption
  DEF GetPid, Goto, Fail, PidConfirmed, TypeOK, GateOfPid, SealedByEarlierCall,
      CrashHasCause, Running, canaryVars, scanVars
<1>17. ASSUME NEW p \in Pids, GetPidFaults(p)
      PROVE  CrashHasCause'
  <2>1. /\ pc[p] = "getpid" /\ pc' = [pc EXCEPT ![p] = "crashed"] /\ ~GateWorks(p)
        /\ UNCHANGED <<inits, pid, gate>>
    BY <1>17 DEF GetPidFaults, Goto, gateVars
  <2>2. gate[p] \in Gates /\ gate[p].of = pid[p]
    BY <2>1 DEF GateOfPid
  <2>3. pid[p] # p \/ gate[p].copy = "cut"
    BY <2>1, <2>2 DEF GateWorks, Gates
  <2>4. gate[p] # NULL
    BY <2>2, EntryAssumption
  <2>5. \A q \in Pids : q # p => pc'[q] = pc[q]
    BY <2>1 DEF TypeOK
  <2>6. QED
    BY <2>1, <2>3, <2>4, <2>5 DEF CrashHasCause
<1>18. ASSUME NEW p \in Pids, Enosys(p)
      PROVE  CrashHasCause'
  <2>1. EnosysEnds(p)
    BY <1>18, EnosysOutcome
  <2>2. QED
    <3>1. UNCHANGED <<inits, gate>>
      BY <2>1 DEF EnosysEnds
    <3>2. ASSUME NEW q \in Pids, pc'[q] = "crashed"
          PROVE  pc[q] = "crashed" /\ pid'[q] = pid[q]
      BY <2>1, <3>2 DEF EnosysEnds, TypeOK
    <3>3. QED
      BY <3>1, <3>2 DEF CrashHasCause
<1>19. ASSUME NEW p \in Pids, Exit(p)
      PROVE  CrashHasCause'
  BY <1>19, EntryAssumption
  DEF Exit, Goto, UnmapView, Alive, TypeOK, GateOfPid, SealedByEarlierCall,
      CrashHasCause, Running, scanVars, gateVars
<1>20. ASSUME NEW p \in Pids, FindLibcFaults(p)
      PROVE  CrashHasCause'
  BY <1>20, EntryAssumption
  DEF FindLibcFaults, Goto, TypeOK, GateOfPid, SealedByEarlierCall, CrashHasCause,
      Running, canaryVars, scanVars, gateVars
<1>21. ASSUME NEW p \in Pids, NEW j \in DOMAIN listing[p], CannotOpen(p, j)
      PROVE  CrashHasCause'
  BY <1>21, EntryAssumption
  DEF CannotOpen, NextProcess, Advance, TypeOK, CrashHasCause, canaryVars, gateVars
<1>22. QED
  BY <1>1, <1>2, <1>3, <1>4, <1>5, <1>6, <1>7, <1>8, <1>9, <1>10, <1>11, <1>12,
     <1>13, <1>14, <1>15, <1>16, <1>17, <1>18, <1>19, <1>20, <1>21,
     PidsAssumption
  DEF Next, Step

(* Unlink removes the name, whoever else still uses the file.              *)
LEMMA CanaryLeftNeedsExitStep ==
  ASSUME TypeOK, CanaryLeftNeedsExit, Next
  PROVE  CanaryLeftNeedsExit'
<1>1. ASSUME NEW p \in Pids, Start(p)
      PROVE  CanaryLeftNeedsExit'
  BY <1>1
  DEF Start, Goto, TypeOK, CanaryLeftNeedsExit, canaryVars, scanVars, gateVars
<1>2. ASSUME NEW p \in Pids, NotSupported(p)
      PROVE  CanaryLeftNeedsExit'
  BY <1>2
  DEF NotSupported, Goto, Fail, TypeOK, CanaryLeftNeedsExit, canaryVars, scanVars
<1>3. ASSUME NEW p \in Pids, MakeCanary(p)
      PROVE  CanaryLeftNeedsExit'
  <2>1. files' \subseteq files \cup {WinPid[p]} /\ pc' = [pc EXCEPT ![p] = "list"]
    BY <1>3 DEF MakeCanary, Goto
  <2>2. pc[p] = "canary"
    BY <1>3 DEF MakeCanary
  <2>3. ASSUME NEW w \in files'
        PROVE  \E q \in Pids :
                 WinPid[q] = w /\ pc'[q] \in {"list", "scan", "unmap", "unlink", "exited"}
    <3>1. CASE w = WinPid[p]
      BY <2>1, <3>1 DEF TypeOK
    <3>2. CASE w # WinPid[p]
      <4>1. PICK q \in Pids :
              WinPid[q] = w /\ pc[q] \in {"list", "scan", "unmap", "unlink", "exited"}
        BY <2>1, <2>3, <3>2 DEF CanaryLeftNeedsExit
      <4>2. QED
        BY <2>1, <2>2, <4>1 DEF TypeOK
    <3>3. QED
      BY <3>1, <3>2
  <2>4. QED
    BY <2>3 DEF CanaryLeftNeedsExit
<1>4. ASSUME NEW p \in Pids, ListProcesses(p)
      PROVE  CanaryLeftNeedsExit'
  BY <1>4
  DEF ListProcesses, Goto, TypeOK, CanaryLeftNeedsExit, canaryVars, gateVars
<1>5. ASSUME NEW p \in Pids, ListingFails(p)
      PROVE  CanaryLeftNeedsExit'
  BY <1>5
  DEF ListingFails, Goto, FindPidReturns, TypeOK, CanaryLeftNeedsExit, canaryVars,
      gateVars
<1>6. ASSUME NEW p \in Pids, NEW j \in DOMAIN listing[p], Match(p, j)
      PROVE  CanaryLeftNeedsExit'
  BY <1>6
  DEF Match, Goto, FindPidReturns, NextProcess, TypeOK, CanaryLeftNeedsExit,
      canaryVars, gateVars
<1>7. ASSUME NEW p \in Pids, NEW j \in DOMAIN listing[p], NoMatch(p, j)
      PROVE  CanaryLeftNeedsExit'
  BY <1>7
  DEF NoMatch, NextProcess, Advance, TypeOK, CanaryLeftNeedsExit, canaryVars,
      gateVars
<1>8. ASSUME NEW p \in Pids, EndOfList(p)
      PROVE  CanaryLeftNeedsExit'
  BY <1>8
  DEF EndOfList, Goto, FindPidReturns, TypeOK, CanaryLeftNeedsExit, canaryVars,
      gateVars
<1>9. ASSUME NEW p \in Pids, Unmap(p)
      PROVE  CanaryLeftNeedsExit'
  BY <1>9
  DEF Unmap, Goto, UnmapView, TypeOK, CanaryLeftNeedsExit, scanVars, gateVars
<1>10. ASSUME NEW p \in Pids, Unlink(p)
      PROVE  CanaryLeftNeedsExit'
  <2>1. ASSUME NEW w \in files'
        PROVE  \E q \in Pids :
                 WinPid[q] = w /\ pc'[q] \in {"list", "scan", "unmap", "unlink", "exited"}
    <3>1. w \in files /\ w # WinPid[p] /\ \A q \in Pids : q # p => pc'[q] = pc[q]
      <4>1. UnlinkEnds(p)
        BY <1>10, UnlinkOutcome
      <4>2. QED
        BY <2>1, <4>1 DEF UnlinkEnds, scanVars, TypeOK
    <3>2. PICK q \in Pids :
            WinPid[q] = w /\ pc[q] \in {"list", "scan", "unmap", "unlink", "exited"}
      BY <3>1 DEF CanaryLeftNeedsExit
    <3>3. q # p
      BY <3>1, <3>2
    <3>4. pc'[q] = pc[q]
      BY <3>1, <3>3
    <3>5. QED
      BY <3>2, <3>4
  <2>2. QED
    BY <2>1 DEF CanaryLeftNeedsExit
<1>11. ASSUME NEW p \in Pids, FindLibc(p)
      PROVE  CanaryLeftNeedsExit'
  BY <1>11
  DEF FindLibc, Goto, TypeOK, CanaryLeftNeedsExit, canaryVars, scanVars
<1>12. ASSUME NEW p \in Pids, FindLibcFails(p)
      PROVE  CanaryLeftNeedsExit'
  BY <1>12
  DEF FindLibcFails, Goto, Fail, TypeOK, CanaryLeftNeedsExit, canaryVars, scanVars
<1>13. ASSUME NEW p \in Pids, HgSetupFaults(p)
      PROVE  CanaryLeftNeedsExit'
  BY <1>13
  DEF HgSetupFaults, Goto, TypeOK, CanaryLeftNeedsExit, canaryVars, scanVars,
      gateVars
<1>14. ASSUME NEW p \in Pids, HgSetupFails(p)
      PROVE  CanaryLeftNeedsExit'
  BY <1>14
  DEF HgSetupFails, Goto, Fail, Abort, TypeOK, CanaryLeftNeedsExit, canaryVars,
      scanVars
<1>15. ASSUME NEW p \in Pids, HgSetup(p)
      PROVE  CanaryLeftNeedsExit'
  <2>1. pc[p] = "setup" /\ pc' = [pc EXCEPT ![p] = "getpid"] /\ files' = files
    BY <1>15 DEF HgSetup, Goto, canaryVars
  <2>2. \A q \in Pids : pc[q] \in {"list", "scan", "unmap", "unlink", "exited"} => pc'[q] = pc[q]
    BY <2>1 DEF TypeOK
  <2>3. QED
    BY <2>1, <2>2, Zenon DEF CanaryLeftNeedsExit
<1>16. ASSUME NEW p \in Pids, GetPid(p)
      PROVE  CanaryLeftNeedsExit'
  <2>1. GetPidEnds(p)
    BY <1>16, GetPidOutcome
  <2>2. \A q \in Pids : pc[q] \in {"list", "scan", "unmap", "unlink", "exited"} => pc'[q] = pc[q]
    BY <2>1 DEF GetPidEnds, scanVars, TypeOK
  <2>3. QED
    BY <2>1, <2>2, Zenon DEF GetPidEnds, CanaryLeftNeedsExit
<1>17. ASSUME NEW p \in Pids, GetPidFaults(p)
      PROVE  CanaryLeftNeedsExit'
  BY <1>17
  DEF GetPidFaults, Goto, TypeOK, CanaryLeftNeedsExit, canaryVars, scanVars,
      gateVars
<1>18. ASSUME NEW p \in Pids, Enosys(p)
      PROVE  CanaryLeftNeedsExit'
  <2>1. EnosysEnds(p)
    BY <1>18, EnosysOutcome
  <2>2. \A q \in Pids : pc[q] \in {"list", "scan", "unmap", "unlink", "exited"} => pc'[q] = pc[q]
    BY <2>1 DEF EnosysEnds, scanVars, TypeOK
  <2>3. QED
    BY <2>1, <2>2, Zenon DEF EnosysEnds, CanaryLeftNeedsExit
<1>19. ASSUME NEW p \in Pids, Exit(p)
      PROVE  CanaryLeftNeedsExit'
  BY <1>19
  DEF Exit, Goto, UnmapView, Alive, TypeOK, CanaryLeftNeedsExit, scanVars, gateVars
<1>20. ASSUME NEW p \in Pids, FindLibcFaults(p)
      PROVE  CanaryLeftNeedsExit'
  BY <1>20
  DEF FindLibcFaults, Goto, TypeOK, CanaryLeftNeedsExit, canaryVars, scanVars,
      gateVars
<1>21. ASSUME NEW p \in Pids, NEW j \in DOMAIN listing[p], CannotOpen(p, j)
      PROVE  CanaryLeftNeedsExit'
  BY <1>21, EntryAssumption
  DEF CannotOpen, NextProcess, Advance, TypeOK, CanaryLeftNeedsExit, canaryVars, gateVars
<1>22. QED
  BY <1>1, <1>2, <1>3, <1>4, <1>5, <1>6, <1>7, <1>8, <1>9, <1>10, <1>11, <1>12,
     <1>13, <1>14, <1>15, <1>16, <1>17, <1>18, <1>19, <1>20, <1>21,
     PidsAssumption
  DEF Next, Step

(* Whose canary find_pid can find.                                         *)
LEMMA CanaryOfCaller ==
  ASSUME TypeOK, SealedByEarlierCall, NEW p \in Pids, NEW q \in Pids, ShowsCanary(q, p)
  PROVE  inits[q] > 0 /\ WinPid[q] >= WinPid[p]
<1>1. inits[q] > 0
  BY DEF ShowsCanary, TypeOK, SealedByEarlierCall, Running
<1>2. WinPid[q] \in Nat /\ WinPid[p] \in Nat
  BY WinPidAssumption
<1>3. CanaryWithin(WinPid[q], WinPid[p])
  BY DEF ShowsCanary
<1>4. QED
  BY <1>1, <1>2, <1>3 DEF CanaryWithin, PowersOf10

(* Only a match sets what find_pid returns to a process, and no call is    *)
(* ever taken back.                                                        *)
PidsKept ==
  /\ \A p \in Pids : inits[p] > 0 => inits'[p] > 0
  /\ \A p \in Pids : pid'[p] = pid[p] \/ pid'[p] = NULL

LEMMA MatchTaken ==
  ASSUME TypeOK, SealedByEarlierCall, MistakenIdentity,
         NEW p \in Pids, NEW j \in DOMAIN listing[p], Match(p, j)
  PROVE  MistakenIdentity'
<1>1. listing[p][j] \in Pids
  BY ElementOfSeq DEF Match, NextProcess, TypeOK
<1>2. pid' = [pid EXCEPT ![p] = listing[p][j]] /\ UNCHANGED inits
  BY DEF Match, FindPidReturns
<1>3. inits[listing[p][j]] > 0 /\ WinPid[listing[p][j]] >= WinPid[p]
  BY <1>1, CanaryOfCaller DEF Match
<1>4. QED
  BY <1>1, <1>2, <1>3 DEF MistakenIdentity, TypeOK

LEMMA MistakenIdentityKept ==
  ASSUME TypeOK, MistakenIdentity, PidsKept
  PROVE  MistakenIdentity'
<1> SUFFICES ASSUME NEW p \in Pids, pid'[p] # NULL
             PROVE  inits'[pid'[p]] > 0 /\ WinPid[pid'[p]] >= WinPid[p]
  BY DEF MistakenIdentity
<1>1. pid'[p] = pid[p] /\ pid[p] # NULL
  BY DEF PidsKept
<1>2. PICK q \in Pids : q = pid[p]
  BY <1>1 DEF TypeOK
<1>3. inits[q] > 0 /\ WinPid[q] >= WinPid[p]
  BY <1>1, <1>2 DEF MistakenIdentity
<1>4. QED
  BY <1>1, <1>2, <1>3 DEF PidsKept

LEMMA MistakenIdentityStep ==
  ASSUME TypeOK, SealedByEarlierCall, MistakenIdentity, Next
  PROVE  MistakenIdentity'
<1> USE DEF PidsKept, TypeOK
<1>1. ASSUME NEW p \in Pids, Start(p)
      PROVE  PidsKept
  BY <1>1 DEF Start
<1>2. ASSUME NEW p \in Pids, NotSupported(p)
      PROVE  PidsKept
  BY <1>2 DEF NotSupported, Fail
<1>3. ASSUME NEW p \in Pids, MakeCanary(p)
      PROVE  PidsKept
  BY <1>3 DEF MakeCanary
<1>4. ASSUME NEW p \in Pids, ListProcesses(p)
      PROVE  PidsKept
  BY <1>4 DEF ListProcesses
<1>5. ASSUME NEW p \in Pids, ListingFails(p)
      PROVE  PidsKept
  BY <1>5 DEF ListingFails, FindPidReturns
<1>6. ASSUME NEW p \in Pids, NEW j \in DOMAIN listing[p], Match(p, j)
      PROVE  MistakenIdentity'
  BY <1>6, MatchTaken
<1>7. ASSUME NEW p \in Pids, NEW j \in DOMAIN listing[p], NoMatch(p, j)
      PROVE  PidsKept
  BY <1>7 DEF NoMatch
<1>8. ASSUME NEW p \in Pids, EndOfList(p)
      PROVE  PidsKept
  BY <1>8 DEF EndOfList, FindPidReturns
<1>9. ASSUME NEW p \in Pids, Unmap(p)
      PROVE  PidsKept
  BY <1>9 DEF Unmap
<1>10. ASSUME NEW p \in Pids, Unlink(p)
      PROVE  PidsKept
  <2>1. UnlinkEnds(p)
    BY <1>10, UnlinkOutcome
  <2>2. QED
    BY <2>1 DEF UnlinkEnds
<1>11. ASSUME NEW p \in Pids, FindLibc(p)
      PROVE  PidsKept
  BY <1>11 DEF FindLibc
<1>12. ASSUME NEW p \in Pids, FindLibcFaults(p)
      PROVE  PidsKept
  BY <1>12 DEF FindLibcFaults
<1>13. ASSUME NEW p \in Pids, FindLibcFails(p)
      PROVE  PidsKept
  BY <1>13 DEF FindLibcFails, Fail
<1>14. ASSUME NEW p \in Pids, HgSetupFaults(p)
      PROVE  PidsKept
  BY <1>14 DEF HgSetupFaults
<1>15. ASSUME NEW p \in Pids, HgSetupFails(p)
      PROVE  PidsKept
  BY <1>15 DEF HgSetupFails, Fail
<1>16. ASSUME NEW p \in Pids, HgSetup(p)
      PROVE  PidsKept
  BY <1>16 DEF HgSetup
<1>17. ASSUME NEW p \in Pids, GetPid(p)
      PROVE  PidsKept
  <2>1. GetPidEnds(p)
    BY <1>17, GetPidOutcome
  <2>2. QED
    BY <2>1 DEF GetPidEnds
<1>18. ASSUME NEW p \in Pids, GetPidFaults(p)
      PROVE  PidsKept
  BY <1>18 DEF GetPidFaults
<1>19. ASSUME NEW p \in Pids, Enosys(p)
      PROVE  PidsKept
  <2>1. EnosysEnds(p)
    BY <1>19, EnosysOutcome
  <2>2. QED
    BY <2>1 DEF EnosysEnds
<1>20. ASSUME NEW p \in Pids, Exit(p)
      PROVE  PidsKept
  BY <1>20 DEF Exit
<1>21. ASSUME NEW p \in Pids, NEW j \in DOMAIN listing[p], CannotOpen(p, j)
      PROVE  PidsKept
  BY <1>21 DEF CannotOpen
<1>22. QED
  BY <1>1, <1>2, <1>3, <1>4, <1>5, <1>6, <1>7, <1>8, <1>9, <1>10, <1>11,
     <1>12, <1>13, <1>14, <1>15, <1>16, <1>17, <1>18, <1>19, <1>20, <1>21,
     MistakenIdentityKept, PidsAssumption
  DEF Next, Step

(* Nothing depends on anything but the variables.                          *)
LEMMA Stutters == Inv /\ UNCHANGED vars => Inv'
<1> SUFFICES ASSUME Inv, UNCHANGED vars
             PROVE  Inv'
  OBVIOUS
<1>1. UNCHANGED <<pc, inits, mapped, files, listing, at, unread, pid, libc, gate, sealed,
                  probe>>
  BY DEF vars, scanVars, gateVars
<1>2. CrashHasCause'
  BY <1>1, Zenon DEF Inv, CrashHasCause, MisreadsCode
<1>3. TypeOK'
  BY <1>1 DEF Inv, TypeOK
<1>4. OwnEntryAhead' /\ CanaryLeftNeedsExit' /\ MistakenIdentity'
  BY <1>1 DEF Inv, OwnEntryAhead, CanaryLeftNeedsExit, MistakenIdentity
<1>5. GateOfPid' /\ SealedByEarlierCall'
  BY <1>1 DEF Inv, GateOfPid, SealedByEarlierCall, Running
<1>6. QED
  BY <1>2, <1>3, <1>4, <1>5 DEF Inv

(* Inv is an inductive invariant of the specification.                     *)
THEOREM InvariantHolds == Spec => []Inv
<1>1. Inv /\ Next => Inv'
  BY TypeOKStep, OwnEntryAheadStep, GateOfPidStep, SealedByEarlierCallStep,
     CrashHasCauseStep, CanaryLeftNeedsExitStep, MistakenIdentityStep DEF Inv
<1>2. Inv /\ [Next]_vars => Inv'
  BY <1>1, Stutters
<1>3. QED
  BY <1>2, InitInv, PTL DEF Spec

(* Every variable of wine_portal_init keeps its type, a canary is mapped   *)
(* only while find_pid may look for it, and code_buffer is write-protected *)
(* exactly when heavensGate points into it.                                *)
THEOREM BootstrapTypes == Spec => []TypeOK
<1>1. Inv => TypeOK
  BY DEF Inv
<1>2. QED
  BY <1>1, InvariantHolds, PTL

(* wine_portal_init succeeds only with the caller's own pid and a gate     *)
(* into the caller's own libc, whatever find_pid was led to believe.       *)
THEOREM SuccessOnlyAsOneself == Spec => []SuccessIsOwnProcess
<1>1. Inv => SuccessIsOwnProcess
  BY DEF Inv, GateOfPid, SuccessIsOwnProcess
<1>2. QED
  BY <1>1, InvariantHolds, PTL

(* A crash inside wine_portal_init has one of four causes: the process was *)
(* taken for another, had been through hg_setup before, has errno code     *)
(* that find_libc misreads, or a trampoline that hg_setup copied in part.  *)
THEOREM CrashesExplained == Spec => []CrashHasCause
<1>1. Inv => CrashHasCause
  BY DEF Inv
<1>2. QED
  BY <1>1, InvariantHolds, PTL

(* Only a process that ended in between leaves its canary in /tmp.         *)
THEOREM CanariesRemoved == Spec => []CanaryLeftNeedsExit
<1>1. Inv => CanaryLeftNeedsExit
  BY DEF Inv
<1>2. QED
  BY <1>1, InvariantHolds, PTL

(* find_pid takes for the caller only a process that has called            *)
(* wine_portal_init itself, and none with a smaller Windows pid.           *)
THEOREM MistakesExplained == Spec => []MistakenIdentity
<1>1. Inv => MistakenIdentity
  BY DEF Inv
<1>2. QED
  BY <1>1, InvariantHolds, PTL

(* find_pid never comes back empty-handed to a process whose canary is     *)
(* mapped and whose maps it could open, in whatever order /proc lists the  *)
(* processes.                                                              *)
THEOREM ScanFindsOneself == Spec => OwnPidNotMissed
<1> DEFINE Found == \A p \in Pids :
                      /\ pc[p] = "scan" /\ pc'[p] = "unmap"
                      /\ mapped[p] /\ ~unread[p]
                      => pid'[p] # NULL
<1>1. ASSUME Inv, Next
      PROVE  Found
  <2> SUFFICES ASSUME NEW p \in Pids, pc[p] = "scan", pc'[p] = "unmap", mapped[p],
                      ~unread[p]
               PROVE  pid'[p] # NULL
    OBVIOUS
  <2> TypeOK /\ OwnEntryAhead
    BY <1>1 DEF Inv
  <2>1. ASSUME NEW q \in Pids, Start(q)
        PROVE  pid'[p] # NULL
    BY <2>1 DEF Start, Goto, TypeOK
  <2>2. ASSUME NEW q \in Pids, NotSupported(q)
        PROVE  pid'[p] # NULL
    BY <2>2 DEF NotSupported, Goto, Fail, TypeOK
  <2>3. ASSUME NEW q \in Pids, MakeCanary(q)
        PROVE  pid'[p] # NULL
    BY <2>3 DEF MakeCanary, Goto, TypeOK
  <2>4. ASSUME NEW q \in Pids, ListProcesses(q)
        PROVE  pid'[p] # NULL
    BY <2>4 DEF ListProcesses, Goto, TypeOK
  <2>5. ASSUME NEW q \in Pids, ListingFails(q)
        PROVE  pid'[p] # NULL
    BY <2>5 DEF ListingFails, Goto, FindPidReturns, TypeOK
  <2>6. ASSUME NEW q \in Pids, NEW j \in DOMAIN listing[q], Match(q, j)
        PROVE  pid'[p] # NULL
    <3>1. CASE q = p
      <4>1. pid'[p] = listing[p][j] /\ listing[p][j] # NoProcess
        BY <2>6, <3>1 DEF Match, FindPidReturns, NextProcess, TypeOK
      <4>2. listing[p][j] \in Pids \cup {NoProcess}
        BY <2>6, <3>1, ElementOfSeq DEF TypeOK
      <4>3. QED
        BY <4>1, <4>2, EntryAssumption
    <3>2. CASE q # p
      BY <2>6, <3>2 DEF Match, FindPidReturns, Goto, TypeOK
    <3>3. QED
      BY <3>1, <3>2
  <2>7. ASSUME NEW q \in Pids, NEW j \in DOMAIN listing[q], NoMatch(q, j)
        PROVE  pid'[p] # NULL
    BY <2>7 DEF NoMatch
  <2>8. ASSUME NEW q \in Pids, EndOfList(q)
        PROVE  pid'[p] # NULL
    <3>1. CASE q = p
      <4>1. PICK k \in at[p] .. Len(listing[p]) : listing[p][k] = p
        BY DEF OwnEntryAhead
      <4>2. listing[p][k] = NoProcess
        BY <2>8, <3>1, <4>1 DEF EndOfList
      <4>3. QED
        BY <4>1, <4>2, EntryAssumption
    <3>2. CASE q # p
      BY <2>8, <3>2 DEF EndOfList, FindPidReturns, Goto, TypeOK
    <3>3. QED
      BY <3>1, <3>2
  <2>9. ASSUME NEW q \in Pids, Unmap(q)
        PROVE  pid'[p] # NULL
    BY <2>9 DEF Unmap, Goto, UnmapView, TypeOK
  <2>10. ASSUME NEW q \in Pids, Unlink(q)
        PROVE  pid'[p] # NULL
    <3>1. UnlinkEnds(q)
      BY <2>10, UnlinkOutcome
    <3>2. QED
      BY <3>1 DEF UnlinkEnds, scanVars, TypeOK
  <2>11. ASSUME NEW q \in Pids, FindLibc(q)
        PROVE  pid'[p] # NULL
    BY <2>11 DEF FindLibc, Goto, TypeOK
  <2>12. ASSUME NEW q \in Pids, FindLibcFails(q)
        PROVE  pid'[p] # NULL
    BY <2>12 DEF FindLibcFails, Goto, Fail, TypeOK
  <2>13. ASSUME NEW q \in Pids, HgSetupFaults(q)
        PROVE  pid'[p] # NULL
    BY <2>13 DEF HgSetupFaults, Goto, TypeOK
  <2>14. ASSUME NEW q \in Pids, HgSetupFails(q)
        PROVE  pid'[p] # NULL
    BY <2>14 DEF HgSetupFails, Goto, Fail, Abort, TypeOK
  <2>15. ASSUME NEW q \in Pids, HgSetup(q)
        PROVE  pid'[p] # NULL
    BY <2>15 DEF HgSetup, Goto, TypeOK
  <2>16. ASSUME NEW q \in Pids, GetPid(q)
        PROVE  pid'[p] # NULL
    <3>1. GetPidEnds(q)
      BY <2>16, GetPidOutcome
    <3>2. QED
      BY <3>1 DEF GetPidEnds, scanVars, TypeOK
  <2>17. ASSUME NEW q \in Pids, GetPidFaults(q)
        PROVE  pid'[p] # NULL
    BY <2>17 DEF GetPidFaults, Goto, TypeOK
  <2>18. ASSUME NEW q \in Pids, Enosys(q)
        PROVE  pid'[p] # NULL
    <3>1. EnosysEnds(q)
      BY <2>18, EnosysOutcome
    <3>2. QED
      BY <3>1 DEF EnosysEnds, scanVars, TypeOK
  <2>19. ASSUME NEW q \in Pids, Exit(q)
        PROVE  pid'[p] # NULL
    BY <2>19 DEF Exit, Goto, UnmapView, Alive, TypeOK
  <2>20. ASSUME NEW q \in Pids, FindLibcFaults(q)
        PROVE  pid'[p] # NULL
    BY <2>20 DEF FindLibcFaults, Goto, TypeOK
  <2>21. ASSUME NEW q \in Pids, NEW j \in DOMAIN listing[q], CannotOpen(q, j)
        PROVE  pid'[p] # NULL
    BY <2>21 DEF CannotOpen
  <2>22. QED
    BY <1>1, <2>1, <2>2, <2>3, <2>4, <2>5, <2>6, <2>7, <2>8, <2>9, <2>10, <2>11,
       <2>12, <2>13, <2>14, <2>15, <2>16, <2>17, <2>18, <2>19, <2>20, <2>21,
       PidsAssumption
    DEF Next, Step
<1>2. ASSUME UNCHANGED vars
      PROVE  Found
  BY <1>2 DEF vars
<1>3. Inv /\ [Next]_vars => [Found]_vars
  BY <1>1, <1>2
<1>4. QED
  BY <1>3, InvariantHolds, PTL DEF Spec, OwnPidNotMissed

=============================================================================
