---------------------------- MODULE VmPoolProofs ----------------------------
(***************************************************************************)
(* Theorems about VmPool for any number of projects, threads, networks and *)
(* cids, and any environment Events.                                       *)
(***************************************************************************)
EXTENDS VmPool, FiniteSetTheorems, TLAPS

\* The provers for the steps that name none, and the seconds they have.
USE SMTT(30), ZenonT(60)

\* The thread is between inserting its placeholder and handing over (or
\* failing to obtain) the processes of its cid.
Boots(c) == pc[c] \in {"boot", "launched"}

\* A thread in session knows its project and its cid.
SessionOK ==
    \A c \in Conns : InSession(c) =>
        /\ session[c].project \in Projects
        /\ session[c].cid \in Cids
        /\ session[c].cid < next_cid

\* A missing entry owns nothing; a present one has a cid that was allocated.
EntryOK ==
    \A p \in Projects :
        /\ vms[p].process < next_cid
        /\ ~Present(p) => vms[p].process = NoCid /\ vms[p].cid = NoCid
        /\ Present(p) => vms[p].cid \in Cids /\ vms[p].cid < next_cid

\* Processes waiting to be killed were allocated too.
DropOK ==
    /\ \A c \in Conns : \A k \in dropping[c] : k < next_cid
    /\ \A k \in reaping : k < next_cid
    /\ \A c \in Conns : pc[c] \in {"idle", "boot", "launched", "failed", "held"}
                            => dropping[c] = {}

\* Distinct entries have distinct cids.
EntryCids ==
    \A p, q \in Projects : Present(p) /\ vms[p].cid = vms[q].cid => p = q

\* No two owners of one cid, kind by kind.
BootUnique ==
    /\ \A c, d \in Conns :
         Boots(c) /\ Boots(d) /\ session[c].cid = session[d].cid => c = d
    /\ \A c \in Conns : Boots(c) =>
         /\ \A p \in Projects : vms[p].process # session[c].cid
         /\ \A d \in Conns : session[c].cid \notin dropping[d]
         /\ session[c].cid \notin reaping

EntryUnique ==
    \A p \in Projects : vms[p].process # NoCid =>
        /\ \A q \in Projects : vms[q].process = vms[p].process => p = q
        /\ \A c \in Conns : vms[p].process \notin dropping[c]
        /\ vms[p].process \notin reaping

DropUnique ==
    \A c \in Conns : \A k \in dropping[c] :
        /\ \A d \in Conns : k \in dropping[d] => c = d
        /\ k \notin reaping

\* A running VM was launched, and somebody has it since.
AliveOwned ==
    \A k \in alive :
        \/ \E c \in Conns : pc[c] = "launched" /\ session[c].cid = k
        \/ \E p \in Projects : vms[p].process = k
        \/ \E c \in Conns : k \in dropping[c]
        \/ k \in reaping

IInv ==
    /\ TypeOK /\ SessionOK /\ EntryOK /\ DropOK /\ EntryCids
    /\ BootUnique /\ EntryUnique /\ DropUnique /\ AliveOwned

-----------------------------------------------------------------------------

\* A cid that is handed out is the old counter, which no wrap-around reaches.
LEMMA AllocateCid ==
    ASSUME next_cid \in Cids, allocate_cid
    PROVE  /\ next_cid' = next_cid + 1
           /\ next_cid' \in Cids
           /\ next_cid < next_cid'
           /\ \A k \in Nat : k < next_cid => k < next_cid'
<1>1. next_cid + 1 < U32 /\ next_cid \in Nat /\ U32 \in Nat
    BY CidAssumption DEF Cids, allocate_cid
<1>2. (next_cid + 1) % U32 = next_cid + 1
    BY <1>1
<1> QED  BY <1>1, <1>2, CidAssumption DEF Cids, allocate_cid

\* The assignments the pool makes to the fields of an entry are well typed and
\* touch no other field: counting a session,
LEMMA CountUpdate ==
    ASSUME NEW e \in VmEntry, NEW n \in Nat, NEW a \in {"fresh", "expired"}
    PROVE  LET f == [e EXCEPT !.active_sessions = n, !.age = a] IN
           /\ f \in VmEntry
           /\ f.process = e.process /\ f.cid = e.cid /\ f.state = e.state
BY Zenon DEF VmEntry

\* the passing of time,
LEMMA AgeUpdate ==
    ASSUME NEW e \in VmEntry, NEW a \in {"fresh", "expired"}
    PROVE  [e EXCEPT !.age = a] \in VmEntry
BY DEF VmEntry

\* and taking over a process.
LEMMA ProcessUpdate ==
    ASSUME NEW e \in VmEntry, NEW k \in Cids \union {NoCid}
    PROVE  [e EXCEPT !.state = "Running", !.process = k] \in VmEntry
BY Zenon DEF VmEntry

\* Nothing exists when the daemon starts.
LEMMA InitIInv == Init => IInv
<1> SUFFICES ASSUME Init PROVE IInv
    OBVIOUS
<1>1. TypeOK
    BY CidAssumption DEF Init, TypeOK, VmEntry, Absent, NoSession, Cids
<1>2. SessionOK /\ EntryOK /\ DropOK /\ EntryCids
    BY CidAssumption DEF Init, SessionOK, EntryOK, DropOK, EntryCids, InSession,
       Present, Absent, NoCid
<1>3. BootUnique /\ EntryUnique /\ DropUnique /\ AliveOwned
    BY DEF Init, BootUnique, EntryUnique, DropUnique, AliveOwned, Boots, Absent
<1> QED  BY <1>1, <1>2, <1>3 DEF IInv

\* One step of any thread changes no owner of a process: entries keep their
\* processes, no thread starts or ends a boot, nothing is taken out.
OwnersUnchanged ==
    /\ \A p \in Projects : vms'[p].process = vms[p].process
    /\ dropping' = dropping /\ reaping' = reaping
    /\ alive' \subseteq alive
    /\ \A c \in Conns :
         /\ Boots(c)' => Boots(c) /\ session'[c].cid = session[c].cid
         /\ pc[c] = "launched" =>
              pc'[c] = "launched" /\ session'[c].cid = session[c].cid

\* Such a step keeps the clauses about ownership.
LEMMA OwnersFrame ==
    ASSUME BootUnique, EntryUnique, DropUnique, AliveOwned, OwnersUnchanged
    PROVE  (BootUnique /\ EntryUnique /\ DropUnique /\ AliveOwned)'
<1>1. BootUnique'
    BY DEF BootUnique, OwnersUnchanged
<1>2. EntryUnique' /\ DropUnique'
    BY DEF EntryUnique, DropUnique, OwnersUnchanged
<1>3. AliveOwned'
    BY DEF AliveOwned, OwnersUnchanged
<1> QED  BY <1>1, <1>2, <1>3

\* Every step of every thread keeps the invariant.
LEMMA NextIInv == IInv /\ [Next]_vars => IInv'
<1> SUFFICES ASSUME IInv, [Next]_vars PROVE IInv'
    OBVIOUS
<1> USE DEF IInv
<1>1. ASSUME NEW c \in Conns, NEW p \in Projects, NEW n \in Networks, EnsureReuse(c, p, n)
      PROVE  IInv'
  <2>1. TypeOK'
    <3>1. vms[p] \in VmEntry /\ vms[p].active_sessions + 1 \in Nat
      BY DEF TypeOK, VmEntry
    <3>2. [vms[p] EXCEPT !.active_sessions = vms[p].active_sessions + 1,
                         !.age = "fresh"] \in VmEntry
      BY <3>1, CountUpdate, Zenon
    <3>4. vms' \in [Projects -> VmEntry]
      BY <1>1, <3>2 DEF EnsureReuse, TypeOK
    <3>3. session'[c] \in [project : Projects \union {None}, cid : Cids \union {NoCid}]
      BY <1>1 DEF EnsureReuse, BeginSession, TypeOK, VmEntry
    <3> QED  BY <1>1, <3>3, <3>4 DEF EnsureReuse, TypeOK, Goto, BeginSession
  <2>2. (SessionOK /\ EntryOK /\ DropOK /\ EntryCids)'
    BY <1>1, CidAssumption DEF EnsureReuse, TypeOK, Goto, BeginSession, SessionOK,
       EntryOK, DropOK, EntryCids, InSession, Present
  <2>3. OwnersUnchanged
    BY <1>1 DEF EnsureReuse, Goto, BeginSession, Boots, OwnersUnchanged
  <2> QED  BY <2>1, <2>2, <2>3, OwnersFrame
<1>2. ASSUME NEW c \in Conns, NEW p \in Projects, NEW n \in Networks, EnsureConflict(c, p, n)
      PROVE  IInv'
  <2>1. TypeOK'
    BY <1>2, CidAssumption DEF EnsureConflict, TypeOK, Goto
  <2>2. (SessionOK /\ EntryOK /\ DropOK /\ EntryCids)'
    BY <1>2, CidAssumption DEF EnsureConflict, Goto, SessionOK, EntryOK, DropOK,
       EntryCids, InSession, Present
  <2>3. OwnersUnchanged
    BY <1>2 DEF EnsureConflict, Goto, Boots, OwnersUnchanged
  <2> QED  BY <2>1, <2>2, <2>3, OwnersFrame
<1>3. ASSUME NEW c \in Conns, NEW p \in Projects, EnsureExhausted(c, p)
      PROVE  IInv'
  <2>1. TypeOK'
    BY <1>3, AllocateCid, CidAssumption DEF EnsureExhausted, TypeOK, Goto
  <2>2. (SessionOK /\ EntryOK /\ DropOK /\ EntryCids)'
    BY <1>3, AllocateCid, CidAssumption DEF EnsureExhausted, TypeOK, Goto, NoCid,
       VmEntry, SessionOK, EntryOK, DropOK, EntryCids, InSession, Present, Cids
  <2>3. OwnersUnchanged
    BY <1>3 DEF EnsureExhausted, Goto, Boots, OwnersUnchanged
  <2> QED  BY <2>1, <2>2, <2>3, OwnersFrame
<1>4. ASSUME NEW c \in Conns, NEW p \in Projects, NEW n \in Networks, EnsureInsert(c, p, n)
      PROVE  IInv'
  <2>1. TypeOK'
    BY <1>4, AllocateCid, CidAssumption DEF EnsureInsert, TypeOK, Goto, BeginSession,
       VmEntry
  <2>2. (SessionOK /\ EntryOK /\ DropOK /\ EntryCids)'
    BY <1>4, AllocateCid, CidAssumption DEF EnsureInsert, TypeOK, Goto, BeginSession,
       NoCid, VmEntry, SessionOK, EntryOK, DropOK, EntryCids, InSession, Present, Cids
  <2>3. BootUnique'
    BY <1>4, AllocateCid, CidAssumption DEF EnsureInsert, TypeOK, Goto, BeginSession,
       SessionOK, EntryOK, DropOK, BootUnique, Boots, InSession, Cids
  <2>4. EntryUnique' /\ DropUnique'
    BY <1>4, AllocateCid, CidAssumption DEF EnsureInsert, EntryUnique, DropUnique
  <2>5. AliveOwned'
    BY <1>4, AllocateCid, CidAssumption, Zenon DEF EnsureInsert, TypeOK, Goto,
       BeginSession, EntryOK, AliveOwned, Present
  <2> QED  BY <2>1, <2>2, <2>3, <2>4, <2>5
<1>5. ASSUME NEW c \in Conns, BootOk(c)
      PROVE  IInv'
  <2>1. TypeOK'
    BY <1>5, CidAssumption, Zenon DEF BootOk, TypeOK, Goto, SessionOK, InSession
  <2>2. (SessionOK /\ EntryOK /\ DropOK /\ EntryCids)'
    BY <1>5, CidAssumption DEF BootOk, Goto, SessionOK, EntryOK, DropOK, EntryCids,
       InSession, Present
  <2>3. BootUnique'
    BY <1>5, CidAssumption DEF BootOk, Goto, BootUnique, Boots
  <2>4. EntryUnique' /\ DropUnique'
    BY <1>5, CidAssumption DEF BootOk, EntryUnique, DropUnique
  <2>5. AliveOwned'
    BY <1>5, CidAssumption DEF BootOk, TypeOK, Goto, AliveOwned
  <2> QED  BY <2>1, <2>2, <2>3, <2>4, <2>5
<1>6. ASSUME NEW c \in Conns, BootFail(c)
      PROVE  IInv'
  <2>1. TypeOK'
    BY <1>6, CidAssumption DEF BootFail, TypeOK, Goto
  <2>2. (SessionOK /\ EntryOK /\ DropOK /\ EntryCids)'
    BY <1>6, CidAssumption DEF BootFail, Goto, SessionOK, EntryOK, DropOK, EntryCids,
       InSession, Present
  <2>3. OwnersUnchanged
    BY <1>6 DEF BootFail, Goto, Boots, OwnersUnchanged
  <2> QED  BY <2>1, <2>2, <2>3, OwnersFrame
<1>7. ASSUME NEW c \in Conns, BootCommit(c)
      PROVE  IInv'
  <2>1. TypeOK'
    <3>1. session[c].project \in Projects /\ session[c].cid \in Cids
      BY <1>7 DEF BootCommit, SessionOK, InSession
    <3>2. [vms[session[c].project] EXCEPT !.state = "Running",
                                          !.process = session[c].cid] \in VmEntry
      BY <3>1, ProcessUpdate, Zenon DEF TypeOK
    <3> QED  BY <1>7, <3>1, <3>2 DEF BootCommit, TypeOK, Goto
  <2>2. (SessionOK /\ EntryOK /\ DropOK /\ EntryCids)'
    BY <1>7, CidAssumption DEF BootCommit, Goto, SessionOK, EntryOK, DropOK, EntryCids,
       InSession, Present
  <2>3. BootUnique'
    BY <1>7, CidAssumption DEF BootCommit, TypeOK, Goto, BootUnique, Boots
  <2>4. EntryUnique' /\ DropUnique'
    BY <1>7, CidAssumption DEF BootCommit, BootUnique, EntryUnique, DropUnique, Boots
  <2>5. AliveOwned'
    BY <1>7, CidAssumption DEF BootCommit, TypeOK, Goto, NoCid, Processes, SessionOK,
       AliveOwned, InSession, Cids
  <2> QED  BY <2>1, <2>2, <2>3, <2>4, <2>5
<1>8. ASSUME NEW c \in Conns, BootUnclaimed(c)
      PROVE  IInv'
  <2>1. TypeOK'
    BY <1>8, CidAssumption DEF BootUnclaimed, TypeOK, Goto, SessionOK, InSession
  <2>2. (SessionOK /\ EntryOK /\ DropOK /\ EntryCids)'
    BY <1>8, CidAssumption DEF BootUnclaimed, TypeOK, Goto, SessionOK, EntryOK, DropOK,
       EntryCids, InSession, Present
  <2>3. BootUnique'
    BY <1>8, CidAssumption DEF BootUnclaimed, TypeOK, Goto, BootUnique, Boots
  <2>4. EntryUnique' /\ DropUnique'
    BY <1>8, CidAssumption DEF BootUnclaimed, BootUnique, EntryUnique, DropUnique, Boots
  <2>5. AliveOwned'
    BY <1>8, CidAssumption DEF BootUnclaimed, TypeOK, Goto, DropOK, AliveOwned
  <2> QED  BY <2>1, <2>2, <2>3, <2>4, <2>5
<1>9. ASSUME NEW c \in Conns, BootAbort(c)
      PROVE  IInv'
  <2>1. TypeOK'
    BY <1>9, CidAssumption DEF BootAbort, TypeOK, Goto, Absent, Processes, VmEntry,
       SessionOK, InSession
  <2>2. (SessionOK /\ EntryOK /\ DropOK /\ EntryCids)'
    BY <1>9, CidAssumption DEF BootAbort, TypeOK, Goto, Absent, NoCid, Processes,
       SessionOK, EntryOK, DropOK, EntryCids, InSession, Present, Cids
  <2>3. BootUnique'
    BY <1>9, CidAssumption DEF BootAbort, Goto, Absent, NoCid, Processes, SessionOK,
       BootUnique, Boots, InSession, Cids
  <2>4. EntryUnique' /\ DropUnique'
    BY <1>9, CidAssumption DEF BootAbort, TypeOK, Absent, Processes, SessionOK,
       EntryUnique, DropUnique, InSession
  <2>5. AliveOwned'
    BY <1>9, CidAssumption DEF BootAbort, TypeOK, Goto, Absent, Processes, DropOK,
       AliveOwned
  <2> QED  BY <2>1, <2>2, <2>3, <2>4, <2>5
<1>10. ASSUME NEW c \in Conns, NEW S \in SUBSET Projects, Stop(c, S)
      PROVE  IInv'
  <2>1. TypeOK'
    BY <1>10, CidAssumption DEF Stop, TypeOK, Goto, Absent, Processes, VmEntry
  <2>2. (SessionOK /\ EntryOK /\ DropOK /\ EntryCids)'
    BY <1>10, CidAssumption DEF Stop, TypeOK, Goto, Absent, NoCid, Processes, SessionOK,
       EntryOK, DropOK, EntryCids, InSession, Present, Cids
  <2>3. BootUnique'
    BY <1>10, CidAssumption DEF Stop, Goto, Absent, NoCid, Processes, SessionOK,
       BootUnique, Boots, InSession, Cids
  <2>4. EntryUnique' /\ DropUnique'
    <3>1. \A q \in Projects : vms'[q].process = IF q \in S THEN NoCid
                                                ELSE vms[q].process
      BY <1>10 DEF Stop, Absent
    <3>2. \A d \in Conns \ {c} : dropping'[d] = dropping[d]
      BY <1>10 DEF Stop, TypeOK
    <3>3. \A k : k \in dropping'[c] <=>
            k # NoCid /\ \E q \in S : vms[q].process = k
      BY <1>10 DEF Stop, TypeOK, Processes
    <3>4. EntryUnique'
      BY <1>10, <3>1, <3>2, <3>3 DEF Stop, EntryUnique
    <3>5. DropUnique'
      BY <1>10, <3>2, <3>3 DEF Stop, EntryUnique, DropUnique
    <3> QED  BY <3>4, <3>5
  <2>5. AliveOwned'
    BY <1>10, CidAssumption DEF Stop, TypeOK, Goto, Absent, Processes, DropOK, AliveOwned
  <2> QED  BY <2>1, <2>2, <2>3, <2>4, <2>5
<1>11. ASSUME NEW c \in Conns, NEW k \in dropping[c], DropProcess(c, k)
      PROVE  IInv'
  <2>1. TypeOK'
    BY <1>11, CidAssumption DEF DropProcess, TypeOK
  <2>2. (SessionOK /\ EntryOK /\ DropOK /\ EntryCids)'
    BY <1>11, CidAssumption DEF DropProcess, SessionOK, EntryOK, DropOK, EntryCids,
       InSession, Present
  <2>3. BootUnique'
    BY <1>11, CidAssumption DEF DropProcess, BootUnique, Boots
  <2>4. EntryUnique' /\ DropUnique'
    BY <1>11, CidAssumption DEF DropProcess, EntryUnique, DropUnique
  <2>5. AliveOwned'
    BY <1>11, CidAssumption DEF DropProcess, AliveOwned
  <2> QED  BY <2>1, <2>2, <2>3, <2>4, <2>5
<1>12. ASSUME NEW c \in Conns, WriteReply(c)
      PROVE  IInv'
  <2>1. TypeOK'
    BY <1>12, CidAssumption DEF WriteReply, TypeOK, Goto, Finish, NoSession
  <2>2. (SessionOK /\ EntryOK /\ DropOK /\ EntryCids)'
    BY <1>12, CidAssumption DEF WriteReply, Goto, Finish, SessionOK, EntryOK, DropOK,
       EntryCids, InSession, Present
  <2>3. OwnersUnchanged
    BY <1>12 DEF WriteReply, Goto, Finish, Boots, OwnersUnchanged
  <2> QED  BY <2>1, <2>2, <2>3, OwnersFrame
<1>13. ASSUME NEW c \in Conns, WriteReady(c)
      PROVE  IInv'
  <2>1. TypeOK'
    BY <1>13, CidAssumption DEF WriteReady, TypeOK, Goto
  <2>2. (SessionOK /\ EntryOK /\ DropOK /\ EntryCids)'
    BY <1>13, CidAssumption DEF WriteReady, Goto, SessionOK, EntryOK, DropOK, EntryCids,
       InSession, Present
  <2>3. OwnersUnchanged
    BY <1>13 DEF WriteReady, Goto, Boots, OwnersUnchanged
  <2> QED  BY <2>1, <2>2, <2>3, OwnersFrame
<1>14. ASSUME NEW c \in Conns, WriteReadyFails(c)
      PROVE  IInv'
  <2>1. TypeOK'
    BY <1>14, CidAssumption DEF WriteReadyFails, TypeOK, Goto, Finish, NoSession
  <2>2. (SessionOK /\ EntryOK /\ DropOK /\ EntryCids)'
    BY <1>14, CidAssumption DEF WriteReadyFails, TypeOK, Goto, Finish, SessionOK,
       EntryOK, DropOK, EntryCids, InSession, Present
  <2>3. OwnersUnchanged
    BY <1>14 DEF WriteReadyFails, Goto, Finish, Boots, OwnersUnchanged
  <2> QED  BY <2>1, <2>2, <2>3, OwnersFrame
<1>15. ASSUME NEW c \in Conns, Release(c)
      PROVE  IInv'
  <2> DEFINE p == session[c].project
             left == IF vms[p].active_sessions = 0 THEN 0
                     ELSE vms[p].active_sessions - 1
             age == IF left = 0 THEN "fresh" ELSE vms[p].age
             e == [vms[p] EXCEPT !.active_sessions = left, !.age = age]
  <2>a. p \in Projects
    BY <1>15 DEF Release, SessionOK, InSession
  <2>b. vms[p] \in VmEntry /\ left \in Nat /\ age \in {"fresh", "expired"}
    BY <2>a DEF TypeOK, VmEntry
  <2> HIDE DEF p, left, age
  <2>c. /\ e \in VmEntry /\ e.process = vms[p].process
        /\ e.cid = vms[p].cid /\ e.state = vms[p].state
    BY <2>b, Zenon DEF VmEntry
  <2>d. vms' = [vms EXCEPT ![p] = e] \/ vms' = vms
    BY <1>15 DEF Release, p, left, age
  <2> HIDE DEF e
  <2>e. \A q \in Projects : /\ vms'[q].process = vms[q].process
                            /\ vms'[q].cid = vms[q].cid
                            /\ vms'[q].state = vms[q].state
    BY <2>a, <2>c, <2>d DEF TypeOK
  <2>1. TypeOK'
    BY <1>15, <2>a, <2>c, <2>d DEF Release, p, TypeOK, Finish, Goto, NoSession, NoCid
  <2>2. (SessionOK /\ EntryOK /\ DropOK /\ EntryCids)'
    <3>1. SessionOK'
      BY <1>15 DEF Release, TypeOK, Finish, Goto, SessionOK, InSession
    <3>2. EntryCids'
      BY <2>e DEF EntryCids, Present
    <3>3. next_cid' = next_cid
      BY <1>15 DEF Release
    <3>4. EntryOK'
      BY <2>e, <3>3 DEF EntryOK, Present
    <3>5. DropOK'
      BY <1>15 DEF Release, Finish, Goto, DropOK
    <3> QED  BY <3>1, <3>2, <3>4, <3>5
  <2>3. OwnersUnchanged
    BY <1>15 DEF Release, Goto, Finish, Boots, OwnersUnchanged
  <2> QED  BY <2>1, <2>2, <2>3, OwnersFrame
<1>16. ASSUME NEW c \in Conns, ClientClose(c)
      PROVE  IInv'
  <2>1. TypeOK'
    BY <1>16, CidAssumption DEF ClientClose, TypeOK
  <2>2. (SessionOK /\ EntryOK /\ DropOK /\ EntryCids)'
    BY <1>16, CidAssumption DEF ClientClose, SessionOK, EntryOK, DropOK, EntryCids,
       InSession, Present
  <2>3. OwnersUnchanged
    BY <1>16 DEF ClientClose, Boots, OwnersUnchanged
  <2> QED  BY <2>1, <2>2, <2>3, OwnersFrame
<1>17. ASSUME NEW c \in Conns, Status(c)
      PROVE  IInv'
  <2>1. TypeOK'
    BY <1>17, CidAssumption DEF Status, TypeOK, Goto
  <2>2. (SessionOK /\ EntryOK /\ DropOK /\ EntryCids)'
    BY <1>17, CidAssumption DEF Status, Goto, SessionOK, EntryOK, DropOK, EntryCids,
       InSession, Present
  <2>3. OwnersUnchanged
    BY <1>17 DEF Status, Goto, Boots, OwnersUnchanged
  <2> QED  BY <2>1, <2>2, <2>3, OwnersFrame
<1>18. ASSUME Reap
      PROVE  IInv'
  <2>1. TypeOK'
    BY <1>18, CidAssumption DEF Reap, TypeOK, Absent, Processes, VmEntry
  <2>2. (SessionOK /\ EntryOK /\ DropOK /\ EntryCids)'
    BY <1>18, CidAssumption DEF Reap, TypeOK, Absent, NoCid, Processes, SessionOK,
       EntryOK, DropOK, EntryCids, InSession, Present, Cids
  <2>3. BootUnique'
    BY <1>18, CidAssumption DEF Reap, Absent, NoCid, Processes, SessionOK, BootUnique,
       Boots, InSession, Cids
  <2>4. EntryUnique' /\ DropUnique'
    BY <1>18, CidAssumption DEF Reap, Absent, Processes, EntryUnique, DropUnique
  <2>5. AliveOwned'
    BY <1>18, CidAssumption DEF Reap, Absent, Processes, AliveOwned
  <2> QED  BY <2>1, <2>2, <2>3, <2>4, <2>5
<1>19. ASSUME NEW k \in reaping, ReaperDrop(k)
      PROVE  IInv'
  <2>1. TypeOK'
    BY <1>19, CidAssumption, Zenon DEF ReaperDrop, TypeOK
  <2>2. (SessionOK /\ EntryOK /\ DropOK /\ EntryCids)'
    BY <1>19, CidAssumption DEF ReaperDrop, SessionOK, EntryOK, DropOK, EntryCids,
       InSession, Present
  <2>3. BootUnique'
    BY <1>19, CidAssumption DEF ReaperDrop, BootUnique, Boots
  <2>4. EntryUnique' /\ DropUnique'
    BY <1>19, CidAssumption DEF ReaperDrop, EntryUnique, DropUnique
  <2>5. AliveOwned'
    BY <1>19, CidAssumption DEF ReaperDrop, AliveOwned
  <2> QED  BY <2>1, <2>2, <2>3, <2>4, <2>5
<1>20. ASSUME NEW p \in Projects, TtlPasses(p)
      PROVE  IInv'
  <2>1. TypeOK'
    <3>1. [vms[p] EXCEPT !.age = "expired"] \in VmEntry
      BY AgeUpdate, Zenon DEF TypeOK
    <3> QED  BY <1>20, <3>1 DEF TtlPasses, TypeOK
  <2>2. (SessionOK /\ EntryOK /\ DropOK /\ EntryCids)'
    BY <1>20, CidAssumption DEF TtlPasses, SessionOK, EntryOK, DropOK, EntryCids,
       InSession, Present
  <2>3. OwnersUnchanged
    BY <1>20 DEF TtlPasses, Boots, OwnersUnchanged
  <2> QED  BY <2>1, <2>2, <2>3, OwnersFrame
<1>21. ASSUME NEW k \in alive, QemuExit(k)
      PROVE  IInv'
  <2>1. TypeOK'
    BY <1>21, CidAssumption DEF QemuExit, TypeOK
  <2>2. (SessionOK /\ EntryOK /\ DropOK /\ EntryCids)'
    BY <1>21, CidAssumption DEF QemuExit, SessionOK, EntryOK, DropOK, EntryCids,
       InSession, Present
  <2>3. OwnersUnchanged
    BY <1>21 DEF QemuExit, Boots, OwnersUnchanged
  <2> QED  BY <2>1, <2>2, <2>3, OwnersFrame
<1>22. CASE UNCHANGED vars
  BY <1>22 DEF vars, TypeOK, SessionOK, EntryOK, DropOK, EntryCids, BootUnique,
     EntryUnique, DropUnique, AliveOwned, Boots, InSession, Present
<1> QED
  BY <1>1, <1>2, <1>3, <1>4, <1>5, <1>6, <1>7, <1>8, <1>9, <1>10, <1>11, <1>12, <1>13,
     <1>14, <1>15, <1>16, <1>17, <1>18, <1>19, <1>20, <1>21, <1>22, Zenon
     DEF Next, Ensure, Boot, Proceed, ReaperStep

\* The clauses of the invariant, kind by kind, say that owners are unique.
LEMMA OwnedFromIInv == IInv => LiveVmsOwned
<1> SUFFICES ASSUME IInv PROVE LiveVmsOwned
    OBVIOUS
<1>1. ASSUME NEW k \in alive PROVE Owners(k) # {}
    <2>1. CASE \E c \in Conns : pc[c] = "launched" /\ session[c].cid = k
        BY <2>1, Zenon DEF Owners
    <2>2. CASE \E p \in Projects : vms[p].process = k
        BY <2>2, Zenon DEF Owners
    <2>3. CASE \E c \in Conns : k \in dropping[c]
        BY <2>3, Zenon DEF Owners
    <2>4. CASE k \in reaping
        BY <2>4, Zenon DEF Owners
    <2> QED  BY <2>1, <2>2, <2>3, <2>4 DEF IInv, AliveOwned
<1>2. ASSUME NEW k \in Cids, NEW o1 \in Owners(k), NEW o2 \in Owners(k)
      PROVE  o1 = o2
    <2>1. k # NoCid
        BY CidAssumption DEF Cids, NoCid
    <2>2. ASSUME NEW o \in Owners(k)
          PROVE  \/ \E c \in Conns : /\ o = <<"boot", c>>
                                     /\ Boots(c) /\ session[c].cid = k
                 \/ \E p \in Projects : o = <<"entry", p>> /\ vms[p].process = k
                 \/ \E c \in Conns : o = <<"drop", c>> /\ k \in dropping[c]
                 \/ o = <<"reap", k>> /\ k \in reaping
        BY <2>2 DEF Owners, Boots
    <2>3. CASE \E c \in Conns : /\ o1 = <<"boot", c>>
                                /\ Boots(c) /\ session[c].cid = k
        BY <2>2, <2>3 DEF IInv, BootUnique
    <2>4. CASE \E p \in Projects : o1 = <<"entry", p>> /\ vms[p].process = k
        BY <2>1, <2>2, <2>4 DEF IInv, BootUnique, EntryUnique
    <2>5. CASE \E c \in Conns : o1 = <<"drop", c>> /\ k \in dropping[c]
        BY <2>1, <2>2, <2>5 DEF IInv, BootUnique, EntryUnique, DropUnique
    <2>6. CASE o1 = <<"reap", k>> /\ k \in reaping
        BY <2>1, <2>2, <2>6 DEF IInv, BootUnique, EntryUnique, DropUnique
    <2> QED  BY <2>2, <2>3, <2>4, <2>5, <2>6
<1> QED  BY <1>1, <1>2 DEF LiveVmsOwned

\* A cid that is still booting has no owner among those of running VMs.
LEMMA DistinctFromIInv == IInv => CidsDistinct
<1> SUFFICES ASSUME IInv PROVE CidsDistinct
    OBVIOUS
<1>1. ASSUME NEW c \in Conns, pc[c] = "boot" PROVE session[c].cid \notin alive
    BY <1>1 DEF IInv, BootUnique, AliveOwned, Boots
<1>2. ASSUME NEW c \in Conns, NEW d \in Conns,
             {pc[c], pc[d]} \subseteq {"boot", "launched"},
             session[c].cid = session[d].cid
      PROVE  c = d
    BY <1>2 DEF IInv, BootUnique, Boots
<1> QED  BY <1>1, <1>2 DEF IInv, EntryCids, CidsDistinct

\* The inductive invariant holds in every reachable state.
LEMMA SpecIInv == Spec => []IInv
BY InitIInv, NextIInv, PTL DEF Spec

\* Types are respected, whatever the environment does: in particular no entry
\* in the map is ever in a state other than Booting or Running.
THEOREM PoolTypeCorrect == Spec => []TypeOK
BY SpecIInv, PTL DEF IInv

\* Every running QEMU always has exactly one owner, the map or a thread, under
\* every interleaving of ensure, stop, reap, failed and late boots.
THEOREM PoolOwnsLiveVms == Spec => []LiveVmsOwned
BY SpecIInv, OwnedFromIInv, PTL

\* allocate_cid never gives a cid to two VMs before the counter wraps.
THEOREM PoolCidsDistinct == Spec => []CidsDistinct
BY SpecIInv, DistinctFromIInv, PTL

-----------------------------------------------------------------------------

\* The thread has not yet settled its placeholder.
Unsettled(c) == pc[c] \in {"boot", "launched", "failed"}

\* While a thread boots, the entry of its project is its own placeholder.
PlaceholderInv ==
    /\ \A c \in Conns : Unsettled(c) =>
         /\ vms[session[c].project].state = "Booting"
         /\ vms[session[c].project].cid = session[c].cid
    /\ \A c, d \in Conns :
         Unsettled(c) /\ Unsettled(d) /\ session[c].cid = session[d].cid => c = d

\* Without Stop requests nothing takes a placeholder away: reap only removes
\* Running entries, and a failed boot only its own.
LEMMA NextPlaceholder ==
    ASSUME "stop" \notin Events, IInv, PlaceholderInv, [Next]_vars
    PROVE  PlaceholderInv'
<1> USE DEF IInv, Unsettled
<1>1. ASSUME NEW c \in Conns, NEW p \in Projects, NEW n \in Networks, EnsureReuse(c, p, n)
      PROVE  PlaceholderInv'
  BY <1>1 DEF EnsureReuse, PlaceholderInv, Goto, BeginSession
<1>2. ASSUME NEW c \in Conns, NEW p \in Projects, NEW n \in Networks, EnsureConflict(c, p, n)
      PROVE  PlaceholderInv'
  BY <1>2 DEF EnsureConflict, PlaceholderInv, Goto
<1>3. ASSUME NEW c \in Conns, NEW p \in Projects, EnsureExhausted(c, p)
      PROVE  PlaceholderInv'
  BY <1>3 DEF EnsureExhausted, PlaceholderInv, Goto
<1>4. ASSUME NEW c \in Conns, NEW p \in Projects, NEW n \in Networks, EnsureInsert(c, p, n)
      PROVE  PlaceholderInv'
  <2>1. /\ vms'[p].state = "Booting" /\ vms'[p].cid = next_cid
        /\ \A q \in Projects \ {p} : vms'[q] = vms[q]
    BY <1>4 DEF EnsureInsert, TypeOK
  <2>2. /\ session'[c].project = p /\ session'[c].cid = next_cid
        /\ \A d \in Conns \ {c} : session'[d] = session[d] /\ pc'[d] = pc[d]
    BY <1>4 DEF EnsureInsert, TypeOK, BeginSession, Goto
  <2>3. \A d \in Conns \ {c} : Unsettled(d) =>
            session[d].project # p /\ session[d].cid # next_cid
    BY <1>4 DEF EnsureInsert, PlaceholderInv, Present, SessionOK, InSession, Cids
  <2>4. \A d \in Conns \ {c} : Unsettled(d) => session[d].project \in Projects
    BY DEF SessionOK, InSession
  <2> QED  BY <2>1, <2>2, <2>3, <2>4 DEF PlaceholderInv
<1>5. ASSUME NEW c \in Conns, BootOk(c)
      PROVE  PlaceholderInv'
  BY <1>5 DEF BootOk, PlaceholderInv, Goto
<1>6. ASSUME NEW c \in Conns, BootFail(c)
      PROVE  PlaceholderInv'
  BY <1>6 DEF BootFail, PlaceholderInv, Goto
<1>7. ASSUME NEW c \in Conns, BootCommit(c)
      PROVE  PlaceholderInv'
  BY <1>7 DEF BootCommit, PlaceholderInv, TypeOK, Goto
<1>8. ASSUME NEW c \in Conns, BootUnclaimed(c)
      PROVE  PlaceholderInv'
  BY <1>8 DEF BootUnclaimed, PlaceholderInv, Present
<1>9. ASSUME NEW c \in Conns, BootAbort(c)
      PROVE  PlaceholderInv'
  BY <1>9 DEF BootAbort, PlaceholderInv, TypeOK, Goto
<1>10. ASSUME NEW c \in Conns, NEW k \in dropping[c], DropProcess(c, k)
      PROVE  PlaceholderInv'
  BY <1>10 DEF DropProcess, PlaceholderInv
<1>11. ASSUME NEW c \in Conns, WriteReply(c)
      PROVE  PlaceholderInv'
  BY <1>11 DEF WriteReply, PlaceholderInv, Goto, Finish
<1>12. ASSUME NEW c \in Conns, WriteReady(c)
      PROVE  PlaceholderInv'
  BY <1>12 DEF WriteReady, PlaceholderInv, Goto
<1>13. ASSUME NEW c \in Conns, WriteReadyFails(c)
      PROVE  PlaceholderInv'
  BY <1>13 DEF WriteReadyFails, PlaceholderInv, Goto, Finish
<1>14. ASSUME NEW c \in Conns, Release(c)
      PROVE  PlaceholderInv'
  BY <1>14 DEF Release, PlaceholderInv, TypeOK, VmEntry, SessionOK,
     InSession, Present, Stale, Goto, Finish, BeginSession, Absent, NoSession
<1>15. ASSUME NEW c \in Conns, ClientClose(c)
      PROVE  PlaceholderInv'
  BY <1>15 DEF ClientClose, PlaceholderInv
<1>16. ASSUME NEW c \in Conns, Status(c)
      PROVE  PlaceholderInv'
  BY <1>16 DEF Status, PlaceholderInv, Goto
<1>17. ASSUME Reap
      PROVE  PlaceholderInv'
  BY <1>17 DEF Reap, PlaceholderInv, TypeOK, VmEntry, SessionOK,
     InSession, Present, Stale, Goto, Finish, BeginSession, Absent, NoSession
<1>18. ASSUME NEW k \in reaping, ReaperDrop(k)
      PROVE  PlaceholderInv'
  BY <1>18 DEF ReaperDrop, PlaceholderInv
<1>19. ASSUME NEW p \in Projects, TtlPasses(p)
      PROVE  PlaceholderInv'
  BY <1>19 DEF TtlPasses, PlaceholderInv
<1>20. ASSUME NEW k \in alive, QemuExit(k)
      PROVE  PlaceholderInv'
  BY <1>20 DEF QemuExit, PlaceholderInv
<1>21. CASE UNCHANGED vars
  BY <1>21 DEF vars, PlaceholderInv
<1>22. ASSUME NEW c \in Conns, NEW S \in SUBSET Projects, Stop(c, S)
      PROVE  FALSE
  BY <1>22 DEF Stop
<1> QED
  BY <1>1, <1>2, <1>3, <1>4, <1>5, <1>6, <1>7, <1>8, <1>9, <1>10, <1>11, <1>12, <1>13,
     <1>14, <1>15, <1>16, <1>17, <1>18, <1>19, <1>20, <1>21, <1>22
     DEF Next, Ensure, Boot, Proceed, ReaperStep

\* Two threads never boot the same project at the same time, for any number of
\* threads and whatever else fails, as long as no Stop request arrives.
THEOREM PoolNoDoubleBoot ==
    ASSUME "stop" \notin Events
    PROVE  Spec => []NoDoubleBoot
<1>1. Init => PlaceholderInv
    BY DEF Init, PlaceholderInv, Unsettled
<1>2. IInv /\ PlaceholderInv /\ [Next]_vars => PlaceholderInv'
    BY NextPlaceholder
<1>3. PlaceholderInv => NoDoubleBoot
    BY DEF PlaceholderInv, NoDoubleBoot, Unsettled
<1> QED  BY <1>1, <1>2, <1>3, SpecIInv, PTL DEF Spec

-----------------------------------------------------------------------------
(***************************************************************************)
(* The pool implements the safety part of LeasedVms for any number of      *)
(* projects and connections, clients that leave early included, as long as *)
(* there are no Stop requests and no failed boots.                         *)
(*                                                                         *)
(* The argument: active_sessions is never less than the number of threads  *)
(* in a session with the VM, so that reap, which only looks at the         *)
(* counter, never takes a leased VM.                                       *)
(***************************************************************************)

\* The environment: no Stop requests, no failed boots.
Undisturbed == "stop" \notin Events /\ "boot_failure" \notin Events

\* The projects of sessions have entries, and entries count their sessions.
Accounted ==
    /\ \A c \in Conns : InSession(c) => Present(session[c].project)
    /\ \A p \in Projects : Cardinality(SessionThreads(p)) <= vms[p].active_sessions

Counted == Accounted /\ \A c \in Conns : pc[c] # "failed"

-----------------------------------------------------------------------------
(* What a step of the pool does to sessions and entries, in one of four    *)
(* ways.                                                                   *)

SameSession(c) ==
    /\ InSession(c)' <=> InSession(c)
    /\ InSession(c) => session'[c].project = session[c].project
SameEntry(p) ==
    /\ Present(p)' <=> Present(p)
    /\ vms'[p].active_sessions = vms[p].active_sessions

Quiet ==
    /\ \A c \in Conns : SameSession(c)
    /\ \A p \in Projects : SameEntry(p)

\* ensure counts the session of c.
Takes(c, p) ==
    /\ ~InSession(c) /\ InSession(c)' /\ session'[c].project = p
    /\ \A d \in Conns \ {c} : SameSession(d)
    /\ Present(p)'
    /\ Present(p) => vms'[p].active_sessions = vms[p].active_sessions + 1
    /\ ~Present(p) => vms'[p].active_sessions = 1
    /\ \A q \in Projects \ {p} : SameEntry(q)

\* release counts it down, unless the answer could not be written.
Gives(c, p) ==
    /\ InSession(c) /\ ~InSession(c)' /\ session[c].project = p
    /\ \A d \in Conns \ {c} : SameSession(d)
    /\ \A q \in Projects : Present(q)' <=> Present(q)
    /\ vms'[p].active_sessions \in Nat
    /\ vms[p].active_sessions <= vms'[p].active_sessions + 1
    /\ \/ pc[c] = "ready" /\ ~open[c]
       \/ Present(p) /\ vms[p].active_sessions > 0
            => vms'[p].active_sessions = vms[p].active_sessions - 1
    /\ \A q \in Projects \ {p} : SameEntry(q)

\* reap removes entries that count no session.
Removes ==
    /\ \A c \in Conns : SameSession(c)
    /\ \A p \in Projects :
         IF Stale(p)
         THEN /\ Present(p) /\ vms[p].active_sessions = 0
              /\ ~Present(p)' /\ vms'[p].active_sessions = 0
         ELSE SameEntry(p)


\* Counting a session leaves the entry where it is.
LEMMA CountFields ==
    ASSUME NEW e \in VmEntry, NEW n \in Nat, NEW a \in {"fresh", "expired"}
    PROVE  LET f == [e EXCEPT !.active_sessions = n, !.age = a] IN
           f.state = e.state /\ f.active_sessions = n
BY DEF VmEntry

\* ensure takes a lease of the VM, be it there or not.
LEMMA EnsureTakes ==
    ASSUME IInv, NEW c \in Conns, NEW p \in Projects, NEW n \in Networks,
           EnsureReuse(c, p, n) \/ EnsureInsert(c, p, n)
    PROVE  Takes(c, p)
<1> USE DEF IInv
<1>1. CASE EnsureReuse(c, p, n)
  <2>1. vms[p] \in VmEntry /\ vms[p].active_sessions + 1 \in Nat
    BY DEF VmEntry, TypeOK
  <2>2. /\ vms'[p].state = vms[p].state
        /\ vms'[p].active_sessions = vms[p].active_sessions + 1
        /\ \A q \in Projects \ {p} : vms'[q] = vms[q]
    BY <1>1, <2>1, CountFields DEF EnsureReuse, TypeOK
  <2> QED
    BY <1>1, <2>2 DEF EnsureReuse, TypeOK, BeginSession, Takes, InSession, Present, Goto,
       SameSession, SameEntry
<1>2. CASE EnsureInsert(c, p, n)
  <2>1. /\ vms'[p].state = "Booting" /\ vms'[p].active_sessions = 1
        /\ \A q \in Projects \ {p} : vms'[q] = vms[q]
    BY <1>2 DEF EnsureInsert, TypeOK
  <2> QED
    BY <1>2, <2>1 DEF EnsureInsert, TypeOK, BeginSession, Takes, InSession, Present, Goto,
       SameSession, SameEntry
<1> QED  BY <1>1, <1>2

\* The end of a session gives the lease back.
LEMMA ReleaseGives ==
    ASSUME IInv, NEW c \in Conns, Release(c) \/ WriteReadyFails(c)
    PROVE  session[c].project \in Projects /\ Gives(c, session[c].project)
<1> DEFINE p == session[c].project
<1> USE DEF IInv
<1>1. InSession(c)  BY DEF Release, WriteReadyFails, InSession
<1>2. p \in Projects  BY <1>1 DEF SessionOK
<1>3. CASE WriteReadyFails(c)
  BY <1>2, <1>3 DEF WriteReadyFails, VmEntry, TypeOK, Finish, Gives, InSession, Present,
     Goto, SameSession, SameEntry
<1>4. CASE Release(c) /\ ~Present(p)
  BY <1>2, <1>4 DEF Release, VmEntry, TypeOK, Finish, Gives, InSession, Present, Goto,
     SameSession, SameEntry
<1>5. CASE Release(c) /\ Present(p)
  <2> DEFINE left == IF vms[p].active_sessions = 0 THEN 0
                     ELSE vms[p].active_sessions - 1
             age == IF left = 0 THEN "fresh" ELSE vms[p].age
  <2>1. vms[p] \in VmEntry /\ left \in Nat /\ age \in {"fresh", "expired"}
    BY <1>2 DEF VmEntry, TypeOK
  <2>2. vms' = [vms EXCEPT ![p] = [@ EXCEPT !.active_sessions = left, !.age = age]]
    BY <1>5 DEF Release
  <2>3. /\ vms'[p].state = vms[p].state /\ vms'[p].active_sessions = left
        /\ \A q \in Projects \ {p} : vms'[q] = vms[q]
    BY <1>2, <2>1, <2>2, CountFields DEF TypeOK
  <2>4. /\ vms[p].active_sessions <= left + 1
        /\ vms[p].active_sessions > 0 => left = vms[p].active_sessions - 1
    BY <1>2 DEF VmEntry, TypeOK
  <2>5. \A q \in Projects : Present(q)' <=> Present(q)  BY <2>3 DEF Present
  <2>6. \A d \in Conns \ {c} : SameSession(d)  BY <1>5 DEF Release, Finish, InSession,
      Goto, SameSession
  <2>7. ~InSession(c)'  BY <1>5 DEF Release, TypeOK, Finish, InSession, Goto
  <2> HIDE DEF left
  <2> QED
    BY <1>1, <1>2, <2>1, <2>3, <2>4, <2>5, <2>6, <2>7 DEF TypeOK, Finish, Gives,
       InSession, Present, Goto, SameSession, SameEntry
<1> QED  BY <1>2, <1>3, <1>4, <1>5, Zenon

\* reap removes what it finds stale.
LEMMA ReapRemoves ==
    ASSUME IInv, Reap
    PROVE  Removes
BY DEF Reap, Stale, Removes, Absent, InSession, Present, SameSession, SameEntry

\* Whatever else happens changes neither sessions nor counters.
LEMMA OtherStepsQuiet ==
    ASSUME Undisturbed, IInv, Counted, [Next]_vars
    PROVE  \/ Quiet
           \/ \E c \in Conns, p \in Projects : Takes(c, p) \/ Gives(c, p)
           \/ Removes
<1> USE DEF IInv
<1>1. ASSUME NEW c \in Conns, NEW p \in Projects,
             \/ \E n \in Networks : EnsureConflict(c, p, n)
             \/ EnsureExhausted(c, p)
      PROVE  Quiet
  BY <1>1 DEF EnsureConflict, EnsureExhausted, TypeOK, Quiet, InSession, Present, Goto,
     SameSession, SameEntry
<1>2. ASSUME NEW c \in Conns, BootOk(c) \/ WriteReady(c) PROVE Quiet
  BY <1>2 DEF BootOk, WriteReady, TypeOK, Quiet, InSession, Present, Goto, SameSession,
     SameEntry
<1>3. ASSUME NEW c \in Conns, BootCommit(c) PROVE Quiet
  <2> DEFINE p == session[c].project
  <2>1. p \in Projects  BY <1>3 DEF BootCommit, SessionOK, InSession
  <2>2. /\ vms'[p].active_sessions = vms[p].active_sessions
        /\ vms'[p].state = "Running"
        /\ \A q \in Projects \ {p} : vms'[q] = vms[q]
    BY <1>3, <2>1 DEF BootCommit, TypeOK
  <2> QED  BY <1>3, <2>1, <2>2 DEF BootCommit, Quiet, InSession, Present, Goto,
      SameSession, SameEntry
<1>4. ASSUME NEW c \in Conns,
             BootFail(c) \/ BootUnclaimed(c) \/ BootAbort(c)
      PROVE  FALSE
  BY <1>4 DEF BootFail, BootUnclaimed, BootAbort, Counted, Accounted, Undisturbed,
     InSession
<1>5. ASSUME NEW c \in Conns, NEW S, Stop(c, S) PROVE FALSE
  BY <1>5 DEF Stop, Undisturbed
<1>6. ASSUME NEW c \in Conns,
             Status(c) \/ ClientClose(c) \/ WriteReply(c)
             \/ \E k \in dropping[c] : DropProcess(c, k)
      PROVE  Quiet
  BY <1>6 DEF Status, ClientClose, WriteReply, Finish, DropProcess, TypeOK, Quiet,
     InSession, Present, Goto, SameSession, SameEntry
<1>7. ASSUME NEW k, ReaperDrop(k) \/ QemuExit(k) PROVE Quiet
  BY <1>7 DEF ReaperDrop, QemuExit, Quiet, InSession, Present, SameSession, SameEntry
<1>8. ASSUME NEW p \in Projects, TtlPasses(p) PROVE Quiet
  <2>1. /\ vms'[p].active_sessions = vms[p].active_sessions
        /\ vms'[p].state = vms[p].state
        /\ \A q \in Projects \ {p} : vms'[q] = vms[q]
    BY <1>8 DEF TtlPasses
  <2> QED  BY <1>8, <2>1 DEF TtlPasses, Quiet, InSession, Present, SameSession, SameEntry
<1>9. CASE UNCHANGED vars  BY <1>9 DEF vars, Quiet, InSession, Present, SameSession,
    SameEntry
<1> HIDE DEF IInv
<1>10. ASSUME NEW c \in Conns, Ensure(c)
       PROVE  Quiet \/ \E p \in Projects : Takes(c, p)
  BY <1>1, <1>10, EnsureTakes DEF Ensure
<1>11. ASSUME NEW c \in Conns, Proceed(c)
       PROVE  Quiet \/ \E p \in Projects : Gives(c, p)
  BY <1>2, <1>3, <1>4, <1>6, <1>11, ReleaseGives DEF Proceed, Boot
<1>12. ASSUME ReaperStep
       PROVE  Quiet \/ Removes
  BY <1>7, <1>12, ReapRemoves DEF ReaperStep
<1> QED
  BY <1>5, <1>6, <1>7, <1>8, <1>9, <1>10, <1>11, <1>12 DEF Next

-----------------------------------------------------------------------------
(* Each of the four ways keeps the accounts and is a step of LeasedVms.    *)

\* The threads in session with a VM are finitely many.
LEMMA ThreadsFinite ==
    ASSUME NEW p
    PROVE  /\ IsFiniteSet(SessionThreads(p))
           /\ Cardinality(SessionThreads(p)) \in Nat
<1>1. SessionThreads(p) \in SUBSET Conns  BY DEF SessionThreads
<1>2. IsFiniteSet(SessionThreads(p))  BY <1>1, ConnsAssumption, FS_Subset
<1> QED  BY <1>2, FS_CardinalityType

\* Nothing happens to the leases.
LEMMA QuietStep ==
    ASSUME IInv, Accounted, Quiet
    PROVE  Accounted' /\ UNCHANGED Leases!vars
<1>1. \A p \in Projects : SessionThreads(p)' = SessionThreads(p)
  BY DEF Quiet, SessionThreads, SameSession
<1>2. \A c \in Conns : InSession(c) => session[c].project \in Projects
  BY DEF IInv, SessionOK
<1>3. Accounted'
  BY <1>1, <1>2 DEF Accounted, Quiet, SameSession, SameEntry
<1>4. UNCHANGED Leases!vars
  BY <1>1 DEF Leases!vars, Quiet, SameEntry
<1> QED  BY <1>3, <1>4

\* A lease is taken.
LEMMA TakeStep ==
    ASSUME IInv, Accounted, NEW c \in Conns, NEW p \in Projects, Takes(c, p)
    PROVE  Accounted' /\ Leases!Acquire(c, p)
<1>1. \A d \in Conns : InSession(d) => session[d].project \in Projects
  BY DEF IInv, SessionOK
<1>2. SessionThreads(p)' = SessionThreads(p) \union {c}
  BY DEF Takes, SessionThreads, SameSession
<1>3. \A q \in Projects \ {p} : SessionThreads(q)' = SessionThreads(q)
  BY DEF Takes, SessionThreads, SameSession
<1>4. \A q \in Projects : c \notin SessionThreads(q)
  BY DEF Takes, SessionThreads
<1>5. Cardinality(SessionThreads(p)') = Cardinality(SessionThreads(p)) + 1
  BY <1>2, <1>4, ThreadsFinite, FS_AddElement, Zenon
<1>6. ~Present(p) => Cardinality(SessionThreads(p)) = 0
  <2>1. ~Present(p) => SessionThreads(p) = {}  BY DEF Accounted, SessionThreads
  <2> QED  BY <2>1, FS_EmptySet
<1>7. Cardinality(SessionThreads(p)') <= vms'[p].active_sessions
  <2>1. /\ vms[p].active_sessions \in Nat
        /\ Cardinality(SessionThreads(p)) \in Nat
        /\ Cardinality(SessionThreads(p)) <= vms[p].active_sessions
    BY ThreadsFinite DEF Accounted, IInv, TypeOK, VmEntry
  <2> QED  BY <1>5, <1>6, <2>1 DEF Takes
<1>8. \A q \in Projects \ {p} :
         Cardinality(SessionThreads(q)') <= vms'[q].active_sessions
  BY <1>3 DEF Accounted, Takes, SameEntry
<1>9. \A d \in Conns : InSession(d)' => Present(session[d].project)'
  BY <1>1 DEF Accounted, Takes, SameSession, SameEntry
<1>10. Accounted'  BY <1>7, <1>8, <1>9 DEF Accounted
<1>11. Leases!Acquire(c, p)
  <2>1. {q \in Projects : Present(q)}' = {q \in Projects : Present(q)} \union {p}
    BY DEF Takes, SameEntry
  <2>2. [q \in Projects |-> SessionThreads(q)]'
           = [[q \in Projects |-> SessionThreads(q)] EXCEPT ![p] = @ \union {c}]
    BY <1>2, <1>3, Zenon
  <2> QED  BY <1>4, <2>1, <2>2 DEF Leases!Acquire
<1> QED  BY <1>10, <1>11

\* A lease is given back.
LEMMA GiveStep ==
    ASSUME IInv, Accounted, NEW c \in Conns, NEW p \in Projects, Gives(c, p)
    PROVE  Accounted' /\ Leases!Release(c, p)
<1>1. \A d \in Conns : InSession(d) => session[d].project \in Projects
  BY DEF IInv, SessionOK
<1>2. SessionThreads(p)' = SessionThreads(p) \ {c} /\ c \in SessionThreads(p)
  BY DEF Gives, SessionThreads, SameSession
<1>3. \A q \in Projects \ {p} : SessionThreads(q)' = SessionThreads(q)
  BY DEF Gives, SessionThreads, SameSession
<1>4. Cardinality(SessionThreads(p)') = Cardinality(SessionThreads(p)) - 1
  BY <1>2, ThreadsFinite, FS_RemoveElement, Zenon DEF InSession, Present, Goto
<1>5. Cardinality(SessionThreads(p)') <= vms'[p].active_sessions
  <2>1. /\ Cardinality(SessionThreads(p)) \in Nat
        /\ Cardinality(SessionThreads(p)) <= vms[p].active_sessions
    BY ThreadsFinite DEF Accounted
  <2>2. /\ vms[p].active_sessions \in Nat /\ vms'[p].active_sessions \in Nat
        /\ vms'[p].active_sessions \in Nat
    /\ vms[p].active_sessions <= vms'[p].active_sessions + 1
    BY DEF Gives, IInv, TypeOK, VmEntry
  <2> QED  BY <1>4, <2>1, <2>2
<1>6. \A q \in Projects \ {p} :
         Cardinality(SessionThreads(q)') <= vms'[q].active_sessions
  BY <1>3, Zenon DEF Accounted, Gives, SameEntry
<1>7. \A d \in Conns : InSession(d)' => Present(session[d].project)'
  BY <1>1 DEF Accounted, Gives, SameSession
<1>8. Accounted'  BY <1>5, <1>6, <1>7 DEF Accounted
<1>9. Leases!Release(c, p)
  <2>1. {q \in Projects : Present(q)}' = {q \in Projects : Present(q)}
    BY DEF Gives
  <2>2. [q \in Projects |-> SessionThreads(q)]'
           = [[q \in Projects |-> SessionThreads(q)] EXCEPT ![p] = @ \ {c}]
    BY <1>2, <1>3, Zenon
  <2> QED  BY <1>2, <2>1, <2>2 DEF Leases!Release
<1> QED  BY <1>8, <1>9

\* VMs without leases are reclaimed: a counter at zero means no session.
LEMMA RemoveStep ==
    ASSUME IInv, Accounted, Removes
    PROVE  Accounted' /\ Leases!Reclaim({p \in Projects : Stale(p)})
<1>1. \A c \in Conns : InSession(c) => session[c].project \in Projects
  BY DEF IInv, SessionOK
<1>2. \A p \in Projects : SessionThreads(p)' = SessionThreads(p)
  BY DEF Removes, SessionThreads, SameSession
<1>3. ASSUME NEW p \in Projects, Stale(p)
      PROVE  SessionThreads(p) = {}
  <2>1. /\ Cardinality(SessionThreads(p)) \in Nat
        /\ Cardinality(SessionThreads(p)) <= vms[p].active_sessions
        /\ vms[p].active_sessions = 0
    BY <1>3, ThreadsFinite DEF Accounted, Removes
  <2>2. Cardinality(SessionThreads(p)) = 0  BY <2>1
  <2> QED  BY <2>2, ThreadsFinite, FS_EmptySet
<1>4. \A c \in Conns : InSession(c) => ~Stale(session[c].project)
  BY <1>1, <1>3 DEF SessionThreads
<1>5. \A c \in Conns : InSession(c)' => Present(session[c].project)'
  BY <1>1, <1>4 DEF Accounted, Removes, SameSession, SameEntry
<1>6. \A p \in Projects : vms'[p].active_sessions = vms[p].active_sessions
  BY DEF Removes, SameEntry
<1>7. Accounted'  BY <1>2, <1>5, <1>6 DEF Accounted
<1>8. Leases!Reclaim({p \in Projects : Stale(p)})
  <2>1. {p \in Projects : Present(p)}'
           = {p \in Projects : Present(p)} \ {p \in Projects : Stale(p)}
    BY DEF Removes, SameEntry
  <2>2. {p \in Projects : Stale(p)} \subseteq {p \in Projects : Present(p)}
    BY DEF Removes
  <2>3. [p \in Projects |-> SessionThreads(p)]'
           = [p \in Projects |-> SessionThreads(p)]
    BY <1>2
  <2> QED  BY <1>3, <2>1, <2>2, <2>3 DEF Leases!Reclaim
<1> QED  BY <1>7, <1>8

-----------------------------------------------------------------------------

\* No boot fails where none may.
LEMMA NoneFails ==
    ASSUME Undisturbed, IInv, Counted, [Next]_vars
    PROVE  \A c \in Conns : pc'[c] # "failed"
<1> USE DEF IInv
<1>1. CASE \E c \in Conns : Ensure(c)
  BY <1>1 DEF Ensure, EnsureReuse, EnsureConflict, EnsureExhausted, EnsureInsert,
     Counted, TypeOK, Goto
<1>2. CASE \E c \in Conns, S \in SUBSET Projects : Stop(c, S)
  BY <1>2 DEF Stop, Undisturbed
<1>3. CASE \E c \in Conns : Status(c) \/ ClientClose(c)
  BY <1>3 DEF Status, ClientClose, Counted, TypeOK, Goto
<1>4. CASE \E c \in Conns : Proceed(c)
  BY <1>4 DEF Proceed, Boot, BootOk, BootFail, BootCommit, BootUnclaimed, BootAbort,
     DropProcess, WriteReply, WriteReady, WriteReadyFails, Release, Finish, Undisturbed,
     Counted, TypeOK, InSession, Present, Goto
<1>5. CASE ReaperStep \/ (\E p \in Projects : TtlPasses(p)) \/ (\E k \in alive : QemuExit(k))
  BY <1>5 DEF ReaperStep, Reap, ReaperDrop, TtlPasses, QemuExit, Counted
<1>6. CASE UNCHANGED vars  BY <1>6 DEF vars, Counted
<1>7. \A S \in {{p} : p \in Projects} \union {Projects} : S \in SUBSET Projects
  BY DEF Counted
<1> QED  BY <1>1, <1>2, <1>3, <1>4, <1>5, <1>6, <1>7 DEF Next

\* Every step of the pool keeps the accounts and is a step of LeasedVms, or
\* changes nothing there.
LEMMA NextRefines ==
    ASSUME Undisturbed, IInv, Counted, [Next]_vars
    PROVE  Counted' /\ [Leases!Next]_(Leases!vars)
<1> DEFINE stale == {p \in Projects : Stale(p)}
<1>1. \/ Quiet
      \/ \E c \in Conns, p \in Projects : Takes(c, p) \/ Gives(c, p)
      \/ Removes
  BY OtherStepsQuiet
<1>2. Accounted  BY DEF Counted
<1>3. CASE Quiet  BY <1>2, <1>3, NoneFails, QuietStep DEF Counted
<1>4. ASSUME NEW c \in Conns, NEW p \in Projects, Takes(c, p)
      PROVE  Counted' /\ Leases!Next
  BY <1>2, <1>4, NoneFails, TakeStep DEF Counted, Leases!Next
<1>5. ASSUME NEW c \in Conns, NEW p \in Projects, Gives(c, p)
      PROVE  Counted' /\ Leases!Next
  BY <1>2, <1>5, NoneFails, GiveStep DEF Counted, Leases!Next
<1>6. CASE Removes
  <2>1. Accounted' /\ Leases!Reclaim(stale)  BY <1>2, <1>6, RemoveStep
  <2>2. stale \in SUBSET Projects  OBVIOUS
  <2> HIDE DEF stale
  <2>3. Leases!Next  BY <2>1, <2>2 DEF Leases!Next
  <2> QED  BY <2>1, <2>3, NoneFails DEF Counted
<1> QED  BY <1>1, <1>3, <1>4, <1>5, <1>6

\* No VM, no lease.
LEMMA InitRefines == Init => Counted /\ Leases!Init
<1> SUFFICES ASSUME Init PROVE Counted /\ Leases!Init  BY DEF InSession
<1>1. \A p \in Projects : SessionThreads(p) = {} /\ ~Present(p)
  BY DEF Init, SessionThreads, Absent, InSession, Present
<1>2. Counted
  BY <1>1, FS_EmptySet DEF Init, Counted, Accounted, Absent, InSession, Present
<1> QED  BY <1>1, <1>2 DEF Leases!Init

\* Without Stop requests and failed boots, every behaviour of the pool is one
\* of LeasedVms: ensure is Acquire, release is Release, reap is Reclaim and
\* all else is invisible.  A VM stays as long as a connection is in a session
\* with it, clients that leave before their answer included.
THEOREM PoolImplementsLeases ==
    ASSUME Undisturbed PROVE Spec => Leases!SafetySpec
<1>1. IInv /\ Counted /\ [Next]_vars => Counted' /\ [Leases!Next]_(Leases!vars)
  BY NextRefines
<1> QED  BY <1>1, InitRefines, SpecIInv, PTL DEF Spec, Leases!SafetySpec

-----------------------------------------------------------------------------
(* The counters are exact when, besides, no client leaves before its       *)
(* answer.                                                                 *)

Patient == "early_close" \notin Events

\* A client that waits for its answer is there.
Waiting == \A c \in Conns : pc[c] \in {"boot", "launched", "ready"} => open[c]

\* Only a client that holds its VM hangs up.
LEMMA NextWaiting ==
    ASSUME Patient, Undisturbed, IInv, Counted, Waiting, [Next]_vars
    PROVE  Waiting'
<1> USE DEF IInv
<1>1. CASE \E c \in Conns : Ensure(c)
  BY <1>1 DEF Ensure, EnsureReuse, EnsureConflict, EnsureExhausted, EnsureInsert,
     BeginSession, Waiting, TypeOK, Goto
<1>2. CASE \E c \in Conns, S \in SUBSET Projects : Stop(c, S)
  BY <1>2 DEF Stop, Undisturbed
<1>3. CASE \E c \in Conns : Status(c)  BY <1>3 DEF Status, Waiting, Goto
<1>4. CASE \E c \in Conns : ClientClose(c)  BY <1>4 DEF ClientClose, Patient, Waiting
<1>5. CASE \E c \in Conns : Boot(c)
  BY <1>5 DEF Boot, BootOk, BootFail, BootCommit, BootUnclaimed, BootAbort, Waiting,
     TypeOK, Goto
<1>6. CASE \E c \in Conns : \/ \E k \in dropping[c] : DropProcess(c, k)
                            \/ WriteReply(c) \/ WriteReady(c)
                            \/ WriteReadyFails(c) \/ Release(c)
  BY <1>6 DEF DropProcess, WriteReply, WriteReady, WriteReadyFails, Release, Finish,
     Waiting, TypeOK, Goto
<1>7. CASE \/ ReaperStep \/ \E p \in Projects : TtlPasses(p)
           \/ \E k \in alive : QemuExit(k)
  BY <1>7 DEF ReaperStep, Reap, ReaperDrop, TtlPasses, QemuExit, Waiting
<1>8. CASE UNCHANGED vars  BY <1>8 DEF vars, Waiting
<1>9. \A S \in {{p} : p \in Projects} \union {Projects} : S \in SUBSET Projects
  BY DEF Waiting
<1> QED
  BY <1>1, <1>2, <1>3, <1>4, <1>5, <1>6, <1>7, <1>8, <1>9 DEF Next, Proceed, Waiting,
     TypeOK, InSession, Present, Goto, SameSession, SameEntry

\* Every way of changing sessions and entries keeps the counters exact.
LEMMA NextSessionsCounted ==
    ASSUME Undisturbed, IInv, Counted, Waiting, SessionsCounted, [Next]_vars
    PROVE  SessionsCounted'
<1> DEFINE Card(p) == Cardinality(SessionThreads(p))
<1>1. \A p \in Projects : Card(p) \in Nat /\ vms[p].active_sessions = Card(p)
  BY ThreadsFinite, Zenon DEF SessionsCounted
<1>2. CASE Quiet \/ Removes
  <2>1. \A p \in Projects : SessionThreads(p)' = SessionThreads(p)
    BY <1>2 DEF Quiet, Removes, SessionThreads, SameSession
  <2>2. \A p \in Projects : vms'[p].active_sessions = vms[p].active_sessions
    BY <1>2 DEF Quiet, Removes, SameEntry
  <2> QED  BY <2>1, <2>2 DEF SessionsCounted
<1>3. ASSUME NEW c \in Conns, NEW p \in Projects, Takes(c, p)
      PROVE  SessionsCounted'
  <2>1. SessionThreads(p)' = SessionThreads(p) \union {c} /\ c \notin SessionThreads(p)
    BY <1>3 DEF Takes, SessionThreads, SameSession
  <2>2. Card(p)' = Card(p) + 1  BY <2>1, ThreadsFinite, FS_AddElement, Zenon
  <2>3. \A q \in Projects \ {p} : SessionThreads(q)' = SessionThreads(q)
    BY <1>3 DEF Takes, SessionThreads, SameSession
  <2>4. Present(p) \/ Card(p) = 0
    <3>1. SUFFICES ASSUME ~Present(p) PROVE SessionThreads(p) = {}
      BY FS_EmptySet, Zenon
    <3> QED  BY <3>1, Zenon DEF Counted, Accounted, SessionThreads
  <2>5. vms'[p].active_sessions = Card(p)'
    <3> HIDE DEF Card
    <3> QED  BY <1>1, <1>3, <2>2, <2>4 DEF Takes
  <2>6. \A q \in Projects \ {p} : vms'[q].active_sessions = Card(q)'
    BY <1>3, <2>3 DEF SessionsCounted, Takes, SameEntry
  <2> QED  BY <2>5, <2>6 DEF SessionsCounted
<1>4. ASSUME NEW c \in Conns, NEW p \in Projects, Gives(c, p)
      PROVE  SessionsCounted'
  <2>1. SessionThreads(p)' = SessionThreads(p) \ {c} /\ c \in SessionThreads(p)
    BY <1>4 DEF Gives, SessionThreads, SameSession
  <2>2. Card(p)' = Card(p) - 1  BY <2>1, ThreadsFinite, FS_RemoveElement
  <2>3. Card(p) # 0  BY <2>1, ThreadsFinite, FS_EmptySet
  <2>4. \A q \in Projects \ {p} : SessionThreads(q)' = SessionThreads(q)
    BY <1>4 DEF Gives, SessionThreads, SameSession
  <2>5. Present(p)  BY <1>4 DEF Gives, Counted, Accounted
  <2>6. vms'[p].active_sessions = vms[p].active_sessions - 1
    BY <1>1, <1>4, <2>3, <2>5 DEF Gives, Waiting
  <2>7. vms'[p].active_sessions = Card(p)'
    <3> HIDE DEF Card
    <3> QED  BY <1>1, <2>2, <2>6
  <2>8. \A q \in Projects \ {p} : vms'[q].active_sessions = Card(q)'
    BY <1>4, <2>4 DEF SessionsCounted, Gives, SameEntry
  <2> QED  BY <2>7, <2>8 DEF SessionsCounted
<1> QED  BY <1>2, <1>3, <1>4, OtherStepsQuiet

\* An entry counts exactly the sessions of its project, for any number of projects
\* and connections: release balances ensure, however reuse, boots, exits of QEMU
\* and the reaper interleave.  The environment must not stop VMs, fail boots or
\* close a connection before its answer: each of these makes the counter wrong.
THEOREM PoolSessionsCounted ==
    ASSUME Undisturbed, Patient PROVE Spec => []SessionsCounted
<1>1. Init => Counted /\ Waiting /\ SessionsCounted
  <2>1. ASSUME Init PROVE Waiting  BY <2>1 DEF Init, Waiting
  <2>2. ASSUME Init PROVE SessionsCounted
    <3>1. \A p \in Projects : SessionThreads(p) = {}
      BY <2>2 DEF Init, SessionThreads, InSession
    <3>2. \A p \in Projects : Cardinality(SessionThreads(p)) = 0
      BY <3>1, FS_EmptySet, Zenon
    <3>3. \A p \in Projects : vms[p].active_sessions = 0  BY <2>2 DEF Init, Absent
    <3> QED  BY <3>2, <3>3, Zenon DEF SessionsCounted
  <2> QED  BY <2>1, <2>2, InitRefines
<1>2. IInv /\ Counted /\ Waiting /\ SessionsCounted /\ [Next]_vars
         => Counted' /\ Waiting' /\ SessionsCounted'
  BY NextRefines, NextWaiting, NextSessionsCounted
<1> QED  BY <1>1, <1>2, SpecIInv, PTL DEF Spec

=============================================================================
