---------------------------- MODULE ProcessProofs ----------------------------
(***************************************************************************)
(* Proofs about Credentials, for any tasks, ids and capabilities: the      *)
(* capabilities and ids of processes, and the charges of users. Then about *)
(* Process: to credentials a process that shares its files, its memory and *)
(* its parent's time is just one of Credentials, and to what is shared a   *)
(* process with credentials is just one of Sharing, so that what is proved *)
(* of each holds of the composition.                                       *)
(***************************************************************************)
EXTENDS Process, FiniteSetTheorems, WellFoundedInduction, TLAPS

Cred == [state : {"free", "embryo", "live", "zombie"},
         uid : Uids, euid : Uids, suid : Uids, fsuid : Uids,
         gid : Gids, egid : Gids, sgid : Gids, fsgid : Gids,
         effective : SUBSET Caps, permitted : SUBSET Caps,
         keep_capabilities : BOOLEAN, user : Uids]

Reach == [uids : SUBSET Uids, gids : SUBSET Gids]

(* What PowerlessWithoutRoot says of one task, and that those that are     *)
(* excepted include all that drop their root ids with keep_capabilities.   *)
CapsFollowIds(p, excepted) ==
    /\ p.effective \subseteq p.permitted
    /\ p.keep_capabilities => excepted
    /\ Rootless(p) /\ ~excepted => p.permitted = {} /\ p.fsuid # Root

Powerless == \A t \in Tasks : CapsFollowIds(task[t], t \in kept)

Within(p, r) == UidsOf(p) \subseteq r.uids /\ GidsOf(p) \subseteq r.gids

Reached == \A t \in Tasks : Within(task[t], reach[t])

IInv == TypeOK /\ Powerless /\ Reached

------------------------------------------------------------------------------
(* The ids of a task that has no capabilities are among those it had. *)
Confined(p, new) == /\ Ids3(new) \subseteq Ids3(p)
                    /\ UidsOf(new) \subseteq UidsOf(p)
                    /\ GidsOf(new) \subseteq GidsOf(p)

(* Whatever a task becomes, its history covers its ids, when a task that   *)
(* has no capability stays among its ids.                                  *)
LEMMA ReachCovers ==
    ASSUME TypeOK, Reached, NEW t \in Tasks, NEW new \in Cred,
           task[t].permitted = {} => Confined(task[t], new)
    PROVE  /\ ReachAfter(t, new) \in Reach
           /\ Within(new, ReachAfter(t, new))
<1>1. task[t] \in Cred /\ reach[t] \in Reach
  BY DEF TypeOK, Cred, Reach
<1>2. Within(task[t], reach[t])
  BY DEF Reached
<1>3. UidsOf(new) \subseteq Uids /\ GidsOf(new) \subseteq Gids
  BY DEF Cred, UidsOf, GidsOf
<1>4. Everything \in Reach /\ [uids |-> UidsOf(new), gids |-> GidsOf(new)] \in Reach
  BY <1>3 DEF Everything, Reach
<1>5. ReachNow(new) \in Reach /\ Within(new, ReachNow(new))
  BY <1>3, <1>4 DEF ReachNow, Everything, Within
<1>6. CASE task[t].permitted = {} /\ new.permitted = {}
  <2>1. ReachAfter(t, new) = reach[t]
    BY <1>6 DEF ReachAfter
  <2>2. UidsOf(new) \subseteq reach[t].uids /\ GidsOf(new) \subseteq reach[t].gids
    BY <1>2, <1>6 DEF Confined, Within
  <2> QED  BY <1>1, <2>1, <2>2 DEF Within
<1>7. CASE ~(task[t].permitted = {} /\ new.permitted = {})
  BY <1>5, <1>7 DEF ReachAfter
<1> QED  BY <1>6, <1>7

(* A step that changes one task structure and its history. *)
LEMMA OneTaskChanges ==
    ASSUME IInv, NEW c \in Tasks, NEW new \in Cred, NEW r \in Reach,
           task' = [task EXCEPT ![c] = new], reach' = [reach EXCEPT ![c] = r],
           kept' \in {kept, kept \cup {c}, kept \ {c}},
           child' \in [Tasks -> Tasks \cup {None}],
           processes' \in [Uids -> Int], count' \in [Uids -> Int],
           miscounted' \in BOOLEAN,
           CapsFollowIds(new, c \in kept'), Within(new, r)
    PROVE  IInv'
<1>1. task \in [Tasks -> Cred] /\ reach \in [Tasks -> Reach] /\ kept \subseteq Tasks
  BY DEF IInv, TypeOK, Cred, Reach
<1>2. task' \in [Tasks -> Cred] /\ reach' \in [Tasks -> Reach]
  BY <1>1
<1>3. TypeOK'
  BY <1>1, <1>2 DEF TypeOK, Cred, Reach
<1>4. ASSUME NEW s \in Tasks
      PROVE  CapsFollowIds(task'[s], s \in kept') /\ Within(task'[s], reach'[s])
  <2>1. CASE s = c
    BY <2>1, <1>1
  <2>2. CASE s # c
    <3>1. task'[s] = task[s] /\ reach'[s] = reach[s] /\ (s \in kept' <=> s \in kept)
      BY <2>2, <1>1
    <3>2. CapsFollowIds(task[s], s \in kept) /\ Within(task[s], reach[s])
      BY DEF IInv, Powerless, Reached
    <3> QED  BY <3>1, <3>2 DEF CapsFollowIds
  <2> QED  BY <2>1, <2>2
<1> QED  BY <1>3, <1>4 DEF IInv, Powerless, Reached

(* A step by which t becomes new, as long as new is as it should be. *)
LEMMA BecomesKeeps ==
    ASSUME IInv, NEW t \in Tasks, NEW new \in Cred,
           Becomes(t, new), UNCHANGED child, miscounted' \in BOOLEAN,
           kept' \in {kept, kept \cup {t}},
           processes' \in [Uids -> Int], count' \in [Uids -> Int],
           CapsFollowIds(new, t \in kept'),
           task[t].permitted = {} => Confined(task[t], new)
    PROVE  IInv'
<1>1. ReachAfter(t, new) \in Reach /\ Within(new, ReachAfter(t, new))
  BY ReachCovers DEF IInv
<1>2. /\ task' = [task EXCEPT ![t] = new]
      /\ reach' = [reach EXCEPT ![t] = ReachAfter(t, new)]
  BY DEF Becomes
<1>3. child' \in [Tasks -> Tasks \cup {None}]
  BY DEF IInv, TypeOK
<1> QED  BY <1>1, <1>2, <1>3, OneTaskChanges

------------------------------------------------------------------------------
(* User ids *)

LEMMA MovedIsInt ==
    ASSUME NEW from \in Uids, NEW to \in Uids, NEW f \in [Uids -> Int]
    PROVE  Moved(from, to, f) \in [Uids -> Int]
BY DEF Moved

(* The common end of setreuid(), setuid() and setresuid(). *)
LEMMA SetUidsKeeps ==
    ASSUME IInv, NEW t \in Tasks,
           NEW uid \in Uids, NEW euid \in Uids, NEW suid \in Uids,
           capable(t, CAP_SETUID) \/ {uid, euid, suid} \subseteq Ids3(task[t]),
           SetUids(t, uid, euid, suid)
    PROVE  IInv'
<1> DEFINE p == task[t]
           new == [p EXCEPT !.uid = uid, !.euid = euid, !.suid = suid, !.fsuid = euid,
                            !.user = IF uid = p.uid THEN @ ELSE uid]
           final == cap_emulate_setxuid(p, new)
<1>1. p \in Cred /\ CapsFollowIds(p, t \in kept)
  BY DEF IInv, TypeOK, Cred, Powerless
<1>2. /\ new \in Cred
      /\ new.uid = uid /\ new.euid = euid /\ new.suid = suid /\ new.fsuid = euid
      /\ new.permitted = p.permitted /\ new.effective = p.effective
      /\ new.keep_capabilities = p.keep_capabilities
      /\ new.gid = p.gid /\ new.egid = p.egid /\ new.sgid = p.sgid
      /\ new.fsgid = p.fsgid
  BY <1>1 DEF Cred
<1>3. /\ final \in Cred
      /\ final.uid = uid /\ final.euid = euid /\ final.suid = suid /\ final.fsuid = euid
      /\ final.keep_capabilities = p.keep_capabilities
      /\ GidsOf(final) = GidsOf(p)
      /\ final.permitted = IF Drops(p, new) THEN {} ELSE p.permitted
      /\ final.effective \in {{}, p.effective, final.permitted}
      /\ Drops(p, new) => final.effective = {}
  <2> HIDE DEF new
  <2> QED  BY <1>1, <1>2 DEF cap_emulate_setxuid, Cred, GidsOf
<1>4. CapsFollowIds(final, t \in kept)
  <2> HIDE DEF new, final
  <2>1. final.effective \subseteq final.permitted
    BY <1>1, <1>3 DEF CapsFollowIds
  <2>2. final.keep_capabilities => t \in kept
    BY <1>1, <1>3 DEF CapsFollowIds
  <2>3. ASSUME Rootless(final), t \notin kept
        PROVE  final.permitted = {} /\ final.fsuid # Root
    <3>1. Rootless(new) /\ ~new.keep_capabilities
      BY <2>3, <1>1, <1>2, <1>3 DEF Rootless, Ids3, CapsFollowIds
    <3>2. CASE Root \in Ids3(p)
      BY <3>1, <3>2, <2>3, <1>3 DEF Drops, Rootless, Ids3
    <3>3. CASE Root \notin Ids3(p)
      BY <3>3, <2>3, <1>1, <1>3 DEF CapsFollowIds, Rootless, Ids3
    <3> QED  BY <3>2, <3>3
  <2> QED  BY <2>1, <2>2, <2>3 DEF CapsFollowIds
<1>5. p.permitted = {} => Confined(p, final)
  <2> SUFFICES ASSUME p.permitted = {} PROVE Confined(p, final)
    OBVIOUS
  <2> HIDE DEF new, final
  <2>1. {uid, euid, suid} \subseteq Ids3(p)
    BY <1>1 DEF CapsFollowIds, capable
  <2> QED  BY <2>1, <1>3 DEF Confined, Ids3, UidsOf
<1>6. /\ processes' \in [Uids -> Int]
      /\ count' \in [Uids -> Int]
      /\ miscounted' \in BOOLEAN
  <2>1. SetUser(t, new)
    BY DEF SetUids
  <2>2. processes \in [Uids -> Int] /\ count \in [Uids -> Int] /\ p.user \in Uids
    BY <1>1 DEF IInv, TypeOK, Cred
  <2>3. miscounted' \in BOOLEAN
    BY DEF SetUids, IInv, TypeOK
  <2> QED  BY <2>1, <2>2, <2>3, <1>2, MovedIsInt DEF SetUser
<1>7. Becomes(t, final) /\ UNCHANGED <<child, kept, miscounted>>
  BY DEF SetUids
<1> HIDE DEF final
<1> QED  BY <1>3, <1>4, <1>5, <1>6, <1>7, BecomesKeeps

LEMMA SetReUidKeeps ==
    ASSUME IInv, NEW t \in Tasks, NEW r \in AskedUids, NEW e \in AskedUids,
           SetReUid(t, r, e)
    PROVE  IInv'
<1> DEFINE p == task[t]
           s == IF r # NoId \/ (e # NoId /\ e # p.uid) THEN Or(e, p.euid) ELSE p.suid
<1>1. p \in Cred
  BY DEF IInv, TypeOK, Cred
<1>2. Or(r, p.uid) \in Uids /\ Or(e, p.euid) \in Uids /\ s \in Uids
  BY <1>1 DEF Cred, Or, AskedUids
<1>3. SetUids(t, Or(r, p.uid), Or(e, p.euid), s)
  BY DEF SetReUid
<1>4. capable(t, CAP_SETUID) \/ {Or(r, p.uid), Or(e, p.euid), s} \subseteq Ids3(p)
  BY DEF SetReUid, Or, Ids3
<1> QED  BY <1>2, <1>3, <1>4, SetUidsKeeps

LEMMA SetUidKeeps ==
    ASSUME IInv, NEW t \in Tasks, NEW u \in Uids, SetUid(t, u)
    PROVE  IInv'
<1>1. task[t] \in Cred
  BY DEF IInv, TypeOK, Cred
<1>2. task[t].uid \in Uids /\ task[t].suid \in Uids
  BY <1>1 DEF Cred
<1>3. CASE capable(t, CAP_SETUID) /\ SetUids(t, u, u, u)
  BY <1>3, SetUidsKeeps
<1>4. CASE u \in {task[t].uid, task[t].suid} /\ SetUids(t, task[t].uid, u, task[t].suid)
  BY <1>2, <1>4, SetUidsKeeps DEF Ids3
<1> QED  BY <1>3, <1>4 DEF SetUid

LEMMA SetResUidKeeps ==
    ASSUME IInv, NEW t \in Tasks,
           NEW r \in AskedUids, NEW e \in AskedUids, NEW s \in AskedUids,
           SetResUid(t, r, e, s)
    PROVE  IInv'
<1> DEFINE p == task[t]
<1>1. p \in Cred
  BY DEF IInv, TypeOK, Cred
<1>2. Or(r, p.uid) \in Uids /\ Or(e, p.euid) \in Uids /\ Or(s, p.suid) \in Uids
  BY <1>1 DEF Cred, Or, AskedUids
<1>3. capable(t, CAP_SETUID)
         \/ {Or(r, p.uid), Or(e, p.euid), Or(s, p.suid)} \subseteq Ids3(p)
  BY DEF SetResUid, MaySet, Or, Ids3
<1> QED  BY <1>2, <1>3, SetUidsKeeps DEF SetResUid

LEMMA SetFsUidKeeps ==
    ASSUME IInv, NEW t \in Tasks, NEW u \in Uids, SetFsUid(t, u)
    PROVE  IInv'
<1> DEFINE p == task[t]
           new == [p EXCEPT !.fsuid = u, !.effective = FsCapabilities(p, u)]
<1>1. p \in Cred /\ CapsFollowIds(p, t \in kept)
  BY DEF IInv, TypeOK, Cred, Powerless
<1>2. FsCapabilities(p, u) \subseteq p.permitted /\ p.permitted \subseteq Caps
  BY <1>1 DEF FsCapabilities, CapsFollowIds, Cred
<1>3. /\ new \in Cred
      /\ UidsOf(new) = Ids3(p) \cup {u} /\ Ids3(new) = Ids3(p)
      /\ GidsOf(new) = GidsOf(p)
      /\ new.permitted = p.permitted /\ new.effective = FsCapabilities(p, u)
      /\ new.keep_capabilities = p.keep_capabilities /\ new.fsuid = u
  BY <1>1, <1>2 DEF Cred, UidsOf, GidsOf, Ids3
<1>4. p.permitted = {} => u \in UidsOf(p)
  BY <1>1 DEF SetFsUid, capable, CapsFollowIds
<1>5. p.permitted = {} => Confined(p, new)
  BY <1>3, <1>4 DEF Confined, UidsOf, Ids3
<1>6. CapsFollowIds(new, t \in kept)
  BY <1>1, <1>2, <1>3, <1>4 DEF CapsFollowIds, Rootless, UidsOf, Ids3
<1>7. Becomes(t, new) /\ UNCHANGED <<child, processes, count, kept, miscounted>>
  BY DEF SetFsUid
<1>8. /\ processes' \in [Uids -> Int] /\ count' \in [Uids -> Int]
      /\ miscounted' \in BOOLEAN
  BY <1>7 DEF IInv, TypeOK
<1> HIDE DEF new
<1> QED  BY <1>3, <1>5, <1>6, <1>7, <1>8, BecomesKeeps

------------------------------------------------------------------------------
(* Group ids: the capabilities and the user ids stay. *)

LEMMA GidStepKeeps ==
    ASSUME IInv, NEW t \in Tasks, NEW new \in Cred,
           Ids3(new) = Ids3(task[t]), new.fsuid = task[t].fsuid,
           new.permitted = task[t].permitted, new.effective = task[t].effective,
           new.keep_capabilities = task[t].keep_capabilities,
           capable(t, CAP_SETGID) \/ GidsOf(new) \subseteq GidsOf(task[t]),
           Becomes(t, new), UNCHANGED <<child, processes, count, kept, miscounted>>
    PROVE  IInv'
<1> DEFINE p == task[t]
<1>1. CapsFollowIds(p, t \in kept)
  BY DEF IInv, Powerless
<1>2. p.permitted = {} => Confined(p, new)
  BY <1>1 DEF Confined, capable, CapsFollowIds, UidsOf, Ids3
<1>3. CapsFollowIds(new, t \in kept)
  BY <1>1 DEF CapsFollowIds, Rootless
<1>4. /\ processes' \in [Uids -> Int] /\ count' \in [Uids -> Int]
      /\ miscounted' \in BOOLEAN
  BY DEF IInv, TypeOK
<1> QED  BY <1>2, <1>3, <1>4, BecomesKeeps

LEMMA SetGidsKeeps ==
    ASSUME IInv, NEW t \in Tasks, NEW gid \in Gids, NEW egid \in Gids, NEW sgid \in Gids,
           capable(t, CAP_SETGID) \/ {gid, egid, sgid} \subseteq GidsOf(task[t]),
           SetGids(t, gid, egid, sgid)
    PROVE  IInv'
<1> DEFINE p == task[t]
           new == [p EXCEPT !.gid = gid, !.egid = egid, !.sgid = sgid, !.fsgid = egid]
<1>1. p \in Cred
  BY DEF IInv, TypeOK, Cred
<1>2. /\ new \in Cred
      /\ Ids3(new) = Ids3(p) /\ new.fsuid = p.fsuid
      /\ new.permitted = p.permitted /\ new.effective = p.effective
      /\ new.keep_capabilities = p.keep_capabilities
      /\ GidsOf(new) = {gid, egid, sgid}
  BY <1>1 DEF Cred, GidsOf, Ids3
<1>3. Becomes(t, new) /\ UNCHANGED <<child, processes, count, kept, miscounted>>
  BY DEF SetGids
<1> HIDE DEF new
<1> QED  BY <1>2, <1>3, GidStepKeeps

LEMMA SetFsGidKeeps ==
    ASSUME IInv, NEW t \in Tasks, NEW g \in Gids, SetFsGid(t, g)
    PROVE  IInv'
<1> DEFINE p == task[t]
           new == [p EXCEPT !.fsgid = g]
<1>1. p \in Cred
  BY DEF IInv, TypeOK, Cred
<1>2. /\ new \in Cred
      /\ Ids3(new) = Ids3(p) /\ new.fsuid = p.fsuid
      /\ new.permitted = p.permitted /\ new.effective = p.effective
      /\ new.keep_capabilities = p.keep_capabilities
      /\ GidsOf(new) = {p.gid, p.egid, p.sgid, g}
  BY <1>1 DEF Cred, GidsOf, Ids3
<1>3. capable(t, CAP_SETGID) \/ GidsOf(new) \subseteq GidsOf(p)
  BY <1>2 DEF SetFsGid, GidsOf
<1>4. Becomes(t, new) /\ UNCHANGED <<child, processes, count, kept, miscounted>>
  BY DEF SetFsGid
<1> HIDE DEF new
<1> QED  BY <1>2, <1>3, <1>4, GidStepKeeps

LEMMA GidCallsKeep ==
    ASSUME IInv, NEW t \in Tasks,
           \/ \E r, e \in AskedGids : SetReGid(t, r, e)
           \/ \E g \in Gids : SetGid(t, g) \/ SetFsGid(t, g)
           \/ \E r, e, s \in AskedGids : SetResGid(t, r, e, s)
    PROVE  IInv'
<1> DEFINE p == task[t]
<1>1. p \in Cred
  BY DEF IInv, TypeOK, Cred
<1>2. p.gid \in Gids /\ p.egid \in Gids /\ p.sgid \in Gids
  BY <1>1 DEF Cred
<1>3. ASSUME NEW r \in AskedGids, NEW e \in AskedGids, SetReGid(t, r, e)
      PROVE  IInv'
  <2> DEFINE s == IF r # NoId \/ (e # NoId /\ e # p.gid) THEN Or(e, p.egid) ELSE p.sgid
  <2>1. Or(r, p.gid) \in Gids /\ Or(e, p.egid) \in Gids /\ s \in Gids
    BY <1>2 DEF Or, AskedGids
  <2>2. capable(t, CAP_SETGID) \/ {Or(r, p.gid), Or(e, p.egid), s} \subseteq GidsOf(p)
    BY <1>3 DEF SetReGid, Or, GidsOf
  <2> QED  BY <1>3, <2>1, <2>2, SetGidsKeeps DEF SetReGid
<1>4. ASSUME NEW g \in Gids, SetGid(t, g)
      PROVE  IInv'
  <2>1. CASE capable(t, CAP_SETGID) /\ SetGids(t, g, g, g)
    BY <2>1, SetGidsKeeps
  <2>2. CASE g \in {p.gid, p.sgid} /\ SetGids(t, p.gid, g, p.sgid)
    BY <2>2, <1>2, SetGidsKeeps DEF GidsOf
  <2> QED  BY <1>4, <2>1, <2>2 DEF SetGid
<1>5. ASSUME NEW r \in AskedGids, NEW e \in AskedGids, NEW s \in AskedGids,
             SetResGid(t, r, e, s)
      PROVE  IInv'
  <2>1. Or(r, p.gid) \in Gids /\ Or(e, p.egid) \in Gids /\ Or(s, p.sgid) \in Gids
    BY <1>2 DEF Or, AskedGids
  <2>2. capable(t, CAP_SETGID)
           \/ {Or(r, p.gid), Or(e, p.egid), Or(s, p.sgid)} \subseteq GidsOf(p)
    BY <1>5 DEF SetResGid, Or, GidsOf
  <2> QED  BY <1>5, <2>1, <2>2, SetGidsKeeps DEF SetResGid
<1> QED  BY <1>3, <1>4, <1>5, SetFsGidKeeps

------------------------------------------------------------------------------
(* Capabilities *)

LEMMA KeepCapsKeeps ==
    ASSUME IInv, NEW t \in Tasks, NEW keep \in BOOLEAN, KeepCaps(t, keep)
    PROVE  IInv'
<1> DEFINE p == task[t]
           new == [p EXCEPT !.keep_capabilities = keep]
<1>1. p \in Cred /\ CapsFollowIds(p, t \in kept) /\ kept \subseteq Tasks
  BY DEF IInv, TypeOK, Cred, Powerless
<1>2. /\ new \in Cred
      /\ UidsOf(new) = UidsOf(p) /\ Ids3(new) = Ids3(p) /\ GidsOf(new) = GidsOf(p)
      /\ new.permitted = p.permitted /\ new.effective = p.effective
      /\ new.keep_capabilities = keep /\ new.fsuid = p.fsuid
  BY <1>1 DEF Cred, UidsOf, GidsOf, Ids3
<1>3. kept' \in {kept, kept \cup {t}} /\ (keep => t \in kept') /\ kept \subseteq kept'
  BY DEF KeepCaps
<1>4. CapsFollowIds(new, t \in kept')
  BY <1>1, <1>2, <1>3 DEF CapsFollowIds, Rootless
<1>5. p.permitted = {} => Confined(p, new)
  BY <1>2 DEF Confined
<1>6. /\ processes' \in [Uids -> Int] /\ count' \in [Uids -> Int]
      /\ miscounted' \in BOOLEAN
  BY DEF KeepCaps, IInv, TypeOK
<1>7. Becomes(t, new) /\ UNCHANGED <<child, miscounted>>
  BY DEF KeepCaps
<1> HIDE DEF new
<1> QED  BY <1>2, <1>3, <1>4, <1>5, <1>6, <1>7, BecomesKeeps

LEMMA CapSetKeeps ==
    ASSUME IInv, NEW t \in Tasks, NEW e, NEW q, CapSet(t, e, q)
    PROVE  IInv'
<1> DEFINE p == task[t]
           new == [p EXCEPT !.effective = e, !.permitted = q]
<1>1. p \in Cred /\ CapsFollowIds(p, t \in kept)
  BY DEF IInv, TypeOK, Cred, Powerless
<1>2. e \subseteq q /\ q \subseteq p.permitted /\ p.permitted \subseteq Caps
  BY <1>1 DEF CapSet, Cred
<1>3. /\ new \in Cred
      /\ UidsOf(new) = UidsOf(p) /\ Ids3(new) = Ids3(p) /\ GidsOf(new) = GidsOf(p)
      /\ new.permitted = q /\ new.effective = e
      /\ new.keep_capabilities = p.keep_capabilities /\ new.fsuid = p.fsuid
  BY <1>1, <1>2 DEF Cred, UidsOf, GidsOf, Ids3
<1>4. CapsFollowIds(new, t \in kept)
  BY <1>1, <1>2, <1>3 DEF CapsFollowIds, Rootless
<1>5. p.permitted = {} => Confined(p, new)
  BY <1>3 DEF Confined
<1>6. /\ processes' \in [Uids -> Int] /\ count' \in [Uids -> Int]
      /\ miscounted' \in BOOLEAN
  BY DEF CapSet, IInv, TypeOK
<1>7. Becomes(t, new) /\ UNCHANGED <<child, kept, miscounted>>
  BY DEF CapSet
<1> HIDE DEF new
<1> QED  BY <1>3, <1>4, <1>5, <1>6, <1>7, BecomesKeeps

LEMMA ExecKeeps ==
    ASSUME IInv, NEW t \in Tasks, NEW u \in AskedUids, NEW g \in AskedGids,
           Exec(t, u, g)
    PROVE  IInv'
<1> DEFINE p == task[t]
           euid == Or(u, p.euid)
           egid == Or(g, p.egid)
           new == [p EXCEPT !.euid = euid, !.suid = euid, !.fsuid = euid,
                            !.egid = egid, !.sgid = egid, !.fsgid = egid,
                            !.keep_capabilities = FALSE,
                            !.permitted = IF Root \in {p.uid, euid} THEN Caps ELSE {},
                            !.effective = IF euid = Root THEN Caps ELSE {}]
<1>1. p \in Cred /\ kept \subseteq Tasks
  BY DEF IInv, TypeOK, Cred
<1>2. euid \in Uids /\ egid \in Gids
  BY <1>1 DEF Cred, Or, AskedUids, AskedGids
<1>3. /\ new \in Cred
      /\ new.uid = p.uid /\ new.euid = euid /\ new.suid = euid /\ new.fsuid = euid
      /\ new.keep_capabilities = FALSE
      /\ new.permitted = IF Root \in {p.uid, euid} THEN Caps ELSE {}
      /\ new.effective = IF euid = Root THEN Caps ELSE {}
  <2> HIDE DEF euid, egid
  <2> QED  BY <1>1, <1>2 DEF Cred
<1>4. /\ task' = [task EXCEPT ![t] = new]
      /\ reach' = [reach EXCEPT ![t] = ReachNow(new)]
      /\ kept' = kept \ {t}
      /\ UNCHANGED <<child, processes, count, miscounted>>
  BY DEF Exec
<1> HIDE DEF new, euid, egid
<1>5. UidsOf(new) \subseteq Uids /\ GidsOf(new) \subseteq Gids
  BY <1>3 DEF Cred, UidsOf, GidsOf
<1>6. ReachNow(new) \in Reach /\ Within(new, ReachNow(new))
  <2>1. Everything \in Reach /\ [uids |-> UidsOf(new), gids |-> GidsOf(new)] \in Reach
    BY <1>5 DEF Everything, Reach
  <2> QED  BY <1>5, <2>1 DEF ReachNow, Everything, Within
<1>7. CapsFollowIds(new, t \in kept')
  BY <1>3, <1>4 DEF CapsFollowIds, Rootless, Ids3
<1>8. /\ child' \in [Tasks -> Tasks \cup {None}]
      /\ processes' \in [Uids -> Int] /\ count' \in [Uids -> Int]
      /\ miscounted' \in BOOLEAN
  BY <1>4 DEF IInv, TypeOK
<1> QED  BY <1>3, <1>4, <1>6, <1>7, <1>8, OneTaskChanges

LEMMA ReparentKeeps ==
    ASSUME IInv, NEW t \in Tasks, ReparentToInit(t)
    PROVE  IInv'
<1> DEFINE p == task[t]
           new == [p EXCEPT !.effective = Caps, !.permitted = Caps,
                            !.keep_capabilities = FALSE, !.user = Root]
<1>1. p \in Cred /\ kept \subseteq Tasks
  BY DEF IInv, TypeOK, Cred
<1>2. /\ new \in Cred
      /\ UidsOf(new) = UidsOf(p) /\ Ids3(new) = Ids3(p) /\ GidsOf(new) = GidsOf(p)
      /\ new.permitted = Caps /\ new.effective = Caps
      /\ new.keep_capabilities = FALSE
  BY <1>1, IdsAssumption DEF Cred, UidsOf, GidsOf, Ids3
<1>3. /\ Becomes(t, new)
      /\ kept' = kept \cup {t}
      /\ UNCHANGED <<child, processes, count>> /\ miscounted' \in BOOLEAN
  BY DEF ReparentToInit, IInv, TypeOK
<1>4. CapsFollowIds(new, t \in kept')
  BY <1>2, <1>3 DEF CapsFollowIds
<1>5. p.permitted = {} => Confined(p, new)
  BY <1>2 DEF Confined
<1>6. /\ processes' \in [Uids -> Int] /\ count' \in [Uids -> Int]
      /\ miscounted' \in BOOLEAN
  BY <1>3 DEF IInv, TypeOK
<1>7. kept' \in {kept, kept \cup {t}}
  BY <1>3
<1> HIDE DEF new
<1> QED  BY <1>2, <1>3, <1>4, <1>5, <1>6, <1>7, BecomesKeeps

------------------------------------------------------------------------------
(* Processes *)

LEMMA ChargedIsInt ==
    ASSUME NEW u \in Uids, NEW n \in Int, NEW f \in [Uids -> Int]
    PROVE  Charged(u, n, f) \in [Uids -> Int]
BY DEF Charged

LEMMA ForkStartKeeps ==
    ASSUME IInv, NEW t \in Tasks, NEW c \in Tasks, ForkStart(t, c)
    PROVE  IInv'
<1> DEFINE p == task[t]
           new == [p EXCEPT !.state = "embryo"]
<1>1. p \in Cred /\ reach[t] \in Reach /\ p.user \in Uids
  BY DEF IInv, TypeOK, Cred, Reach
<1>2. CapsFollowIds(p, t \in kept) /\ Within(p, reach[t])
  BY DEF IInv, Powerless, Reached
<1>3. /\ new \in Cred
      /\ UidsOf(new) = UidsOf(p) /\ Ids3(new) = Ids3(p) /\ GidsOf(new) = GidsOf(p)
      /\ new.permitted = p.permitted /\ new.effective = p.effective
      /\ new.keep_capabilities = p.keep_capabilities /\ new.fsuid = p.fsuid
  BY <1>1 DEF Cred, UidsOf, GidsOf, Ids3
<1>4. /\ task' = [task EXCEPT ![c] = new]
      /\ reach' = [reach EXCEPT ![c] = reach[t]]
      /\ kept' \in {kept \cup {c}, kept \ {c}}
      /\ c \in kept' <=> t \in kept
      /\ child' = [child EXCEPT ![t] = c]
      /\ UNCHANGED miscounted
  BY DEF ForkStart
<1>5. CapsFollowIds(new, c \in kept') /\ Within(new, reach[t])
  BY <1>2, <1>3, <1>4 DEF CapsFollowIds, Rootless, Within
<1>6. processes' \in [Uids -> Int] /\ count' \in [Uids -> Int]
  <2>1. processes \in [Uids -> Int] /\ count \in [Uids -> Int]
    BY DEF IInv, TypeOK
  <2>2. processes' = Charged(p.user, 1, processes) /\ count' = Charged(p.user, 1, count)
    BY DEF ForkStart
  <2>3. 1 \in Int
    OBVIOUS
  <2> QED  BY <1>1, <2>1, <2>2, <2>3, ChargedIsInt
<1>7. child' \in [Tasks -> Tasks \cup {None}] /\ miscounted' \in BOOLEAN
  BY <1>4 DEF IInv, TypeOK
<1> HIDE DEF new
<1> QED  BY <1>1, <1>3, <1>4, <1>5, <1>6, <1>7, OneTaskChanges

LEMMA FreedKeeps ==
    ASSUME IInv, NEW c \in Tasks, Freed(c), UNCHANGED miscounted,
           child' \in [Tasks -> Tasks \cup {None}]
    PROVE  IInv'
<1>1. task[c].user \in Uids
  BY DEF IInv, TypeOK
<1>2. Unused \in Cred /\ Everything \in Reach
  BY IdsAssumption DEF Unused, InitTask, Cred, Everything, Reach
<1>3. CapsFollowIds(Unused, FALSE) /\ Within(Unused, Everything)
  BY IdsAssumption DEF CapsFollowIds, Within, Unused, InitTask, Rootless, Ids3,
     UidsOf, GidsOf, Everything
<1>4. CapsFollowIds(Unused, c \in kept')
  <2>1. c \notin kept'
    BY DEF Freed
  <2> QED  BY <1>3, <2>1 DEF CapsFollowIds
<1>5. processes' \in [Uids -> Int] /\ count' \in [Uids -> Int]
  <2>1. processes \in [Uids -> Int] /\ count \in [Uids -> Int]
    BY DEF IInv, TypeOK
  <2>2. /\ processes' = Charged(task[c].user, -1, processes)
        /\ count' = Charged(task[c].user, -1, count)
    BY DEF Freed
  <2>3. -1 \in Int
    OBVIOUS
  <2> QED  BY <1>1, <2>1, <2>2, <2>3, ChargedIsInt
<1>6. miscounted' \in BOOLEAN
  BY DEF IInv, TypeOK
<1> QED  BY <1>2, <1>3, <1>4, <1>5, <1>6, OneTaskChanges DEF Freed

(* A task that becomes another state keeps its credentials. *)
LEMMA StateKeeps ==
    ASSUME IInv, NEW c \in Tasks, NEW state \in {"live", "zombie"},
           task' = [task EXCEPT ![c].state = state],
           UNCHANGED <<processes, count, reach, kept, miscounted>>,
           child' \in [Tasks -> Tasks \cup {None}]
    PROVE  IInv'
<1> DEFINE p == task[c]
           new == [p EXCEPT !.state = state]
<1>1. p \in Cred /\ reach \in [Tasks -> Reach]
  BY DEF IInv, TypeOK, Cred, Reach
<1>2. CapsFollowIds(p, c \in kept) /\ Within(p, reach[c])
  BY DEF IInv, Powerless, Reached
<1>3. /\ new \in Cred
      /\ UidsOf(new) = UidsOf(p) /\ Ids3(new) = Ids3(p) /\ GidsOf(new) = GidsOf(p)
      /\ new.permitted = p.permitted /\ new.effective = p.effective
      /\ new.keep_capabilities = p.keep_capabilities /\ new.fsuid = p.fsuid
  BY <1>1 DEF Cred, UidsOf, GidsOf, Ids3
<1>4. CapsFollowIds(new, c \in kept') /\ Within(new, reach[c])
  BY <1>2, <1>3 DEF CapsFollowIds, Rootless, Within
<1>5. task' = [task EXCEPT ![c] = new] /\ reach' = [reach EXCEPT ![c] = reach[c]]
  BY <1>1 DEF IInv, TypeOK
<1>6. /\ processes' \in [Uids -> Int] /\ count' \in [Uids -> Int]
      /\ miscounted' \in BOOLEAN /\ reach[c] \in Reach
  BY <1>1 DEF IInv, TypeOK
<1> HIDE DEF new
<1> QED  BY <1>3, <1>4, <1>5, <1>6, OneTaskChanges

LEMMA ProcessesKeep ==
    ASSUME IInv, NEW t \in Tasks,
           ForkFail(t) \/ ForkLink(t) \/ Exit(t) \/ Release(t)
    PROVE  IInv'
<1>1. child \in [Tasks -> Tasks \cup {None}]
  BY DEF IInv, TypeOK
<1>2. [child EXCEPT ![t] = None] \in [Tasks -> Tasks \cup {None}]
  BY <1>1
<1>3. CASE ForkFail(t)
  BY <1>1, <1>2, <1>3, FreedKeeps DEF ForkFail
<1>4. CASE ForkLink(t)
  BY <1>1, <1>2, <1>4, StateKeeps DEF ForkLink
<1>5. CASE Exit(t)
  BY <1>1, <1>5, StateKeeps DEF Exit
<1>6. CASE Release(t)
  BY <1>1, <1>6, FreedKeeps DEF Release
<1> QED  BY <1>3, <1>4, <1>5, <1>6

------------------------------------------------------------------------------
LEMMA InitKeeps == Init => IInv
<1> SUFFICES ASSUME Init PROVE IInv
  OBVIOUS
<1>1. InitTask \in Cred
  BY IdsAssumption DEF InitTask, Cred
<1>2. Unused \in Cred
  BY <1>1 DEF Unused, Cred
<1>3. Everything \in Reach
  BY DEF Everything, Reach
<1>4. /\ task = [t \in Tasks |-> IF t = FirstTask THEN InitTask ELSE Unused]
      /\ reach = [t \in Tasks |-> Everything] /\ kept = {}
  BY DEF Init
<1>5. TypeOK
  <2>1. task \in [Tasks -> Cred] /\ reach \in [Tasks -> Reach] /\ kept \subseteq Tasks
    BY <1>1, <1>2, <1>3, <1>4
  <2>2. /\ child \in [Tasks -> Tasks \cup {None}] /\ miscounted \in BOOLEAN
        /\ processes \in [Uids -> Int] /\ count \in [Uids -> Int]
    <3>1. child \in [Tasks -> Tasks \cup {None}]
      BY DEF Init
    <3>2. processes \in [Uids -> Int] /\ count \in [Uids -> Int]
      BY DEF Init
    <3>3. miscounted \in BOOLEAN
      BY DEF Init
    <3> QED  BY <3>1, <3>2, <3>3
  <2> QED  BY <2>1, <2>2 DEF TypeOK, Cred, Reach
<1>6. /\ InitTask.effective = InitTask.permitted /\ Unused.effective = Unused.permitted
      /\ ~InitTask.keep_capabilities /\ ~Unused.keep_capabilities
      /\ Root = InitTask.uid /\ Root = Unused.uid
  BY DEF Unused, InitTask
<1>7. ASSUME NEW p \in {InitTask, Unused}
      PROVE  CapsFollowIds(p, FALSE) /\ Within(p, Everything)
  <2>1. CapsFollowIds(p, FALSE)
    BY <1>6 DEF CapsFollowIds, Rootless, Ids3
  <2>2. p \in Cred
    BY <1>1, <1>2
  <2>3. UidsOf(p) \subseteq Uids /\ GidsOf(p) \subseteq Gids
    BY <2>2 DEF Cred, UidsOf, GidsOf
  <2> QED  BY <2>1, <2>3 DEF Within, Everything
<1>8. ASSUME NEW t \in Tasks
      PROVE  CapsFollowIds(task[t], t \in kept) /\ Within(task[t], reach[t])
  <2>1. task[t] \in {InitTask, Unused} /\ reach[t] = Everything /\ (t \in kept <=> FALSE)
    BY <1>4
  <2>2. CapsFollowIds(task[t], FALSE) /\ Within(task[t], Everything)
    BY <1>7, <2>1
  <2> QED  BY <2>1, <2>2 DEF CapsFollowIds
<1> QED  BY <1>5, <1>8 DEF IInv, Powerless, Reached

LEMMA NextKeeps == IInv /\ [Next]_vars => IInv'
<1> SUFFICES ASSUME IInv, [Next]_vars PROVE IInv'
  OBVIOUS
<1>1. CASE UNCHANGED vars
  <2>1. TypeOK'
    BY <1>1 DEF vars, IInv, TypeOK
  <2>2. Powerless'
    BY <1>1 DEF vars, IInv, Powerless, CapsFollowIds, Rootless, Ids3
  <2>3. Reached'
    BY <1>1 DEF vars, IInv, Reached, Within, UidsOf, GidsOf
  <2> QED  BY <2>1, <2>2, <2>3 DEF IInv
<1>2. ASSUME NEW t \in Tasks, IdCall(t)
      PROVE  IInv'
  BY <1>2, SetReUidKeeps, SetUidKeeps, SetFsUidKeeps, SetResUidKeeps, GidCallsKeep,
     KeepCapsKeeps DEF IdCall
<1>3. ASSUME NEW t \in Tasks, NEW e, NEW q, CapSet(t, e, q)
      PROVE  IInv'
  BY <1>3, CapSetKeeps
<1>4. ASSUME NEW t \in Tasks, NEW u \in AskedUids, NEW g \in AskedGids, Exec(t, u, g)
      PROVE  IInv'
  BY <1>4, ExecKeeps
<1>5. ASSUME NEW t \in Tasks, ReparentToInit(t)
      PROVE  IInv'
  BY <1>5, ReparentKeeps
<1>6. ASSUME NEW t \in Tasks, NEW c \in Tasks, ForkStart(t, c)
      PROVE  IInv'
  BY <1>6, ForkStartKeeps
<1>7. ASSUME NEW t \in Tasks, ForkFail(t) \/ ForkLink(t) \/ Exit(t) \/ Release(t)
      PROVE  IInv'
  BY <1>7, ProcessesKeep
<1> QED  BY <1>1, <1>2, <1>3, <1>4, <1>5, <1>6, <1>7 DEF Next

THEOREM Invariant == Spec => []IInv
<1> QED  BY InitKeeps, NextKeeps, PTL DEF Spec

(* The variables have their types. *)
THEOREM TypeCorrect == Spec => []TypeOK
<1>1. IInv => TypeOK
  BY DEF IInv
<1> QED  BY <1>1, Invariant, PTL

(* A process without a root id has no rights that its ids do not give it,  *)
(* unless it asked to keep them: whatever sequence of set*id calls, execs, *)
(* forks and capset calls it made.                                         *)
THEOREM RightsFollowIds == Spec => []PowerlessWithoutRoot
<1>1. IInv => PowerlessWithoutRoot
  BY DEF IInv, Powerless, CapsFollowIds, PowerlessWithoutRoot, Present
<1> QED  BY <1>1, Invariant, PTL

(* From the loss of the last capability to the next exec, no call gives a  *)
(* process an id that it did not have.                                     *)
THEOREM DroppedForGood == Spec => []IdsWithinReach
<1>1. IInv => IdsWithinReach
  BY DEF IInv, Reached, Within, IdsWithinReach, Present
<1> QED  BY <1>1, Invariant, PTL

------------------------------------------------------------------------------
(* Charges *)

(* Each child in the making is an embryo, and belongs to one parent. *)
Links == /\ \A t \in Tasks : child[t] # None => task[child[t]].state = "embryo"
         /\ \A s, t \in Tasks : child[s] # None /\ child[s] = child[t] => s = t

Exact == \A u \in Uids : /\ processes[u] = Cardinality(ChargedTo(u))
                         /\ count[u] = Cardinality(ChargedTo(u))

CInv == IInv /\ Links /\ (~miscounted => Exact)

One(condition) == IF condition THEN 1 ELSE 0

LEMMA MovedAt ==
    ASSUME NEW from \in Uids, NEW to \in Uids, NEW f \in [Uids -> Int], NEW u \in Uids
    PROVE  Moved(from, to, f)[u] = f[u] + One(u = to) - One(u = from)
<1> DEFINE g == [f EXCEPT ![to] = @ + 1]
<1>1. g \in [Uids -> Int] /\ g[u] = f[u] + One(u = to)
  BY DEF One
<1>2. Moved(from, to, f) = [g EXCEPT ![from] = @ - 1]
  BY DEF Moved
<1> HIDE DEF g
<1>3. Moved(from, to, f)[u] = g[u] - One(u = from)
  BY <1>1, <1>2 DEF One
<1> QED  BY <1>1, <1>3 DEF One

LEMMA ChargedAt ==
    ASSUME NEW w \in Uids, NEW n \in Int, NEW f \in [Uids -> Int], NEW u \in Uids
    PROVE  Charged(w, n, f)[u] = f[u] + (IF u = w THEN n ELSE 0)
BY DEF Charged

LEMMA ChargedFinite ==
    \A u : IsFiniteSet(ChargedTo(u)) /\ Cardinality(ChargedTo(u)) \in Nat
<1> TAKE u
<1>1. ChargedTo(u) \subseteq Tasks
  BY DEF ChargedTo, Present
<1> QED  BY <1>1, FiniteAssumption, FS_Subset, FS_CardinalityType

(* When task c alone changes, the number of the tasks that a user is       *)
(* charged for changes by what c was and what c is.                        *)
LEMMA OneChargeChanges ==
    ASSUME NEW c \in Tasks, \A s \in Tasks \ {c} : task'[s] = task[s], NEW u
    PROVE  Cardinality(ChargedTo(u)') =
               Cardinality(ChargedTo(u))
               + One(task'[c].state # "free" /\ task'[c].user = u)
               - One(task[c].state # "free" /\ task[c].user = u)
<1> DEFINE Others == ChargedTo(u) \ {c}
<1>1. IsFiniteSet(Others) /\ Cardinality(Others) \in Nat /\ c \notin Others
  BY ChargedFinite, FS_Subset, FS_CardinalityType
<1>2. /\ Cardinality(Others \cup {c}) = Cardinality(Others) + 1
  BY <1>1, FS_AddElement
<1>3. ChargedTo(u) = IF task[c].state # "free" /\ task[c].user = u
                     THEN Others \cup {c} ELSE Others
  BY DEF ChargedTo, Present
<1>4. ChargedTo(u)' = IF task'[c].state # "free" /\ task'[c].user = u
                      THEN Others \cup {c} ELSE Others
  BY DEF ChargedTo, Present
<1> HIDE DEF Others
<1>5. Cardinality(ChargedTo(u)) =
          Cardinality(Others) + One(task[c].state # "free" /\ task[c].user = u)
  BY <1>1, <1>2, <1>3 DEF One
<1>6. Cardinality(ChargedTo(u)') =
          Cardinality(Others) + One(task'[c].state # "free" /\ task'[c].user = u)
  BY <1>1, <1>2, <1>4 DEF One
<1> QED  BY <1>1, <1>5, <1>6 DEF One

(* A step by which t changes its credentials, and its charge with its user. *)
LEMMA ChangeKeepsCharges ==
    ASSUME CInv, IInv', NEW t \in Tasks,
           \A s \in Tasks \ {t} : task'[s] = task[s],
           task[t].state # "free", task'[t].state = task[t].state,
           UNCHANGED child, miscounted => miscounted',
           ~miscounted' =>
               \/ UNCHANGED <<processes, count>> /\ task'[t].user = task[t].user
               \/ /\ processes' = Moved(task[t].user, task'[t].user, processes)
                  /\ count' = Moved(task[t].user, task'[t].user, count)
    PROVE  CInv'
<1>1. /\ processes \in [Uids -> Int] /\ count \in [Uids -> Int]
      /\ task[t].user \in Uids /\ child \in [Tasks -> Tasks \cup {None}]
  BY DEF CInv, IInv, TypeOK
<1>2. task'[t].user \in Uids
  BY DEF IInv, TypeOK
<1>3. Links'
  <2>1. \A s \in Tasks : task'[s].state = task[s].state
    OBVIOUS
  <2> QED  BY <1>1, <2>1 DEF CInv, Links
<1>4. ASSUME ~miscounted' PROVE Exact'
  <2>1. Exact
    BY <1>4 DEF CInv
  <2> SUFFICES ASSUME NEW u \in Uids
               PROVE  /\ processes'[u] = Cardinality(ChargedTo(u)')
                      /\ count'[u] = Cardinality(ChargedTo(u)')
    BY DEF Exact
  <2>2. Cardinality(ChargedTo(u)') = Cardinality(ChargedTo(u))
            + One(u = task'[t].user) - One(u = task[t].user)
    BY OneChargeChanges DEF One
  <2>3. processes[u] = Cardinality(ChargedTo(u)) /\ count[u] = Cardinality(ChargedTo(u))
    BY <2>1 DEF Exact
  <2>4. Cardinality(ChargedTo(u)) \in Nat
    BY ChargedFinite
  <2>5. /\ Moved(task[t].user, task'[t].user, processes)[u] =
               processes[u] + One(u = task'[t].user) - One(u = task[t].user)
        /\ Moved(task[t].user, task'[t].user, count)[u] =
               count[u] + One(u = task'[t].user) - One(u = task[t].user)
    BY <1>1, <1>2, MovedAt
  <2>6. CASE UNCHANGED <<processes, count>> /\ task'[t].user = task[t].user
    BY <2>2, <2>3, <2>4, <2>6 DEF One
  <2>7. CASE /\ processes' = Moved(task[t].user, task'[t].user, processes)
             /\ count' = Moved(task[t].user, task'[t].user, count)
    BY <2>2, <2>3, <2>5, <2>7
  <2> QED  BY <1>4, <2>6, <2>7
<1> QED  BY <1>3, <1>4 DEF CInv

LEMMA SetUidsKeepsCharges ==
    ASSUME CInv, IInv', NEW t \in Tasks, Calls(t),
           NEW uid \in Uids, NEW euid \in Uids, NEW suid \in Uids,
           SetUids(t, uid, euid, suid)
    PROVE  CInv'
<1> DEFINE p == task[t]
           new == [p EXCEPT !.uid = uid, !.euid = euid, !.suid = suid, !.fsuid = euid,
                            !.user = IF uid = p.uid THEN @ ELSE uid]
           final == cap_emulate_setxuid(p, new)
<1>1. p \in Cred /\ task \in [Tasks -> Cred]
  BY DEF CInv, IInv, TypeOK, Cred
<1>2. /\ new \in Cred /\ new.uid = uid /\ new.state = p.state
      /\ new.user = IF uid = p.uid THEN p.user ELSE uid
  BY <1>1 DEF Cred
<1>3. /\ task' = [task EXCEPT ![t] = final] /\ SetUser(t, new)
      /\ UNCHANGED <<child, kept, miscounted>>
  BY DEF SetUids, Becomes
<1> HIDE DEF new
<1>4. final.state = new.state /\ final.user = new.user
  BY <1>2 DEF cap_emulate_setxuid, Cred
<1> HIDE DEF final
<1>5. task'[t] = final /\ \A s \in Tasks \ {t} : task'[s] = task[s]
  BY <1>1, <1>3
<1>6. \/ UNCHANGED <<processes, count>> /\ final.user = p.user
      \/ /\ processes' = Moved(p.user, final.user, processes)
         /\ count' = Moved(p.user, final.user, count)
  BY <1>2, <1>3, <1>4 DEF SetUser
<1>7. p.state # "free"
  BY DEF Calls
<1> QED  BY <1>2, <1>3, <1>4, <1>5, <1>6, <1>7, ChangeKeepsCharges

(* The other calls of a process about itself leave its user as it is. *)
LEMMA BecomesKeepsCharges ==
    ASSUME CInv, IInv', NEW t \in Tasks, Calls(t), NEW new,
           task' = [task EXCEPT ![t] = new], UNCHANGED <<child, processes, count>>,
           new.state = task[t].state, miscounted => miscounted',
           ~miscounted' => new.user = task[t].user
    PROVE  CInv'
<1>1. task'[t] = new /\ \A s \in Tasks \ {t} : task'[s] = task[s]
  BY DEF CInv, IInv, TypeOK
<1>2. task[t].state # "free"
  BY DEF Calls
<1> QED  BY <1>1, <1>2, ChangeKeepsCharges

LEMMA IdCallKeepsCharges ==
    ASSUME CInv, IInv', NEW t \in Tasks, IdCall(t)
    PROVE  CInv'
<1> DEFINE p == task[t]
<1>1. p \in Cred
  BY DEF CInv, IInv, TypeOK, Cred
<1>2. ASSUME NEW r \in AskedUids, NEW e \in AskedUids, SetReUid(t, r, e)
      PROVE  CInv'
  <2>1. Or(r, p.uid) \in Uids /\ Or(e, p.euid) \in Uids /\ p.suid \in Uids
    BY <1>1 DEF Cred, Or, AskedUids
  <2> QED  BY <1>2, <2>1, SetUidsKeepsCharges DEF SetReUid
<1>3. ASSUME NEW u \in Uids, SetUid(t, u)
      PROVE  CInv'
  <2>1. p.uid \in Uids /\ p.suid \in Uids
    BY <1>1 DEF Cred
  <2> QED  BY <1>3, <2>1, SetUidsKeepsCharges DEF SetUid
<1>4. ASSUME NEW r \in AskedUids, NEW e \in AskedUids, NEW s \in AskedUids,
             SetResUid(t, r, e, s)
      PROVE  CInv'
  <2>1. Or(r, p.uid) \in Uids /\ Or(e, p.euid) \in Uids /\ Or(s, p.suid) \in Uids
    BY <1>1 DEF Cred, Or, AskedUids
  <2> QED  BY <1>4, <2>1, SetUidsKeepsCharges DEF SetResUid
<1>5. ASSUME NEW u \in Uids, SetFsUid(t, u)
      PROVE  CInv'
  <2> DEFINE new == [p EXCEPT !.fsuid = u, !.effective = FsCapabilities(p, u)]
  <2>1. new.state = p.state /\ new.user = p.user
    BY <1>1 DEF Cred
  <2>2. /\ Calls(t) /\ task' = [task EXCEPT ![t] = new]
        /\ UNCHANGED <<child, processes, count, miscounted>>
    BY <1>5 DEF SetFsUid, Becomes
  <2> HIDE DEF new
  <2> QED  BY <2>1, <2>2, BecomesKeepsCharges
<1>6. ASSUME NEW g, NEW e, NEW s, Calls(t), SetGids(t, g, e, s)
      PROVE  CInv'
  <2> DEFINE new == [p EXCEPT !.gid = g, !.egid = e, !.sgid = s, !.fsgid = e]
  <2>1. new.state = p.state /\ new.user = p.user
    BY <1>1 DEF Cred
  <2>2. /\ task' = [task EXCEPT ![t] = new]
        /\ UNCHANGED <<child, processes, count, miscounted>>
    BY <1>6 DEF SetGids, Becomes
  <2> HIDE DEF new
  <2> QED  BY <1>6, <2>1, <2>2, BecomesKeepsCharges
<1>7. ASSUME NEW g, SetFsGid(t, g)
      PROVE  CInv'
  <2> DEFINE new == [p EXCEPT !.fsgid = g]
  <2>1. new.state = p.state /\ new.user = p.user
    BY <1>1 DEF Cred
  <2>2. /\ Calls(t) /\ task' = [task EXCEPT ![t] = new]
        /\ UNCHANGED <<child, processes, count, miscounted>>
    BY <1>7 DEF SetFsGid, Becomes
  <2> HIDE DEF new
  <2> QED  BY <2>1, <2>2, BecomesKeepsCharges
<1>8. ASSUME NEW keep, KeepCaps(t, keep)
      PROVE  CInv'
  <2> DEFINE new == [p EXCEPT !.keep_capabilities = keep]
  <2>1. new.state = p.state /\ new.user = p.user
    BY <1>1 DEF Cred
  <2>2. /\ Calls(t) /\ task' = [task EXCEPT ![t] = new]
        /\ UNCHANGED <<child, processes, count, miscounted>>
    BY <1>8 DEF KeepCaps, Becomes
  <2> HIDE DEF new
  <2> QED  BY <2>1, <2>2, BecomesKeepsCharges
<1>9. ASSUME NEW r, NEW e, NEW s,
             SetReGid(t, r, e) \/ SetGid(t, r) \/ SetResGid(t, r, e, s)
      PROVE  CInv'
  BY <1>6, <1>9 DEF SetReGid, SetGid, SetResGid
<1> QED  BY <1>2, <1>3, <1>4, <1>5, <1>7, <1>8, <1>9 DEF IdCall

(* capset(), exec() and reparent_to_init(). *)
LEMMA RightsKeepCharges ==
    ASSUME CInv, IInv', NEW t \in Tasks, NEW a, NEW b,
           CapSet(t, a, b) \/ Exec(t, a, b) \/ ReparentToInit(t)
    PROVE  CInv'
<1> DEFINE p == task[t]
<1>1. p \in Cred
  BY DEF CInv, IInv, TypeOK, Cred
<1>2. CASE CapSet(t, a, b)
  <2> DEFINE new == [p EXCEPT !.effective = a, !.permitted = b]
  <2>1. new.state = p.state /\ new.user = p.user
    BY <1>1 DEF Cred
  <2>2. /\ Calls(t) /\ task' = [task EXCEPT ![t] = new]
        /\ UNCHANGED <<child, processes, count, miscounted>>
    BY <1>2 DEF CapSet, Becomes
  <2> HIDE DEF new
  <2> QED  BY <2>1, <2>2, BecomesKeepsCharges
<1>3. CASE Exec(t, a, b)
  <2> DEFINE euid == Or(a, p.euid)
             egid == Or(b, p.egid)
             new == [p EXCEPT !.euid = euid, !.suid = euid, !.fsuid = euid,
                              !.egid = egid, !.sgid = egid, !.fsgid = egid,
                              !.keep_capabilities = FALSE,
                              !.permitted = IF Root \in {p.uid, euid} THEN Caps ELSE {},
                              !.effective = IF euid = Root THEN Caps ELSE {}]
  <2>1. new.state = p.state /\ new.user = p.user
    <3> HIDE DEF euid, egid
    <3> QED  BY <1>1 DEF Cred
  <2>2. /\ Calls(t) /\ task' = [task EXCEPT ![t] = new]
        /\ UNCHANGED <<child, processes, count, miscounted>>
    BY <1>3 DEF Exec
  <2> HIDE DEF new
  <2> QED  BY <2>1, <2>2, BecomesKeepsCharges
<1>4. CASE ReparentToInit(t)
  <2> DEFINE new == [p EXCEPT !.effective = Caps, !.permitted = Caps,
                              !.keep_capabilities = FALSE, !.user = Root]
  <2>1. new.state = p.state /\ new.user = Root
    BY <1>1 DEF Cred
  <2>2. /\ Calls(t) /\ task' = [task EXCEPT ![t] = new]
        /\ UNCHANGED <<child, processes, count>>
        /\ miscounted' = (miscounted \/ p.user # Root)
    BY <1>4 DEF ReparentToInit, Becomes
  <2> HIDE DEF new
  <2> QED  BY <2>1, <2>2, BecomesKeepsCharges
<1> QED  BY <1>2, <1>3, <1>4

(* A step by which c begins to count, or ceases to, with its user's charge. *)
LEMMA CountKeepsCharges ==
    ASSUME CInv, IInv', NEW c \in Tasks, NEW owner \in Uids, NEW n \in Int,
           \A s \in Tasks \ {c} : task'[s] = task[s],
           \/ task[c].state = "free" /\ task'[c].state # "free"
              /\ task'[c].user = owner /\ n = 1
           \/ task[c].state # "free" /\ task'[c].state = "free"
              /\ task[c].user = owner /\ n = -1,
           processes' = Charged(owner, n, processes), count' = Charged(owner, n, count),
           UNCHANGED miscounted, Links'
    PROVE  CInv'
<1>1. processes \in [Uids -> Int] /\ count \in [Uids -> Int]
  BY DEF CInv, IInv, TypeOK
<1>2. ASSUME ~miscounted, NEW u \in Uids
      PROVE  /\ processes'[u] = Cardinality(ChargedTo(u)')
             /\ count'[u] = Cardinality(ChargedTo(u)')
  <2>1. Cardinality(ChargedTo(u)') = Cardinality(ChargedTo(u))
            + One(task'[c].state # "free" /\ task'[c].user = u)
            - One(task[c].state # "free" /\ task[c].user = u)
    BY OneChargeChanges
  <2>2. processes[u] = Cardinality(ChargedTo(u)) /\ count[u] = Cardinality(ChargedTo(u))
    BY <1>2 DEF CInv, Exact
  <2>3. Cardinality(ChargedTo(u)) \in Nat
    BY ChargedFinite
  <2>4. /\ Charged(owner, n, processes)[u] = processes[u] + (IF u = owner THEN n ELSE 0)
        /\ Charged(owner, n, count)[u] = count[u] + (IF u = owner THEN n ELSE 0)
    BY <1>1, ChargedAt
  <2> QED  BY <2>1, <2>2, <2>3, <2>4 DEF One
<1>3. ~miscounted' => Exact'
  BY <1>2 DEF Exact
<1> QED  BY <1>3 DEF CInv

LEMMA ProcessesKeepCharges ==
    ASSUME CInv, IInv', NEW t \in Tasks,
           ForkFail(t) \/ ForkLink(t) \/ Exit(t) \/ Release(t)
    PROVE  CInv'
<1>1. /\ task \in [Tasks -> Cred] /\ child \in [Tasks -> Tasks \cup {None}] /\ Links
      /\ reach \in [Tasks -> Reach]
  BY DEF CInv, IInv, TypeOK, Cred, Reach
<1>2. Unused.state = "free"
  BY DEF Unused, InitTask
<1>3. ASSUME NEW c \in Tasks, Freed(c), task[c].state # "free", UNCHANGED miscounted, Links'
      PROVE  CInv'
  <2>1. task'[c] = Unused /\ \A s \in Tasks \ {c} : task'[s] = task[s]
    BY <1>1, <1>3 DEF Freed
  <2>2. task[c].user \in Uids /\ -1 \in Int
    BY <1>1 DEF Cred
  <2>3. /\ processes' = Charged(task[c].user, -1, processes)
        /\ count' = Charged(task[c].user, -1, count)
    BY <1>3 DEF Freed
  <2> QED  BY <1>2, <1>3, <2>1, <2>2, <2>3, CountKeepsCharges
<1>4. CASE ForkFail(t)
  <2>1. child[t] \in Tasks /\ task[child[t]].state = "embryo" /\ Freed(child[t])
    BY <1>1, <1>4 DEF ForkFail, Links
  <2>2. child' = [child EXCEPT ![t] = None] /\ UNCHANGED miscounted
    BY <1>4 DEF ForkFail
  <2>3. \A s \in Tasks \ {child[t]} : task'[s] = task[s]
    BY <1>1, <2>1 DEF Freed
  <2>4. Links'
    BY <1>1, <2>2, <2>3 DEF Links
  <2> QED  BY <1>3, <2>1, <2>2, <2>4
<1>5. CASE Release(t)
  <2>1. task[t].state = "zombie" /\ Freed(t) /\ UNCHANGED <<child, miscounted>>
    BY <1>5 DEF Release
  <2>2. \A s \in Tasks \ {t} : task'[s] = task[s]
    BY <1>1, <2>1 DEF Freed
  <2>3. Links'
    BY <1>1, <2>1, <2>2 DEF Links
  <2> QED  BY <1>3, <2>1, <2>3
<1>6. ASSUME NEW c \in Tasks, NEW state \in {"live", "zombie"}, task[c].state # "free",
             task' = [task EXCEPT ![c].state = state],
             UNCHANGED <<processes, count, miscounted>>, Links'
      PROVE  CInv'
  <2>1. /\ task'[c].state = state /\ task'[c].user = task[c].user
        /\ \A s \in Tasks \ {c} : task'[s] = task[s]
    BY <1>1, <1>6 DEF Cred
  <2>2. \A u : ChargedTo(u)' = ChargedTo(u)
    BY <1>6, <2>1 DEF ChargedTo, Present
  <2>3. Exact => Exact'
    BY <1>6, <2>2 DEF Exact
  <2> QED  BY <1>6, <2>3 DEF CInv
<1>7. CASE ForkLink(t)
  <2>1. child[t] \in Tasks /\ task[child[t]].state = "embryo" 
    BY <1>1, <1>7 DEF ForkLink, Links
  <2>2. /\ task' = [task EXCEPT ![child[t]].state = "live"]
        /\ child' = [child EXCEPT ![t] = None]
        /\ UNCHANGED <<processes, count, miscounted>>
    BY <1>7 DEF ForkLink
  <2>3. \A s \in Tasks \ {child[t]} : task'[s] = task[s]
    BY <1>1, <2>1, <2>2
  <2>4. Links'
    BY <1>1, <2>2, <2>3 DEF Links
  <2> QED  BY <1>6, <2>1, <2>2, <2>4
<1>8. CASE Exit(t)
  <2>1. /\ task[t].state = "live" /\ task' = [task EXCEPT ![t].state = "zombie"]
        /\ UNCHANGED <<child, processes, count, miscounted>>
    BY <1>8 DEF Exit, Calls
  <2>2. \A s \in Tasks \ {t} : task'[s] = task[s]
    BY <1>1, <2>1
  <2>3. Links'
    BY <1>1, <2>1, <2>2 DEF Links
  <2> QED  BY <1>6, <2>1, <2>3
<1> QED  BY <1>4, <1>5, <1>7, <1>8

LEMMA ForkStartKeepsCharges ==
    ASSUME CInv, IInv', NEW t \in Tasks, NEW c \in Tasks, ForkStart(t, c)
    PROVE  CInv'
<1> DEFINE p == task[t]
           new == [p EXCEPT !.state = "embryo"]
<1>1. /\ task \in [Tasks -> Cred] /\ child \in [Tasks -> Tasks \cup {None}] /\ Links
      /\ p.user \in Uids /\ 1 \in Int /\ p \in Cred
  BY DEF CInv, IInv, TypeOK, Cred
<1>2. new.state = "embryo" /\ new.user = p.user
  BY <1>1 DEF Cred
<1>3. /\ task[c].state = "free" /\ task' = [task EXCEPT ![c] = new]
      /\ child' = [child EXCEPT ![t] = c]
      /\ processes' = Charged(p.user, 1, processes)
      /\ count' = Charged(p.user, 1, count)
      /\ UNCHANGED miscounted
  BY DEF ForkStart
<1> HIDE DEF new
<1>4. task'[c] = new /\ \A s \in Tasks \ {c} : task'[s] = task[s]
  BY <1>1, <1>3
<1>5. Links'
  <2>1. \A s \in Tasks : child[s] # c
    BY <1>1, <1>3, TasksAssumption DEF Links
  <2>2. \A s \in Tasks : child'[s] = IF s = t THEN c ELSE child[s]
    BY <1>1, <1>3
  <2>3. ASSUME NEW s \in Tasks, child'[s] # None
        PROVE  task'[child'[s]].state = "embryo"
    BY <1>1, <1>2, <1>4, <2>1, <2>2, <2>3 DEF Links
  <2>4. ASSUME NEW s \in Tasks, NEW r \in Tasks, child'[s] # None, child'[s] = child'[r]
        PROVE  s = r
    BY <1>1, <2>1, <2>2, <2>4 DEF Links
  <2> QED  BY <2>3, <2>4 DEF Links
<1> QED  BY <1>1, <1>2, <1>3, <1>4, <1>5, CountKeepsCharges

LEMMA InitCharges == Init => CInv
<1> SUFFICES ASSUME Init PROVE CInv
  OBVIOUS
<1>1. Links
  BY DEF Init, Links
<1>2. /\ task = [t \in Tasks |-> IF t = FirstTask THEN InitTask ELSE Unused]
      /\ processes = [u \in Uids |-> IF u = Root THEN 1 ELSE 0]
      /\ count = [u \in Uids |-> IF u = Root THEN 1 ELSE 0]
  BY DEF Init
<1>3. /\ InitTask.state = "live" /\ InitTask.user = Root /\ Unused.state = "free"
  BY DEF InitTask, Unused
<1>4. ASSUME NEW u \in Uids
      PROVE  Cardinality(ChargedTo(u)) = IF u = Root THEN 1 ELSE 0
  <2>1. ChargedTo(u) = IF u = Root THEN {FirstTask} ELSE {}
    BY <1>2, <1>3, TasksAssumption DEF ChargedTo, Present
  <2> QED  BY <2>1, FS_EmptySet, FS_Singleton
<1>5. Exact
  BY <1>2, <1>4 DEF Exact
<1> QED  BY <1>1, <1>5, InitKeeps DEF CInv

LEMMA NextKeepsCharges == CInv /\ [Next]_vars => CInv'
<1> SUFFICES ASSUME CInv, [Next]_vars PROVE CInv'
  OBVIOUS
<1>1. IInv'
  BY NextKeeps DEF CInv
<1>2. CASE UNCHANGED vars
  <2>1. Links'
    BY <1>2 DEF vars, CInv, Links
  <2>2. \A u : ChargedTo(u)' = ChargedTo(u)
    BY <1>2 DEF vars, ChargedTo, Present
  <2>3. ~miscounted' => Exact'
    BY <1>2, <2>2 DEF vars, CInv, Exact
  <2> QED  BY <1>1, <2>1, <2>3 DEF CInv
<1>3. ASSUME NEW t \in Tasks, IdCall(t)
      PROVE  CInv'
  BY <1>1, <1>3, IdCallKeepsCharges
<1>4. ASSUME NEW t \in Tasks, NEW a, NEW b,
             CapSet(t, a, b) \/ Exec(t, a, b) \/ ReparentToInit(t)
      PROVE  CInv'
  BY <1>1, <1>4, RightsKeepCharges
<1>5. ASSUME NEW t \in Tasks, NEW c \in Tasks, ForkStart(t, c)
      PROVE  CInv'
  BY <1>1, <1>5, ForkStartKeepsCharges
<1>6. ASSUME NEW t \in Tasks, ForkFail(t) \/ ForkLink(t) \/ Exit(t) \/ Release(t)
      PROVE  CInv'
  BY <1>1, <1>6, ProcessesKeepCharges
<1> QED  BY <1>2, <1>3, <1>4, <1>5, <1>6 DEF Next

(* Whatever forks failed and whatever ids were set, a user is charged for  *)
(* as many processes as it has, and has a reference for each; for any      *)
(* number of processes and users.                                          *)
THEOREM UsersCharged == Spec => []ChargesExact
<1>1. CInv => ChargesExact
  BY DEF CInv, Exact, ChargesExact
<1> QED  BY <1>1, InitCharges, NextKeepsCharges, PTL DEF Spec

------------------------------------------------------------------------------
(* Sharing, of the same tasks. *)

Places == {"free", "embryo", "user", "vfork", "lazy", "exit", "zombie"} \cup sharing!InFork

(* TypeOK, but for the counts that might fall below zero. *)
Shapes ==
    /\ pc \in [Tasks -> Places]
    /\ child \in [Tasks -> sharing!OrNone(Tasks)]
    /\ clone_flags \in [Tasks -> Clones \cup {{}}]
    /\ pointer \in [sharing!Kinds -> [sharing!AllTasks -> sharing!OrNone(Structs)]]
    /\ refs \in [sharing!Kinds -> [Structs -> Int]]
    /\ mm \in [sharing!AllTasks -> sharing!OrNone(Structs)]
    /\ active_mm \in [sharing!AllTasks -> sharing!OrNone(Structs)]
    /\ mms \in [Structs -> [mm_users : Int, mm_count : Int]]
    /\ lazy \in [Tasks -> sharing!OrNone(Structs)]
    /\ current \in sharing!AllTasks
    /\ vfork_done \in [Tasks -> sharing!OrNone(Tasks)]
    /\ done \in [Tasks -> Int]
    /\ lender \in [Tasks -> sharing!OrNone(Tasks)]
    /\ early \subseteq Tasks /\ leaked \subseteq Structs

(* A task in the making has one parent, which is in do_fork() for it. *)
ForkLinked ==
    /\ \A t \in Tasks : IF pc[t] \in sharing!InFork
                        THEN child[t] \in Tasks /\ pc[child[t]] = "embryo"
                        ELSE child[t] = None
    /\ \A c \in Tasks : pc[c] = "embryo" => \E t \in Tasks : child[t] = c
    /\ \A t, u \in Tasks : child[t] # None /\ child[t] = child[u] => t = u

(* What a task has by the place where it is. *)
Fields ==
    /\ current \in Tasks => pc[current] \notin {"free", "embryo"}
    /\ \A t \in Tasks : pc[t] = "lazy" <=> lazy[t] # None
    /\ \A t \in Tasks : pc[t] \in {"free", "lazy", "exit", "zombie"} => mm[t] = None
    /\ mm[Idle] = None
    /\ \A t \in Tasks : pc[t] \in {"free", "embryo", "exit", "zombie"} => lender[t] = None

(* A parent waits for its child, and has one completion to wait for. *)
Vfork ==
    /\ \A p \in Tasks : pc[p] # "vfork" => done[p] = 0
    /\ \A p \in Tasks : done[p] \in {0, 1}
    /\ \A t \in Tasks : pc[t] = "exit" => vfork_done[t] = None
    /\ \A p \in Tasks : pc[p] \in sharing!InFork =>
          vfork_done[child[p]] = IF "VFORK" \in clone_flags[p] THEN p ELSE None
    /\ \A c \in sharing!Alive, p \in Tasks : vfork_done[c] = p => pc[p] = "vfork" /\ done[p] = 0
    /\ \A c, d \in sharing!Alive : vfork_done[c] = vfork_done[d] /\ vfork_done[c] # None
           => c = d
    /\ \A p \in Tasks : pc[p] = "vfork" /\ done[p] = 0
           => \E c \in sharing!Alive : vfork_done[c] = p
    /\ \A p \in Tasks, c \in sharing!Alive \ early : lender[c] = p => vfork_done[c] = p

(* The structures of kind k that task t has a count of its own for. *)
Counts(k, t) == \/ t \notin Tasks \/ pc[t] # "embryo"
                \/ \E p \in Tasks : child[p] = t /\ k \in sharing!CopiedBefore(pc[p])

Having(k, s) == {t \in sharing!AllTasks : pointer[k][t] = s /\ Counts(k, t)}

(* SharingExact, with what the copies of do_fork() leave to be done. *)
Structures ==
    /\ \A k \in sharing!Kinds, s \in Structs : refs[k][s] = Cardinality(Having(k, s))
    /\ \A k \in sharing!Kinds, t \in Tasks :
          /\ pc[t] \in {"free", "zombie"} => pointer[k][t] = None
          /\ pc[t] \in {"user", "vfork", "lazy"} \cup sharing!InFork => pointer[k][t] # None
          /\ pc[t] \in sharing!InFork =>
                IF k \in sharing!CopiedBefore(pc[t]) THEN pointer[k][child[t]] # None
                ELSE pointer[k][child[t]] = pointer[k][t]
    /\ \A k \in sharing!Kinds \ {"sig"} : pointer[k][Idle] # None

(* Task t has what copy_mm() gave it. *)
HasMm(t) == \/ t \notin Tasks \/ pc[t] # "embryo"
            \/ \E p \in Tasks : child[p] = t /\ pc[p] \in {"namespace", "link"}

Inside(m) == {t \in sharing!AllTasks : \/ mm[t] = m /\ HasMm(t)
                                       \/ t \in Tasks /\ lazy[t] = m}

Borrowed(m) == IF mm[current] = None /\ active_mm[current] = m THEN 1 ELSE 0

(* MemoryCounted: only the current task borrows. *)
Memory ==
    /\ active_mm[current] # None
    /\ \A t \in sharing!AllTasks : mm[t] # None => active_mm[t] = mm[t]
    /\ \A t \in sharing!AllTasks \ {current} : HasMm(t) /\ mm[t] = None => active_mm[t] = None
    /\ \A m \in Structs : mms[m].mm_users = Cardinality(Inside(m))
    /\ \A m \in Structs :
          LET exact == Borrowed(m) + (IF mms[m].mm_users = 0 THEN 0 ELSE 1)
          IN  mms[m].mm_count >= exact /\ (m \notin leaked => mms[m].mm_count = exact)

SharingIInv == Shapes /\ ForkLinked /\ Fields /\ Vfork /\ Structures /\ Memory

------------------------------------------------------------------------------
(* Facts about the constants *)

LEMMA SameSize == \A S : sharing!Cardinality(S) = Cardinality(S)
BY DEF sharing!Cardinality, Cardinality

LEMMA SameFinite == \A S : sharing!IsFiniteSet(S) <=> IsFiniteSet(S)
BY DEF sharing!IsFiniteSet, IsFiniteSet

LEMMA LeastNat ==
    ASSUME NEW S \in SUBSET Nat, S # {}
    PROVE  \E m \in S : \A n \in S : m <= n
<1> DEFINE R == OpToRel(<, Nat)
<1>1. IsWellFoundedOn(R, Nat)
  BY NatLessThanWellFounded
<1> HIDE DEF R
<1>2. PICK x \in S : \A y \in S : ~ (<<y, x>> \in R)
  BY <1>1, WFMin
<1>3. \A y \in S : y < x => <<y, x>> \in R
  BY DEF R, OpToRel
<1>4. \A y \in S : ~ (y < x)
  BY <1>2, <1>3
<1>5. \A y \in S : x <= y
  BY <1>4
<1> QED  BY <1>5

LEMMA LowestIn ==
    ASSUME NEW S \in SUBSET Nat, S # {}
    PROVE  sharing!Lowest(S) \in S
BY LeastNat DEF sharing!Lowest

LEMMA InForkIs == sharing!InFork = {"files", "fs", "sig", "mm", "namespace", "link"}
<1>1. DOMAIN sharing!Copies = 1..5
  BY DEF sharing!Copies
<1>2. \A i \in 1..5 : i = 1 \/ i = 2 \/ i = 3 \/ i = 4 \/ i = 5
  OBVIOUS
<1>3. {sharing!Copies[i] : i \in 1..5}
         = {sharing!Copies[1], sharing!Copies[2], sharing!Copies[3],
            sharing!Copies[4], sharing!Copies[5]}
  BY <1>2
<1> QED  BY <1>1, <1>3 DEF sharing!InFork, sharing!Copies

LEMMA Apart ==
    ASSUME sharing!SharersAssumption, sharing!StructsAssumption
    PROVE  /\ Tasks \subseteq sharing!AllTasks /\ Idle \in sharing!AllTasks /\ Idle \notin Tasks
           /\ None \notin sharing!AllTasks /\ None \notin Structs
           /\ IsFiniteSet(sharing!AllTasks)
<1>1. IsFiniteSet(Tasks \cup {Idle})
  BY SameFinite, FS_AddElement DEF sharing!SharersAssumption
<1> QED  BY <1>1 DEF sharing!SharersAssumption, sharing!StructsAssumption, sharing!AllTasks

(* What kmem_cache_alloc() gives is memory of its kind that was free. *)
LEMMA FreshStruct ==
    ASSUME sharing!StructsAssumption, NEW k, sharing!FreeStructs(k) # {}
    PROVE  /\ sharing!Lowest(sharing!FreeStructs(k)) \in Structs
           /\ refs[k][sharing!Lowest(sharing!FreeStructs(k))] = 0
<1>1. sharing!FreeStructs(k) \in SUBSET Nat
  BY DEF sharing!FreeStructs, sharing!StructsAssumption
<1>2. sharing!Lowest(sharing!FreeStructs(k)) \in sharing!FreeStructs(k)
  BY <1>1, LowestIn
<1> QED  BY <1>2 DEF sharing!FreeStructs

LEMMA FreshMm ==
    ASSUME sharing!StructsAssumption, sharing!FreeMms # {}
    PROVE  /\ sharing!Lowest(sharing!FreeMms) \in Structs
           /\ mms[sharing!Lowest(sharing!FreeMms)].mm_count = 0
<1>1. sharing!FreeMms \in SUBSET Nat
  BY DEF sharing!FreeMms, sharing!StructsAssumption
<1>2. sharing!Lowest(sharing!FreeMms) \in sharing!FreeMms
  BY <1>1, LowestIn
<1> QED  BY <1>2 DEF sharing!FreeMms

------------------------------------------------------------------------------
(* Shapes *)

Counters == [Structs -> [mm_users : Int, mm_count : Int]]

LEMMA MmShapes ==
    ASSUME NEW ms \in Counters, NEW m \in Structs
    PROVE  /\ sharing!grab(ms, m) \in Counters /\ sharing!mmdrop(ms, m) \in Counters
           /\ sharing!mmput(ms, m) \in Counters /\ sharing!mm_init(ms, m) \in Counters
<1>1. ms[m] \in [mm_users : Int, mm_count : Int]
  BY DEF Counters
<1>2. sharing!mmdrop(ms, m) \in Counters
  BY <1>1 DEF Counters, sharing!mmdrop
<1>3. [ms EXCEPT ![m].mm_users = @ - 1] \in Counters
  BY <1>1 DEF Counters
<1>4. sharing!grab(ms, m) \in Counters
  BY <1>1 DEF Counters, sharing!grab
<1>5. sharing!mm_init(ms, m) \in Counters
  BY DEF Counters, sharing!mm_init
<1>6. sharing!mmput(ms, m) \in Counters
  <2> DEFINE less == [ms EXCEPT ![m].mm_users = @ - 1]
  <2>1. less[m] \in [mm_users : Int, mm_count : Int]
    BY <1>3 DEF Counters
  <2>2. sharing!mmdrop(less, m) \in Counters
    <3> less \in Counters
      BY <1>3
    <3> HIDE DEF less
    <3> QED  BY <2>1 DEF Counters, sharing!mmdrop
  <2> QED  BY <1>3, <2>2 DEF sharing!mmput
<1> QED  BY <1>2, <1>4, <1>5, <1>6

(* Every place where __exit_mm() is called leaves the counters counters. *)
LEMMA UnmappedShape ==
    ASSUME Shapes, NEW t \in sharing!AllTasks
    PROVE  sharing!Unmapped(t) \in Counters
<1>1. mms \in Counters /\ mm[t] \in sharing!OrNone(Structs)
  BY DEF Shapes, Counters
<1>2. CASE mm[t] = None
  BY <1>1, <1>2 DEF sharing!Unmapped
<1>3. CASE mm[t] \in Structs
  <2>1. sharing!grab(mms, mm[t]) \in Counters
    BY <1>1, <1>3, MmShapes
  <2>2. sharing!mmput(sharing!grab(mms, mm[t]), mm[t]) \in Counters
    BY <1>3, <2>1, MmShapes
  <2> QED  BY <1>1, <2>2 DEF sharing!Unmapped
<1> QED  BY <1>1, <1>2, <1>3 DEF sharing!OrNone

LEMMA GivenUpShape ==
    ASSUME Shapes, NEW t \in sharing!AllTasks, NEW K,
           \A k \in sharing!Kinds : k \in K => pointer[k][t] \in Structs
    PROVE  sharing!GivenUp(t, K) \in [sharing!Kinds -> [Structs -> Int]]
<1>1. ASSUME NEW k \in sharing!Kinds
      PROVE  [refs[k] EXCEPT ![pointer[k][t]] = @ - 1] \in [Structs -> Int] \/ k \notin K
  <2>1. refs[k] \in [Structs -> Int]
    BY DEF Shapes
  <2> QED  BY <2>1
<1>2. \A k \in sharing!Kinds : refs[k] \in [Structs -> Int]
  BY DEF Shapes
<1> QED  BY <1>1, <1>2 DEF sharing!GivenUp

LEMMA WithoutShape ==
    ASSUME Shapes, NEW t \in sharing!AllTasks, NEW K
    PROVE  sharing!Without(t, K) \in [sharing!Kinds -> [sharing!AllTasks -> sharing!OrNone(Structs)]]
BY DEF sharing!Without, Shapes, sharing!OrNone

LEMMA MmReleaseShape ==
    ASSUME Shapes, NEW t \in Tasks, sharing!MmRelease(t)
    PROVE  /\ vfork_done' \in [Tasks -> sharing!OrNone(Tasks)]
           /\ done' \in [Tasks -> Int]
<1>1. vfork_done[t] \in sharing!OrNone(Tasks)
  BY DEF Shapes
<1>2. vfork_done' \in [Tasks -> sharing!OrNone(Tasks)]
  BY DEF Shapes, sharing!MmRelease, sharing!OrNone
<1>3. done' \in [Tasks -> Int]
  BY <1>1 DEF Shapes, sharing!MmRelease, sharing!OrNone
<1> QED  BY <1>2, <1>3

LEMMA ExitMmShape ==
    ASSUME Shapes, sharing!SharersAssumption, sharing!StructsAssumption, NEW t \in Tasks,
           sharing!ExitMm(t)
    PROVE  /\ vfork_done' \in [Tasks -> sharing!OrNone(Tasks)]
           /\ done' \in [Tasks -> Int]
           /\ mms' \in Counters
           /\ mm' \in [sharing!AllTasks -> sharing!OrNone(Structs)]
           /\ lender' \in [Tasks -> sharing!OrNone(Tasks)]
           /\ early' \subseteq Tasks
<1>1. sharing!MmRelease(t) /\ t \in sharing!AllTasks
  BY Apart DEF sharing!ExitMm
<1> QED  BY <1>1, MmReleaseShape, UnmappedShape DEF sharing!ExitMm, Shapes, sharing!OrNone

(* The parent and the child of a call of do_fork(). *)
LEMMA ParentAndChild ==
    ASSUME sharing!SharersAssumption, Shapes, ForkLinked, NEW t \in Tasks,
           pc[t] \in sharing!InFork
    PROVE  /\ child[t] \in Tasks /\ child[t] # t /\ pc[child[t]] = "embryo"
           /\ \A p \in Tasks : child[p] = child[t] => p = t
<1>1. child[t] \in Tasks /\ pc[child[t]] = "embryo"
  BY DEF ForkLinked
<1>2. child[t] # t
  BY <1>1, InForkIs
<1>3. child[t] # None
  BY <1>1 DEF sharing!SharersAssumption, sharing!AllTasks
<1> QED  BY <1>1, <1>2, <1>3 DEF ForkLinked

LEMMA ShapesKept ==
    ASSUME sharing!SharersAssumption, sharing!StructsAssumption, SharingIInv, sharing!Next
    PROVE  Shapes'
<1> USE DEF sharing!OrNone
<1> /\ Tasks \subseteq sharing!AllTasks /\ Idle \in sharing!AllTasks /\ Idle \notin Tasks
    /\ None \notin sharing!AllTasks /\ None \notin Structs
  BY Apart
<1>0. /\ Shapes /\ ForkLinked /\ Fields /\ Structures
      /\ mms \in Counters
  BY DEF SharingIInv, Shapes, Counters
<1>1. ASSUME NEW t \in Tasks, NEW c \in Tasks, NEW flags \in Clones,
             sharing!ForkStart(t, c, flags)
      PROVE  Shapes'
  <2>1. pc' \in [Tasks -> Places]
    BY <1>0, <1>1, InForkIs DEF sharing!ForkStart, Shapes, Places
  <2>2. pointer' \in [sharing!Kinds -> [sharing!AllTasks -> sharing!OrNone(Structs)]]
    BY <1>0, <1>1 DEF sharing!ForkStart, Shapes
  <2>3. /\ mm' \in [sharing!AllTasks -> sharing!OrNone(Structs)]
        /\ active_mm' \in [sharing!AllTasks -> sharing!OrNone(Structs)]
        /\ vfork_done' \in [Tasks -> sharing!OrNone(Tasks)]
    BY <1>0, <1>1 DEF sharing!ForkStart, Shapes
  <2> QED  BY <1>0, <1>1, <2>1, <2>2, <2>3 DEF sharing!ForkStart, Shapes
<1>2. ASSUME NEW t \in Tasks, NEW k \in sharing!Kinds, sharing!Copy(t, k)
      PROVE  Shapes'
  <2>1. pc' \in [Tasks -> Places]
    BY <1>0, <1>2, InForkIs DEF sharing!Copy, Shapes, Places, sharing!NextCopy, sharing!Kinds
  <2>2. pc[t] \in sharing!InFork /\ child[t] \in Tasks
    BY <1>0, <1>2, InForkIs, ParentAndChild DEF sharing!Copy, sharing!Runs, sharing!Kinds
  <2>3. refs' \in [sharing!Kinds -> [Structs -> Int]]
        /\ pointer' \in [sharing!Kinds -> [sharing!AllTasks -> sharing!OrNone(Structs)]]
    <3>1. CASE sharing!Shared(t, k)
      <4>1. pointer[k][t] \in Structs
        BY <1>0, <2>2 DEF Shapes, Structures
      <4>2. [refs[k] EXCEPT ![pointer[k][t]] = @ + 1] \in [Structs -> Int]
        BY <1>0, <4>1 DEF Shapes
      <4>3. refs' = [refs EXCEPT ![k] = [refs[k] EXCEPT ![pointer[k][t]] = @ + 1]]
            /\ UNCHANGED pointer
        BY <1>2, <3>1 DEF sharing!Copy
      <4> QED  BY <1>0, <4>2, <4>3 DEF Shapes
    <3>2. CASE ~sharing!Shared(t, k)
      <4>1. sharing!Lowest(sharing!FreeStructs(k)) \in Structs
        BY <1>2, <3>2, FreshStruct DEF sharing!Copy
      <4>2. PICK s \in Structs : s = sharing!Lowest(sharing!FreeStructs(k))
        BY <4>1
      <4>3. [refs[k] EXCEPT ![s] = 1] \in [Structs -> Int]
            /\ [pointer[k] EXCEPT ![child[t]] = s] \in [sharing!AllTasks -> sharing!OrNone(Structs)]
        BY <1>0, <2>2 DEF Shapes
      <4>4. /\ refs' = [refs EXCEPT ![k] = [refs[k] EXCEPT ![s] = 1]]
            /\ pointer' = [pointer EXCEPT ![k] = [pointer[k] EXCEPT ![child[t]] = s]]
        BY <1>2, <3>2, <4>2 DEF sharing!Copy
      <4> QED  BY <1>0, <4>3, <4>4 DEF Shapes
    <3> QED  BY <3>1, <3>2
  <2> QED  BY <1>0, <1>2, <2>1, <2>3 DEF sharing!Copy, Shapes
<1>3. ASSUME NEW t \in Tasks, sharing!CopyMm(t)
      PROVE  Shapes'
  <2>1. pc' \in [Tasks -> Places]
    BY <1>0, <1>3, InForkIs DEF sharing!CopyMm, Shapes, Places
  <2>2. pc[t] \in sharing!InFork /\ child[t] \in Tasks
    BY <1>0, <1>3, InForkIs, ParentAndChild DEF sharing!CopyMm, sharing!Runs
  <2>3. mms' \in Counters
    <3>1. \A m \in Structs : mms[m] \in [mm_users : Int, mm_count : Int]
      BY <1>0 DEF Shapes
    <3>2. ASSUME sharing!FreeMms # {}
          PROVE  sharing!mm_init(mms, sharing!Lowest(sharing!FreeMms)) \in Counters
      BY <1>0, <3>2, FreshMm, MmShapes
    <3>3. \A m \in Structs : [mms EXCEPT ![m].mm_users = @ + 1] \in Counters
      BY <1>0, <3>1 DEF Counters
    <3>4. mm[t] \in sharing!OrNone(Structs)
      BY <1>0 DEF Shapes
    <3> QED  BY <1>0, <1>3, <3>2, <3>3, <3>4 DEF sharing!CopyMm
  <2>4. mm' \in [sharing!AllTasks -> sharing!OrNone(Structs)]
            /\ active_mm' \in [sharing!AllTasks -> sharing!OrNone(Structs)]
    BY <1>0, <1>3, <2>2 DEF sharing!CopyMm, Shapes
  <2> QED  BY <1>0, <1>3, <2>1, <2>3, <2>4 DEF sharing!CopyMm, Shapes, Counters
<1>4. ASSUME NEW t \in Tasks, sharing!CopyNamespace(t)
      PROVE  Shapes'
  BY <1>0, <1>4, InForkIs DEF sharing!CopyNamespace, Shapes, Places
<1>5. ASSUME NEW t \in Tasks, sharing!ForkFail(t)
      PROVE  Shapes'
  <2>1. pc[t] \in sharing!InFork /\ child[t] \in Tasks
    BY <1>0, <1>5, ParentAndChild DEF sharing!ForkFail
  <2>2. pc' \in [Tasks -> Places]
    BY <1>0, <1>5, <2>1 DEF sharing!ForkFail, Shapes, Places
  <2>3. \A k \in sharing!Kinds : k \in sharing!Undone(pc[t]) => pointer[k][child[t]] \in Structs
    BY <1>0, <2>1 DEF Structures, sharing!Undone, Shapes
  <2>4. refs' \in [sharing!Kinds -> [Structs -> Int]]
        /\ pointer' \in [sharing!Kinds -> [sharing!AllTasks -> sharing!OrNone(Structs)]]
    BY <1>0, <1>5, <2>1, <2>3, GivenUpShape, WithoutShape DEF sharing!ForkFail
  <2>5. vfork_done' \in [Tasks -> sharing!OrNone(Tasks)] /\ done' \in [Tasks -> Int]
    <3>1. CASE pc[t] = "namespace"
      BY <1>0, <1>5, <3>1, MmReleaseShape DEF sharing!ForkFail
    <3>2. CASE pc[t] # "namespace"
      BY <1>0, <1>5, <2>1, <3>2 DEF sharing!ForkFail, Shapes
    <3> QED  BY <3>1, <3>2
  <2>6. mms' \in Counters
    BY <1>0, <1>5, <2>1, UnmappedShape DEF sharing!ForkFail
  <2>7. leaked' \subseteq Structs /\ early' \subseteq Tasks
    BY <1>0, <1>5, <2>1 DEF sharing!ForkFail, Shapes
  <2>8. mm' \in [sharing!AllTasks -> sharing!OrNone(Structs)]
            /\ active_mm' \in [sharing!AllTasks -> sharing!OrNone(Structs)]
    BY <1>0, <1>5, <2>1 DEF sharing!ForkFail, Shapes
  <2>9. child' \in [Tasks -> sharing!OrNone(Tasks)] /\ clone_flags' \in [Tasks -> Clones \cup {{}}]
    BY <1>0, <1>5 DEF sharing!ForkFail, Shapes
  <2> QED  BY <1>0, <1>5, <2>2, <2>4, <2>5, <2>6, <2>7, <2>8, <2>9
           DEF sharing!ForkFail, Shapes, Counters

<1>6. ASSUME NEW t \in Tasks, sharing!ForkLink(t)
      PROVE  Shapes'
  <2>1. pc[t] \in sharing!InFork /\ child[t] \in Tasks
    BY <1>0, <1>6, InForkIs, ParentAndChild DEF sharing!ForkLink, sharing!Runs
  <2>2. pc' \in [Tasks -> Places]
    BY <1>0, <1>6, <2>1 DEF sharing!ForkLink, Shapes, Places
  <2> QED  BY <1>0, <1>6, <2>1, <2>2 DEF sharing!ForkLink, Shapes
<1>7. ASSUME NEW t \in Tasks, sharing!VforkReturn(t)
      PROVE  Shapes'
  BY <1>0, <1>7 DEF sharing!VforkReturn, Shapes, Places
<1>8. ASSUME NEW t \in Tasks, sharing!Exit(t)
      PROVE  Shapes'
  BY <1>0, <1>8, ExitMmShape DEF sharing!Exit, Shapes, Places, Counters
<1>9. ASSUME NEW t \in Tasks, NEW k \in sharing!Kinds, sharing!ExitNext(t, k)
      PROVE  Shapes'
  <2>1. pointer[k][t] \in Structs
    BY <1>0, <1>9 DEF sharing!ExitNext, Shapes
  <2>2. \A j \in sharing!Kinds : j \in {k} => pointer[j][t] \in Structs
    BY <2>1
  <2> QED  BY <1>0, <1>9, <2>2, GivenUpShape, WithoutShape DEF sharing!ExitNext, Shapes
<1>10. ASSUME NEW t \in Tasks, sharing!ExitNotify(t) \/ sharing!Release(t)
       PROVE  Shapes'
  BY <1>0, <1>10 DEF sharing!ExitNotify, sharing!Release, Shapes, Places
<1>11. ASSUME NEW t \in Tasks, sharing!Daemonize(t)
       PROVE  Shapes'
  <2> DEFINE taken == {"files", "fs"}
  <2>1. \A k \in taken : /\ pointer[k][t] \in Structs /\ pointer[k][Idle] \in Structs
                         /\ k \in sharing!Kinds
    BY <1>0, <1>11 DEF sharing!Daemonize, sharing!Runs, Shapes, Structures, sharing!Kinds
  <2>2. sharing!GivenUp(t, taken) \in [sharing!Kinds -> [Structs -> Int]]
    BY <1>0, <2>1, GivenUpShape
  <2>3. \A k \in taken :
           [sharing!GivenUp(t, taken)[k] EXCEPT ![pointer[k][Idle]] = @ + 1] \in [Structs -> Int]
    BY <2>1, <2>2
  <2>4. refs' \in [sharing!Kinds -> [Structs -> Int]]
    BY <1>0, <1>11, <2>3 DEF sharing!Daemonize, Shapes
  <2>5. pointer' \in [sharing!Kinds -> [sharing!AllTasks -> sharing!OrNone(Structs)]]
    BY <1>0, <1>11, <2>1 DEF sharing!Daemonize, Shapes
  <2> QED  BY <1>0, <1>11, <2>4, <2>5, ExitMmShape DEF sharing!Daemonize, Shapes, Counters
<1>12. ASSUME NEW t \in Tasks, sharing!Exec(t)
       PROVE  Shapes'
  <2>1. mm[t] \in Structs
    BY <1>0, <1>12 DEF sharing!Exec, Shapes
  <2>2. /\ mm' \in [sharing!AllTasks -> sharing!OrNone(Structs)]
        /\ active_mm' \in [sharing!AllTasks -> sharing!OrNone(Structs)]
        /\ mms' \in Counters
    <3>1. CASE UNCHANGED <<mm, active_mm, mms>>
      BY <1>0, <3>1 DEF Shapes
    <3>2. CASE ~UNCHANGED <<mm, active_mm, mms>>
      <4>1. sharing!FreeMms # {}
        BY <1>12, <3>2 DEF sharing!Exec
      <4>2. PICK m \in Structs : m = sharing!Lowest(sharing!FreeMms)
        BY <4>1, FreshMm
      <4>3. sharing!mmput(sharing!mm_init(mms, m), mm[t]) \in Counters
        BY <1>0, <2>1, MmShapes
      <4>4. /\ mm' = [mm EXCEPT ![t] = m] /\ active_mm' = [active_mm EXCEPT ![t] = m]
            /\ mms' = sharing!mmput(sharing!mm_init(mms, m), mm[t])
        BY <1>12, <3>2, <4>2 DEF sharing!Exec
      <4> QED  BY <1>0, <4>3, <4>4 DEF Shapes
    <3> QED  BY <3>1, <3>2
  <2>3. vfork_done' \in [Tasks -> sharing!OrNone(Tasks)] /\ done' \in [Tasks -> Int]
    BY <1>0, <1>12, MmReleaseShape DEF sharing!Exec
  <2> QED  BY <1>0, <1>12, <2>2, <2>3 DEF sharing!Exec, Shapes, Counters
<1>13. ASSUME NEW t \in Tasks, sharing!StartLazy(t)
       PROVE  Shapes'
  <2>1. mm[t] \in Structs
    BY <1>0, <1>13 DEF sharing!StartLazy, Shapes
  <2>2. mms' \in Counters
    BY <1>0, <1>13, <2>1, MmShapes DEF sharing!StartLazy
  <2> QED  BY <1>0, <1>13, <2>1, <2>2 DEF sharing!StartLazy, Shapes, Places, Counters
<1>14. ASSUME NEW t \in Tasks, sharing!EndLazy(t)
       PROVE  Shapes'
  <2>1. active_mm[t] \in Structs /\ lazy[t] \in Structs
    BY <1>0, <1>14 DEF sharing!EndLazy, sharing!Runs, Shapes, Memory, Fields, SharingIInv
  <2>2. mms' \in Counters
    BY <1>0, <1>14, <2>1, MmShapes DEF sharing!EndLazy
  <2> QED  BY <1>0, <1>14, <2>1, <2>2 DEF sharing!EndLazy, Shapes, Places, Counters
<1>15. ASSUME NEW next \in sharing!AllTasks, sharing!Switch(next)
       PROVE  Shapes'
  <2>1. active_mm[current] \in Structs
    BY <1>0 DEF Shapes, Memory, SharingIInv
  <2>2. mms' \in Counters
    BY <1>0, <1>15, <2>1, MmShapes DEF sharing!Switch, sharing!Switched
  <2>3. active_mm' \in [sharing!AllTasks -> sharing!OrNone(Structs)]
    BY <1>0, <1>15, <2>1 DEF sharing!Switch, Shapes
  <2> QED  BY <1>0, <1>15, <2>2, <2>3 DEF sharing!Switch, Shapes, Counters
<1> QED  BY <1>1, <1>2, <1>3, <1>4, <1>5, <1>6, <1>7, <1>8, <1>9, <1>10, <1>11, <1>12,
            <1>13, <1>14, <1>15 DEF sharing!Next

------------------------------------------------------------------------------
(* Links and Fields *)

(* Links depends on who is where only as far as do_fork() is concerned. *)
LEMMA SameLinks ==
    ASSUME Shapes, ForkLinked, UNCHANGED child, NEW t \in Tasks, NEW p \in Places,
           pc' = [pc EXCEPT ![t] = p],
           p \in sharing!InFork <=> pc[t] \in sharing!InFork,
           p = "embryo" <=> pc[t] = "embryo"
    PROVE  ForkLinked'
<1>1. \A u \in Tasks : /\ pc'[u] \in sharing!InFork <=> pc[u] \in sharing!InFork
                       /\ pc'[u] = "embryo" <=> pc[u] = "embryo"
  BY DEF Shapes
<1> QED  BY <1>1 DEF ForkLinked, Shapes, sharing!OrNone

LEMMA LinksKept ==
    ASSUME sharing!SharersAssumption, sharing!StructsAssumption, SharingIInv, sharing!Next
    PROVE  ForkLinked'
<1> USE DEF sharing!OrNone
<1> /\ Tasks \subseteq sharing!AllTasks /\ Idle \in sharing!AllTasks /\ Idle \notin Tasks
    /\ None \notin sharing!AllTasks /\ None \notin Structs
  BY Apart
<1>0. Shapes /\ ForkLinked /\ Fields
  BY DEF SharingIInv
<1>1. ASSUME NEW t \in Tasks, NEW c \in Tasks, NEW flags \in Clones,
             sharing!ForkStart(t, c, flags)
      PROVE  ForkLinked'
  <2>1. /\ t # c /\ pc[t] = "user" /\ pc[c] = "free"
        /\ \A u \in Tasks : pc'[u] = IF u = t THEN "files" ELSE IF u = c THEN "embryo" ELSE pc[u]
        /\ \A u \in Tasks : child'[u] = IF u = t THEN c ELSE child[u]
    BY <1>0, <1>1 DEF sharing!ForkStart, sharing!Runs, Shapes
  <2>2. \A u \in Tasks : child[u] # c
    BY <1>0, <2>1, InForkIs DEF ForkLinked
  <2>3. \A u \in Tasks : IF pc'[u] \in sharing!InFork
                         THEN child'[u] \in Tasks /\ pc'[child'[u]] = "embryo"
                         ELSE child'[u] = None
    BY <1>0, <2>1, InForkIs DEF ForkLinked
  <2>4. \A d \in Tasks : pc'[d] = "embryo" => \E u \in Tasks : child'[u] = d
    <3>1. ASSUME NEW d \in Tasks, pc'[d] = "embryo", d # c
          PROVE  \E u \in Tasks : child'[u] = d
      <4>1. pc[d] = "embryo"
        BY <2>1, <3>1
      <4>2. PICK u \in Tasks : child[u] = d
        BY <1>0, <4>1 DEF ForkLinked
      <4>3. u # t
        BY <1>0, <2>1, <4>2, InForkIs DEF ForkLinked
      <4> QED  BY <2>1, <4>2, <4>3
    <3> QED  BY <2>1, <3>1
  <2>5. \A u, w \in Tasks : child'[u] # None /\ child'[u] = child'[w] => u = w
    BY <1>0, <2>1, <2>2 DEF ForkLinked
  <2> QED  BY <2>3, <2>4, <2>5 DEF ForkLinked
<1>2. ASSUME NEW t \in Tasks, \/ \E k \in sharing!Kinds : sharing!Copy(t, k)
                              \/ sharing!CopyMm(t) \/ sharing!CopyNamespace(t)
      PROVE  ForkLinked'
  <2>1. PICK p \in sharing!InFork : /\ pc[t] \in sharing!InFork /\ UNCHANGED child
                                    /\ pc' = [pc EXCEPT ![t] = p]
    BY <1>2, InForkIs DEF sharing!Copy, sharing!CopyMm, sharing!CopyNamespace, sharing!Runs,
                          sharing!NextCopy, sharing!Kinds
  <2>2. p # "embryo" /\ pc[t] # "embryo" /\ p \in Places
    BY <2>1, InForkIs DEF Places
  <2> QED  BY <1>0, <2>1, <2>2, SameLinks
<1>3. ASSUME NEW t \in Tasks, sharing!ForkFail(t) \/ sharing!ForkLink(t)
      PROVE  ForkLinked'
  <2>1. PICK c \in Tasks : /\ c = child[t] /\ t # c /\ pc[t] \in sharing!InFork /\ pc[c] = "embryo"
                           /\ \A p \in Tasks : child[p] = c => p = t
    BY <1>0, <1>3, ParentAndChild, InForkIs DEF sharing!ForkFail, sharing!ForkLink,
                                                sharing!Runs
  <2>2. /\ \A u \in Tasks : child'[u] = IF u = t THEN None ELSE child[u]
        /\ \A u \in Tasks \ {t, c} : pc'[u] = pc[u]
        /\ pc'[t] \in {"user", "vfork"} /\ pc'[c] \in {"user", "free"}
    BY <1>0, <1>3, <2>1 DEF sharing!ForkFail, sharing!ForkLink, Shapes
  <2>3. \A u \in Tasks : IF pc'[u] \in sharing!InFork
                         THEN child'[u] \in Tasks /\ pc'[child'[u]] = "embryo"
                         ELSE child'[u] = None
    BY <1>0, <2>1, <2>2, InForkIs DEF ForkLinked
  <2>4. \A d \in Tasks : pc'[d] = "embryo" => \E u \in Tasks : child'[u] = d
    BY <1>0, <2>1, <2>2 DEF ForkLinked
  <2>5. \A u, w \in Tasks : child'[u] # None /\ child'[u] = child'[w] => u = w
    BY <1>0, <2>1, <2>2 DEF ForkLinked
  <2> QED  BY <2>3, <2>4, <2>5 DEF ForkLinked
<1>4. ASSUME NEW t \in Tasks,
             \/ sharing!VforkReturn(t) \/ sharing!Exit(t)
             \/ sharing!ExitNotify(t) \/ sharing!Release(t)
             \/ sharing!StartLazy(t) \/ sharing!EndLazy(t)
      PROVE  ForkLinked'
  <2>1. PICK p \in {"user", "exit", "zombie", "free", "lazy"} :
           /\ pc[t] \in {"user", "vfork", "exit", "zombie", "lazy"} /\ UNCHANGED child
           /\ pc' = [pc EXCEPT ![t] = p]
    BY <1>4 DEF sharing!VforkReturn, sharing!Exit, sharing!ExitNotify, sharing!Release,
                sharing!StartLazy, sharing!EndLazy, sharing!Runs
  <2>2. /\ p # "embryo" /\ pc[t] # "embryo" /\ p \in Places
        /\ p \notin sharing!InFork /\ pc[t] \notin sharing!InFork
    BY <2>1, InForkIs DEF Places
  <2> QED  BY <1>0, <2>1, <2>2, SameLinks
<1>5. CASE UNCHANGED <<pc, child>>
  BY <1>0, <1>5 DEF ForkLinked
<1> QED  BY <1>1, <1>2, <1>3, <1>4, <1>5 DEF sharing!Next, sharing!ExitNext,
                                             sharing!Daemonize, sharing!Exec, sharing!Switch

LEMMA FieldsKept ==
    ASSUME sharing!SharersAssumption, sharing!StructsAssumption, SharingIInv, sharing!Next
    PROVE  Fields'
<1> USE DEF sharing!OrNone
<1> /\ Tasks \subseteq sharing!AllTasks /\ Idle \in sharing!AllTasks /\ Idle \notin Tasks
    /\ None \notin sharing!AllTasks /\ None \notin Structs
  BY Apart
<1>0. Shapes /\ ForkLinked /\ Fields
  BY DEF SharingIInv
<1>1. ASSUME NEW t \in Tasks, NEW c \in Tasks, NEW flags \in Clones,
             sharing!ForkStart(t, c, flags)
      PROVE  Fields'
  <2>1. /\ t # c /\ pc[t] = "user" /\ pc[c] = "free" /\ current = t
        /\ \A u \in Tasks : pc'[u] = IF u = t THEN "files" ELSE IF u = c THEN "embryo" ELSE pc[u]
        /\ \A u \in sharing!AllTasks \ {c} : mm'[u] = mm[u]
        /\ UNCHANGED <<lazy, current, lender>>
    BY <1>0, <1>1 DEF sharing!ForkStart, sharing!Runs, Shapes
  <2> QED  BY <1>0, <2>1 DEF Fields
<1>2. ASSUME NEW t \in Tasks, \/ \E k \in sharing!Kinds : sharing!Copy(t, k)
                              \/ sharing!CopyNamespace(t)
      PROVE  Fields'
  <2>1. PICK p \in sharing!InFork : /\ pc[t] \in sharing!InFork /\ UNCHANGED <<mm, lazy, current, lender>>
                                    /\ pc' = [pc EXCEPT ![t] = p]
    BY <1>2, InForkIs DEF sharing!Copy, sharing!CopyNamespace, sharing!Runs, sharing!NextCopy,
                          sharing!Kinds
  <2>2. \A u \in Tasks : pc'[u] = IF u = t THEN p ELSE pc[u]
    BY <1>0, <2>1 DEF Shapes
  <2> QED  BY <1>0, <2>1, <2>2, InForkIs DEF Fields
<1>3. ASSUME NEW t \in Tasks, sharing!CopyMm(t)
      PROVE  Fields'
  <2>1. pc[t] = "mm" /\ child[t] \in Tasks /\ pc[child[t]] = "embryo"
    BY <1>0, <1>3, InForkIs DEF sharing!CopyMm, sharing!Runs, ForkLinked
  <2>2. /\ \A u \in Tasks : pc'[u] = IF u = t THEN "namespace" ELSE pc[u]
        /\ \A u \in sharing!AllTasks \ {child[t]} : mm'[u] = mm[u]
        /\ UNCHANGED <<lazy, current, lender>>
    BY <1>0, <1>3, <2>1 DEF sharing!CopyMm, Shapes
  <2> QED  BY <1>0, <2>1, <2>2 DEF Fields
<1>4. ASSUME NEW t \in Tasks, sharing!ForkFail(t) \/ sharing!ForkLink(t)
      PROVE  Fields'
  <2>1. PICK c \in Tasks : /\ c = child[t] /\ t # c /\ pc[t] \in sharing!InFork /\ pc[c] = "embryo"
    BY <1>0, <1>4, ParentAndChild, InForkIs DEF sharing!ForkFail, sharing!ForkLink,
                                                sharing!Runs
  <2>2. CASE sharing!ForkFail(t)
    <3>1. /\ \A u \in Tasks : pc'[u] = IF u = t THEN "user" ELSE IF u = c THEN "free" ELSE pc[u]
          /\ \A u \in sharing!AllTasks : mm'[u] = IF u = c THEN None ELSE mm[u]
          /\ UNCHANGED <<lazy, current, lender>> /\ current = t
      BY <1>0, <2>1, <2>2 DEF sharing!ForkFail, Shapes
    <3> QED  BY <1>0, <2>1, <3>1, InForkIs DEF Fields
  <2>3. CASE sharing!ForkLink(t)
    <3>1. /\ \A u \in Tasks \ {t, c} : pc'[u] = pc[u]
          /\ pc'[t] \in {"user", "vfork"} /\ pc'[c] = "user"
          /\ \A u \in Tasks \ {c} : lender'[u] = lender[u]
          /\ UNCHANGED <<lazy, current, mm>> /\ current = t
      BY <1>0, <2>1, <2>3 DEF sharing!ForkLink, Shapes, sharing!Runs
    <3> QED  BY <1>0, <2>1, <3>1, InForkIs DEF Fields
  <2> QED  BY <1>4, <2>2, <2>3
<1>5. ASSUME NEW t \in Tasks,
             \/ sharing!VforkReturn(t) \/ sharing!ExitNotify(t) \/ sharing!Release(t)
             \/ sharing!StartLazy(t) \/ sharing!EndLazy(t)
      PROVE  Fields'
  <2>1. CASE sharing!VforkReturn(t)
    BY <1>0, <2>1 DEF sharing!VforkReturn, sharing!Runs, Shapes, Fields
  <2>2. CASE sharing!ExitNotify(t)
    <3>1. lender[t] = None
      BY <1>0, <2>2 DEF sharing!ExitNotify, sharing!Runs, Fields
    <3> QED  BY <1>0, <2>2, <3>1 DEF sharing!ExitNotify, sharing!Runs, Shapes, Fields
  <2>3. CASE sharing!Release(t)
    BY <1>0, <2>3 DEF sharing!Release, sharing!Runs, Shapes, Fields
  <2>4. CASE sharing!StartLazy(t)
    BY <1>0, <2>4 DEF sharing!StartLazy, sharing!Runs, Shapes, Fields
  <2>5. CASE sharing!EndLazy(t)
    BY <1>0, <2>5 DEF sharing!EndLazy, sharing!Runs, Shapes, Fields
  <2> QED  BY <1>5, <2>1, <2>2, <2>3, <2>4, <2>5
<1>6. ASSUME NEW t \in Tasks, sharing!Exit(t) \/ sharing!Daemonize(t)
      PROVE  Fields'
  <2>1. PICK p \in {"user", "exit"} :
           /\ \A u \in Tasks : pc'[u] = IF u = t THEN p ELSE pc[u]
           /\ pc[t] = "user" /\ current = t
    BY <1>0, <1>6 DEF sharing!Exit, sharing!Daemonize, sharing!Runs, Shapes
  <2>2. /\ \A u \in sharing!AllTasks : mm'[u] = IF u = t THEN None ELSE mm[u]
        /\ \A u \in Tasks : lender'[u] = IF u = t THEN None ELSE lender[u]
        /\ UNCHANGED <<lazy, current>>
    BY <1>0, <1>6 DEF sharing!Exit, sharing!Daemonize, sharing!ExitMm, Shapes
  <2> QED  BY <1>0, <2>1, <2>2 DEF Fields
<1>7. ASSUME NEW t \in Tasks, sharing!Exec(t)
      PROVE  Fields'
  <2>1. /\ \A u \in sharing!AllTasks \ {t} : mm'[u] = mm[u]
        /\ \A u \in Tasks : lender'[u] = IF u = t THEN None ELSE lender[u]
        /\ pc[t] = "user" /\ UNCHANGED <<pc, lazy, current>>
    BY <1>0, <1>7 DEF sharing!Exec, sharing!Runs, Shapes
  <2> QED  BY <1>0, <2>1 DEF Fields
<1>8. ASSUME NEW t \in Tasks, NEW k \in sharing!Kinds, sharing!ExitNext(t, k)
      PROVE  Fields'
  BY <1>0, <1>8 DEF sharing!ExitNext, Fields
<1>9. ASSUME NEW next \in sharing!AllTasks, sharing!Switch(next)
      PROVE  Fields'
  BY <1>0, <1>9 DEF sharing!Switch, sharing!CanRun, Fields
<1> QED  BY <1>1, <1>2, <1>3, <1>4, <1>5, <1>6, <1>7, <1>8, <1>9 DEF sharing!Next

------------------------------------------------------------------------------
(* Vfork *)

(* Where nobody links, returns or releases, the handshake stays as it is. *)
LEMMA SameVfork ==
    ASSUME sharing!SharersAssumption, Vfork, UNCHANGED <<vfork_done, done, lender, early>>,
           \A u \in Tasks : /\ pc'[u] = "vfork" <=> pc[u] = "vfork"
                            /\ pc'[u] \in sharing!InFork =>
                                  /\ pc[u] \in sharing!InFork
                                  /\ child'[u] = child[u] /\ clone_flags'[u] = clone_flags[u]
                            /\ pc'[u] = "exit" => pc[u] = "exit"
                            /\ u \in sharing!Alive' => u \in sharing!Alive
                            /\ u \in sharing!Alive \ sharing!Alive' => vfork_done[u] = None
    PROVE  Vfork'
<1> sharing!Alive \subseteq Tasks /\ sharing!Alive' \subseteq Tasks /\ None \notin Tasks
  BY DEF sharing!Alive, sharing!SharersAssumption, sharing!AllTasks
<1>1. \A p \in Tasks : pc'[p] = "vfork" /\ done'[p] = 0
          => \E c \in sharing!Alive' : vfork_done'[c] = p
  <2>1. ASSUME NEW p \in Tasks, pc'[p] = "vfork", done'[p] = 0
        PROVE  \E c \in sharing!Alive' : vfork_done'[c] = p
    <3>1. PICK c \in sharing!Alive : vfork_done[c] = p
      BY <2>1 DEF Vfork
    <3>2. c \in sharing!Alive' \/ (vfork_done[c] = None /\ p = None)
      BY <3>1
    <3> QED  BY <3>1, <3>2
  <2> QED  BY <2>1
<1>2. \A p \in Tasks : pc'[p] \in sharing!InFork =>
         vfork_done'[child'[p]] = IF "VFORK" \in clone_flags'[p] THEN p ELSE None
  BY DEF Vfork
<1> QED  BY <1>1, <1>2 DEF Vfork

(* mm_release() of a living task: the parent is told to go on, and the     *)
(* task owes it nothing any more.                                          *)
LEMMA ToldToGoOn ==
    ASSUME sharing!SharersAssumption, Shapes, ForkLinked, Vfork, NEW t \in sharing!Alive,
           sharing!MmRelease(t),
           \A u \in Tasks : /\ pc'[u] = "vfork" <=> pc[u] = "vfork"
                            /\ pc'[u] \in sharing!InFork =>
                                  /\ pc[u] \in sharing!InFork
                                  /\ child'[u] = child[u] /\ clone_flags'[u] = clone_flags[u]
                            /\ pc'[u] = "exit" => pc[u] = "exit" \/ u = t
                            /\ u \in sharing!Alive' <=> u \in sharing!Alive
                            /\ u # t => lender'[u] = lender[u] /\ (u \in early' <=> u \in early),
           \/ t \in early'
           \/ lender'[t] = None
           \/ vfork_done[t] = None /\ lender'[t] = lender[t] /\ (t \in early => t \in early')
    PROVE  Vfork'
<1> sharing!Alive \subseteq Tasks /\ sharing!Alive' \subseteq Tasks /\ None \notin Tasks
  BY DEF sharing!Alive, sharing!SharersAssumption, sharing!AllTasks
<1>1. \A u \in Tasks : vfork_done'[u] = IF u = t THEN None ELSE vfork_done[u]
  BY DEF sharing!MmRelease, Shapes
<1>2. CASE vfork_done[t] = None
  <2>1. UNCHANGED <<vfork_done, done>>
    BY <1>1, <1>2 DEF sharing!MmRelease, Shapes
  <2>2. \A p \in Tasks, c \in sharing!Alive' \ early' : lender'[c] = p => vfork_done'[c] = p
    <3>1. ASSUME NEW p \in Tasks, NEW c \in sharing!Alive' \ early', lender'[c] = p
          PROVE  vfork_done'[c] = p
      <4>1. lender[c] = p /\ c \in sharing!Alive /\ c \notin early
        BY <3>1
      <4> QED  BY <2>1, <4>1 DEF Vfork
    <3> QED  BY <3>1
  <2>3. \A p \in Tasks : pc'[p] \in sharing!InFork =>
           vfork_done'[child'[p]] = IF "VFORK" \in clone_flags'[p] THEN p ELSE None
    BY <2>1 DEF Vfork
  <2> QED  BY <1>2, <2>1, <2>2, <2>3 DEF Vfork
<1>3. CASE vfork_done[t] # None
  <2>1. PICK q \in Tasks : vfork_done[t] = q
    BY <1>3 DEF Shapes, sharing!OrNone
  <2>2. pc[q] = "vfork" /\ done[q] = 0
    BY <2>1 DEF Vfork
  <2>3. \A p \in Tasks : done'[p] = IF p = q THEN 1 ELSE done[p]
    BY <2>1, <2>2 DEF sharing!MmRelease, Shapes
  <2>4. \A c \in sharing!Alive \ {t} : vfork_done[c] # q
    BY <2>1 DEF Vfork
  <2>5. /\ \A p \in Tasks : pc'[p] # "vfork" => done'[p] = 0
        /\ \A p \in Tasks : done'[p] \in {0, 1}
        /\ \A u \in Tasks : pc'[u] = "exit" => vfork_done'[u] = None
    BY <1>1, <2>2, <2>3 DEF Vfork
  <2>6. \A p \in Tasks : pc'[p] \in sharing!InFork =>
           vfork_done'[child'[p]] = IF "VFORK" \in clone_flags'[p] THEN p ELSE None
    <3>1. ASSUME NEW p \in Tasks, pc'[p] \in sharing!InFork
          PROVE  child[p] \in Tasks /\ child[p] # t
      BY <3>1 DEF ForkLinked, sharing!Alive
    <3> QED  BY <1>1, <3>1 DEF Vfork
  <2>7. \A c \in sharing!Alive', p \in Tasks : vfork_done'[c] = p
            => pc'[p] = "vfork" /\ done'[p] = 0
    BY <1>1, <2>3, <2>4 DEF Vfork
  <2>8. \A c, d \in sharing!Alive' : vfork_done'[c] = vfork_done'[d] /\ vfork_done'[c] # None
            => c = d
    BY <1>1 DEF Vfork
  <2>9. \A p \in Tasks : pc'[p] = "vfork" /\ done'[p] = 0 =>
           \E c \in sharing!Alive' : vfork_done'[c] = p
    <3>1. ASSUME NEW p \in Tasks, pc'[p] = "vfork", done'[p] = 0
          PROVE  \E c \in sharing!Alive' : vfork_done'[c] = p
      <4>1. p # q /\ pc[p] = "vfork" /\ done[p] = 0
        BY <2>3, <3>1
      <4>2. PICK c \in sharing!Alive : vfork_done[c] = p
        BY <4>1 DEF Vfork
      <4> QED  BY <1>1, <2>1, <4>1, <4>2
    <3> QED  BY <3>1
  <2>10. \A p \in Tasks, c \in sharing!Alive' \ early' : lender'[c] = p => vfork_done'[c] = p
    <3>1. ASSUME NEW p \in Tasks, NEW c \in sharing!Alive' \ early', lender'[c] = p
          PROVE  vfork_done'[c] = p
      <4>1. c # t
        BY <1>3, <3>1
      <4>2. lender[c] = p /\ c \in sharing!Alive /\ c \notin early
        BY <3>1, <4>1
      <4> QED  BY <1>1, <4>1, <4>2 DEF Vfork
    <3> QED  BY <3>1
  <2> QED  BY <2>5, <2>6, <2>7, <2>8, <2>9, <2>10 DEF Vfork
<1> QED  BY <1>2, <1>3

LEMMA VforkKept ==
    ASSUME sharing!SharersAssumption, sharing!StructsAssumption, SharingIInv, sharing!Next
    PROVE  Vfork'
<1> USE DEF sharing!OrNone
<1> /\ Tasks \subseteq sharing!AllTasks /\ Idle \in sharing!AllTasks /\ Idle \notin Tasks
    /\ None \notin sharing!AllTasks /\ None \notin Structs
  BY Apart
<1> sharing!Alive \subseteq Tasks /\ sharing!Alive' \subseteq Tasks
  BY DEF sharing!Alive
<1>0. Shapes /\ ForkLinked /\ Fields /\ Vfork
  BY DEF SharingIInv
<1>1. ASSUME NEW t \in Tasks, NEW c \in Tasks, NEW flags \in Clones,
             sharing!ForkStart(t, c, flags)
      PROVE  Vfork'
  <2>1. /\ t # c /\ pc[t] = "user" /\ pc[c] = "free"
        /\ \A u \in Tasks : pc'[u] = IF u = t THEN "files" ELSE IF u = c THEN "embryo" ELSE pc[u]
        /\ \A u \in Tasks : child'[u] = IF u = t THEN c ELSE child[u]
        /\ \A u \in Tasks : clone_flags'[u] = IF u = t THEN flags ELSE clone_flags[u]
        /\ \A u \in Tasks : vfork_done'[u] =
              IF u = c THEN IF "VFORK" \in flags THEN t ELSE None ELSE vfork_done[u]
        /\ UNCHANGED <<lender, early>>
    BY <1>0, <1>1 DEF sharing!ForkStart, sharing!Runs, Shapes
  <2>2. \A u \in Tasks : child[u] # c
    BY <1>0, <2>1, InForkIs DEF ForkLinked
  <2>3. UNCHANGED done
    BY <1>0, <1>1, <2>1 DEF sharing!ForkStart, Vfork, Shapes
  <2>4. sharing!Alive' = sharing!Alive /\ c \notin sharing!Alive
    BY <2>1 DEF sharing!Alive
  <2>5. \A p \in Tasks : pc'[p] \in sharing!InFork =>
           vfork_done'[child'[p]] = IF "VFORK" \in clone_flags'[p] THEN p ELSE None
    <3>1. ASSUME NEW p \in Tasks, pc'[p] \in sharing!InFork, p # t
          PROVE  pc[p] \in sharing!InFork /\ child[p] \in Tasks /\ child[p] # c
      BY <1>0, <2>1, <2>2, <3>1, InForkIs DEF ForkLinked
    <3> QED  BY <1>0, <2>1, <3>1 DEF Vfork
  <2>6. \A p \in Tasks : pc'[p] = "vfork" /\ done'[p] = 0
            => \E d \in sharing!Alive' : vfork_done'[d] = p
    BY <1>0, <2>1, <2>3, <2>4 DEF Vfork
  <2> QED  BY <1>0, <2>1, <2>3, <2>4, <2>5, <2>6 DEF Vfork
<1>2. ASSUME NEW t \in Tasks,
             \/ \E k \in sharing!Kinds : sharing!Copy(t, k) \/ sharing!ExitNext(t, k)
             \/ sharing!CopyMm(t) \/ sharing!CopyNamespace(t)
             \/ sharing!ExitNotify(t) \/ sharing!Release(t)
             \/ sharing!StartLazy(t) \/ sharing!EndLazy(t)
      PROVE  Vfork'
  <2>1. PICK p \in Places :
           /\ pc' = [pc EXCEPT ![t] = p]
           /\ \/ pc[t] \in sharing!InFork /\ p \in sharing!InFork
              \/ pc[t] = "exit" /\ p \in {"exit", "zombie"}
              \/ pc[t] = "zombie" /\ p = "free"
              \/ pc[t] = "user" /\ p = "lazy"
              \/ pc[t] = "lazy" /\ p = "user"
    <3>1. CASE \E k \in sharing!Kinds : sharing!Copy(t, k)
      BY <3>1, InForkIs DEF sharing!Copy, sharing!Runs, sharing!NextCopy, sharing!Kinds,
                            Places
    <3>2. CASE \E k \in sharing!Kinds : sharing!ExitNext(t, k)
      <4>1. pc' = [pc EXCEPT ![t] = "exit"] /\ pc[t] = "exit"
        BY <1>0, <3>2 DEF sharing!ExitNext, sharing!Runs, Shapes
      <4> QED  BY <4>1 DEF Places
    <3>3. CASE sharing!CopyMm(t) \/ sharing!CopyNamespace(t)
      BY <3>3, InForkIs DEF sharing!CopyMm, sharing!CopyNamespace, sharing!Runs, Places
    <3>4. CASE sharing!ExitNotify(t) \/ sharing!Release(t)
      BY <3>4 DEF sharing!ExitNotify, sharing!Release, sharing!Runs, Places
    <3>5. CASE sharing!StartLazy(t) \/ sharing!EndLazy(t)
      BY <3>5 DEF sharing!StartLazy, sharing!EndLazy, sharing!Runs, Places
    <3> QED  BY <1>2, <3>1, <3>2, <3>3, <3>4, <3>5
  <2>2. UNCHANGED <<child, clone_flags, vfork_done, done, lender, early>>
    BY <1>2 DEF sharing!Copy, sharing!ExitNext, sharing!CopyMm, sharing!CopyNamespace,
                sharing!ExitNotify, sharing!Release, sharing!StartLazy, sharing!EndLazy
  <2>3. \A u \in Tasks : pc'[u] = IF u = t THEN p ELSE pc[u]
    BY <1>0, <2>1 DEF Shapes
  <2>4. \A u \in Tasks : /\ u \in sharing!Alive <=> pc[u] \notin {"free", "embryo", "zombie"}
                         /\ u \in sharing!Alive' <=> pc'[u] \notin {"free", "embryo", "zombie"}
    BY DEF sharing!Alive
  <2>5. pc[t] = "exit" => vfork_done[t] = None
    BY <1>0 DEF Vfork
  <2> QED  BY <1>0, <2>1, <2>2, <2>3, <2>4, <2>5, SameVfork, InForkIs
<1>3. ASSUME NEW t \in Tasks, sharing!ForkFail(t)
      PROVE  Vfork'
  <2>1. PICK c \in Tasks : /\ c = child[t] /\ t # c /\ pc[t] \in sharing!InFork /\ pc[c] = "embryo"
                           /\ \A p \in Tasks : child[p] = c => p = t
    BY <1>0, <1>3, ParentAndChild DEF sharing!ForkFail
  <2>2. /\ \A u \in Tasks : pc'[u] = IF u = t THEN "user" ELSE IF u = c THEN "free" ELSE pc[u]
        /\ \A u \in Tasks \ {t} : child'[u] = child[u] /\ clone_flags'[u] = clone_flags[u]
        /\ UNCHANGED lender
    BY <1>0, <1>3, <2>1 DEF sharing!ForkFail, Shapes
  <2>3. t \in sharing!Alive /\ sharing!Alive' = sharing!Alive /\ c \notin sharing!Alive
    BY <2>1, <2>2, InForkIs DEF sharing!Alive
  <2>4. CASE pc[t] = "namespace"
    <3>1. sharing!MmRelease(t) /\ early' = IF vfork_done[t] # None THEN early \cup {t} ELSE early
      BY <1>3, <2>4 DEF sharing!ForkFail
    <3> QED  BY <1>0, <2>1, <2>2, <2>3, <3>1, ToldToGoOn, InForkIs
  <2>5. CASE pc[t] # "namespace"
    <3>1. /\ \A u \in Tasks : vfork_done'[u] = IF u = c THEN None ELSE vfork_done[u]
          /\ UNCHANGED <<done, early>>
      BY <1>0, <1>3, <2>1, <2>5 DEF sharing!ForkFail, Shapes
    <3>2. \A p \in Tasks : pc'[p] \in sharing!InFork =>
             vfork_done'[child'[p]] = IF "VFORK" \in clone_flags'[p] THEN p ELSE None
      <4>1. ASSUME NEW p \in Tasks, pc'[p] \in sharing!InFork
            PROVE  p # t /\ pc[p] \in sharing!InFork /\ child[p] \in Tasks /\ child[p] # c
        BY <1>0, <2>1, <2>2, <4>1, InForkIs DEF ForkLinked
      <4> QED  BY <1>0, <2>2, <3>1, <4>1 DEF Vfork
    <3>3. \A p \in Tasks : pc'[p] = "vfork" /\ done'[p] = 0
              => \E d \in sharing!Alive' : vfork_done'[d] = p
      BY <1>0, <2>2, <2>3, <3>1, <2>1 DEF Vfork
    <3>4. \A d \in sharing!Alive : vfork_done'[d] = vfork_done[d]
      BY <2>3, <3>1
    <3>5. /\ \A p \in Tasks : pc'[p] # "vfork" => done'[p] = 0
          /\ \A p \in Tasks : pc'[p] = "exit" => vfork_done'[p] = None
      BY <1>0, <2>1, <2>2, <3>1, InForkIs DEF Vfork
    <3>6. \A p \in Tasks : pc[p] = "vfork" => pc'[p] = "vfork"
      BY <2>1, <2>2, InForkIs
    <3> QED  BY <1>0, <2>2, <2>3, <3>1, <3>2, <3>3, <3>4, <3>5, <3>6 DEF Vfork
  <2> QED  BY <2>4, <2>5
<1>4. ASSUME NEW t \in Tasks, sharing!ForkLink(t)
      PROVE  Vfork'
  <2> DEFINE vfork == "VFORK" \in clone_flags[t]
  <2>1. PICK c \in Tasks : /\ c = child[t] /\ t # c /\ pc[t] = "link" /\ pc[c] = "embryo"
                           /\ \A p \in Tasks : child[p] = c => p = t
    BY <1>0, <1>4, ParentAndChild, InForkIs DEF sharing!ForkLink, sharing!Runs
  <2>2. /\ \A u \in Tasks : pc'[u] = IF u = c THEN "user"
                                     ELSE IF u = t THEN IF vfork THEN "vfork" ELSE "user"
                                     ELSE pc[u]
        /\ \A u \in Tasks \ {t} : child'[u] = child[u] /\ clone_flags'[u] = clone_flags[u]
        /\ UNCHANGED <<vfork_done, done, early>>
    BY <1>0, <1>4, <2>1 DEF sharing!ForkLink, Shapes
  <2>3. \A u \in Tasks : lender'[u] = lender[u] \/ (u = c /\ vfork /\ lender'[u] = t)
    BY <1>0, <1>4, <2>1 DEF sharing!ForkLink, Shapes
  <2>4. sharing!Alive' = sharing!Alive \cup {c} /\ t \in sharing!Alive /\ c \notin sharing!Alive
    BY <2>1, <2>2 DEF sharing!Alive
  <2>5. vfork_done[c] = (IF vfork THEN t ELSE None) /\ done[t] = 0 /\ lender[c] = None
    BY <1>0, <2>1, InForkIs DEF Vfork, Fields
  <2>6. \A d \in sharing!Alive : vfork_done[d] # t
    BY <1>0, <2>1 DEF Vfork
  <2>7. \A p \in Tasks : pc'[p] \in sharing!InFork =>
           vfork_done'[child'[p]] = IF "VFORK" \in clone_flags'[p] THEN p ELSE None
    BY <1>0, <2>1, <2>2, InForkIs DEF Vfork
  <2>8. /\ \A p \in Tasks : pc'[p] # "vfork" => done'[p] = 0
        /\ \A p \in Tasks : pc'[p] = "exit" => vfork_done'[p] = None
    BY <1>0, <2>1, <2>2, <2>5 DEF Vfork
  <2>9. \A d \in sharing!Alive', p \in Tasks : vfork_done'[d] = p
            => pc'[p] = "vfork" /\ done'[p] = 0
    <3>1. ASSUME NEW d \in sharing!Alive', NEW p \in Tasks, vfork_done[d] = p
          PROVE  pc'[p] = "vfork" /\ done[p] = 0
      <4>1. CASE d = c
        BY <2>1, <2>2, <2>5, <3>1, <4>1
      <4>2. CASE d # c
        <5>1. pc[p] = "vfork" /\ done[p] = 0 /\ p # t
          BY <1>0, <2>4, <2>6, <3>1, <4>2 DEF Vfork
        <5> QED  BY <2>1, <2>2, <5>1
      <4> QED  BY <4>1, <4>2
    <3> QED  BY <2>2, <3>1
  <2>10. \A d, e \in sharing!Alive' : vfork_done'[d] = vfork_done'[e] /\ vfork_done'[d] # None => d = e
    BY <1>0, <2>2, <2>4, <2>5, <2>6 DEF Vfork
  <2>11. \A p \in Tasks : pc'[p] = "vfork" /\ done'[p] = 0
             => \E d \in sharing!Alive' : vfork_done'[d] = p
    <3>1. ASSUME NEW p \in Tasks, pc'[p] = "vfork", done'[p] = 0
          PROVE  \E d \in sharing!Alive' : vfork_done[d] = p
      <4>1. CASE p = t
        BY <2>1, <2>2, <2>4, <2>5, <3>1, <4>1
      <4>2. CASE p # t
        <5>1. pc[p] = "vfork" /\ done[p] = 0
          BY <2>2, <3>1, <4>2
        <5> QED  BY <1>0, <2>4, <5>1 DEF Vfork
      <4> QED  BY <4>1, <4>2
    <3> QED  BY <2>2, <3>1
  <2>12. \A p \in Tasks, d \in sharing!Alive' \ early' : lender'[d] = p => vfork_done'[d] = p
    <3>1. ASSUME NEW p \in Tasks, NEW d \in sharing!Alive' \ early', lender'[d] = p
          PROVE  vfork_done'[d] = p
      <4>1. CASE d = c
        BY <2>2, <2>3, <2>5, <3>1, <4>1
      <4>2. CASE d # c
        BY <1>0, <2>2, <2>3, <2>4, <3>1, <4>2 DEF Vfork
      <4> QED  BY <4>1, <4>2
    <3> QED  BY <3>1
  <2> QED  BY <1>0, <2>2, <2>7, <2>8, <2>9, <2>10, <2>11, <2>12 DEF Vfork
<1>5. ASSUME NEW t \in Tasks, sharing!VforkReturn(t)
      PROVE  Vfork'
  <2>1. /\ pc[t] = "vfork" /\ done[t] = 1
        /\ \A u \in Tasks : pc'[u] = IF u = t THEN "user" ELSE pc[u]
        /\ \A u \in Tasks : done'[u] = IF u = t THEN 0 ELSE done[u]
        /\ UNCHANGED <<child, clone_flags, vfork_done, lender, early>>
    BY <1>0, <1>5 DEF sharing!VforkReturn, sharing!Runs, sharing!Completed, Shapes, Vfork
  <2>2. sharing!Alive' = sharing!Alive
    BY <2>1 DEF sharing!Alive
  <2>3. \A p \in Tasks : pc'[p] \in sharing!InFork => pc[p] \in sharing!InFork
    BY <2>1, InForkIs
  <2>4. \A d \in sharing!Alive : vfork_done[d] # t
    BY <1>0, <2>1 DEF Vfork
  <2> QED  BY <1>0, <2>1, <2>2, <2>3, <2>4 DEF Vfork
<1>6. ASSUME NEW t \in Tasks, sharing!Exit(t) \/ sharing!Daemonize(t) \/ sharing!Exec(t)
      PROVE  Vfork'
  <2>1. PICK p \in {"user", "exit"} :
           /\ \A u \in Tasks : pc'[u] = IF u = t THEN p ELSE pc[u]
           /\ pc[t] = "user" /\ UNCHANGED <<child, clone_flags>>
           /\ sharing!MmRelease(t)
    BY <1>0, <1>6 DEF sharing!Exit, sharing!Daemonize, sharing!Exec, sharing!ExitMm,
                      sharing!Runs, Shapes
  <2>2. /\ \A u \in Tasks : lender'[u] = IF u = t THEN None ELSE lender[u]
        /\ early' = early \ {t}
    BY <1>0, <1>6 DEF sharing!Exit, sharing!Daemonize, sharing!Exec, sharing!ExitMm, Shapes
  <2>3. t \in sharing!Alive /\ sharing!Alive' = sharing!Alive
    BY <2>1 DEF sharing!Alive
  <2> QED  BY <1>0, <2>1, <2>2, <2>3, ToldToGoOn, InForkIs
<1>7. ASSUME NEW next \in sharing!AllTasks, sharing!Switch(next)
      PROVE  Vfork'
  BY <1>0, <1>7 DEF sharing!Switch, Vfork, sharing!Alive
<1> QED  BY <1>1, <1>2, <1>3, <1>4, <1>5, <1>6, <1>7 DEF sharing!Next

------------------------------------------------------------------------------
(* Structures *)

LEMMA CopiedNext ==
    /\ \A k \in sharing!Kinds : /\ sharing!CopiedBefore(sharing!NextCopy(k))
                                       = sharing!CopiedBefore(k) \cup {k}
                                /\ k \notin sharing!CopiedBefore(k)
    /\ sharing!CopiedBefore("files") = {}
    /\ \A place \in {"mm", "namespace", "link"} : sharing!CopiedBefore(place) = sharing!Kinds
<1>1. sharing!CopiedBefore("files") = {} /\ sharing!CopiedBefore("fs") = {"files"}
      /\ sharing!CopiedBefore("sig") = {"files", "fs"}
      /\ \A place \in {"mm", "namespace", "link"} : sharing!CopiedBefore(place) = sharing!Kinds
  BY DEF sharing!CopiedBefore
<1>2. /\ sharing!NextCopy("files") = "fs" /\ sharing!NextCopy("fs") = "sig"
      /\ sharing!NextCopy("sig") = "mm"
  BY DEF sharing!NextCopy
<1>3. \A k \in sharing!Kinds : k = "files" \/ k = "fs" \/ k = "sig"
  BY DEF sharing!Kinds
<1>4. sharing!CopiedBefore(sharing!NextCopy("files")) = sharing!CopiedBefore("files") \cup {"files"}
  BY <1>1, <1>2
<1>5. sharing!CopiedBefore(sharing!NextCopy("fs")) = sharing!CopiedBefore("fs") \cup {"fs"}
  BY <1>1, <1>2
<1>6. sharing!CopiedBefore(sharing!NextCopy("sig")) = sharing!CopiedBefore("sig") \cup {"sig"}
  BY <1>1, <1>2 DEF sharing!Kinds
<1>7. "files" \notin sharing!CopiedBefore("files") /\ "fs" \notin sharing!CopiedBefore("fs")
      /\ "sig" \notin sharing!CopiedBefore("sig")
  BY <1>1
<1> QED  BY <1>1, <1>3, <1>4, <1>5, <1>6, <1>7

LEMMA HavingIsFinite ==
    ASSUME sharing!SharersAssumption, sharing!StructsAssumption, NEW k, NEW s
    PROVE  IsFiniteSet(Having(k, s)) /\ Cardinality(Having(k, s)) \in Nat
<1>1. IsFiniteSet(Having(k, s))
  BY Apart, FS_Subset DEF Having
<1> QED  BY <1>1, FS_CardinalityType

LEMMA OneMore ==
    ASSUME NEW S, NEW T, IsFiniteSet(S), NEW x, x \notin S, T = S \cup {x}
    PROVE  Cardinality(T) = Cardinality(S) + 1
BY FS_AddElement

LEMMA OneLess ==
    ASSUME NEW S, NEW T, IsFiniteSet(S), NEW x, x \in S, T = S \ {x}
    PROVE  Cardinality(T) = Cardinality(S) - 1
BY FS_RemoveElement

(* The child counts for what has been copied, everybody else for all. *)
LEMMA WhoCounts ==
    ASSUME sharing!SharersAssumption, Shapes, ForkLinked, NEW k
    PROVE  /\ \A t \in Tasks : pc[t] \in sharing!InFork =>
                 (Counts(k, child[t]) <=> k \in sharing!CopiedBefore(pc[t]))
           /\ \A t \in Tasks : pc[t] # "embryo" => Counts(k, t)
<1>1. ASSUME NEW t \in Tasks, pc[t] \in sharing!InFork
      PROVE  Counts(k, child[t]) <=> k \in sharing!CopiedBefore(pc[t])
  BY <1>1, ParentAndChild DEF Counts
<1> QED  BY <1>1 DEF Counts

(* Tasks that a step of do_fork() is not about. *)
LEMMA OthersCount ==
    ASSUME NEW k, NEW u,
           u \in Tasks => (pc'[u] = "embryo" <=> pc[u] = "embryo"),
           \A p \in Tasks : /\ child'[p] = u <=> child[p] = u
                            /\ child[p] = u => pc'[p] = pc[p]
    PROVE  Counts(k, u)' <=> Counts(k, u)
BY DEF Counts

(* The counts stay right where no pointer that counts changes. *)
LEMMA SameHaving ==
    ASSUME NEW k, NEW s,
           \A t \in sharing!AllTasks : pointer'[k][t] = s /\ Counts(k, t)' <=>
                                       pointer[k][t] = s /\ Counts(k, t)
    PROVE  Having(k, s)' = Having(k, s)
BY DEF Having

(* What is left of Structures. *)
LEMMA SameStructures ==
    ASSUME Structures, UNCHANGED <<pointer, refs>>,
           \A k \in sharing!Kinds, t \in sharing!AllTasks : Counts(k, t)' <=> Counts(k, t),
           \A t \in Tasks :
              \/ pc'[t] = pc[t] /\ child'[t] = child[t]
              \/ pc[t] = "zombie" /\ pc'[t] = "free"
              \/ pc'[t] \in {"exit", "embryo"}
              \/ pc'[t] \in {"user", "vfork", "lazy"} /\ \A k \in sharing!Kinds : pointer[k][t] # None
              \/ /\ pc[t] \in sharing!InFork /\ pc'[t] \in sharing!InFork /\ child'[t] = child[t]
                 /\ sharing!CopiedBefore(pc'[t]) = sharing!CopiedBefore(pc[t])
              \/ pc'[t] = "zombie" /\ \A k \in sharing!Kinds : pointer[k][t] = None
    PROVE  Structures'
<1>1. \A k \in sharing!Kinds, s \in Structs : refs'[k][s] = Cardinality(Having(k, s)')
  <2>1. ASSUME NEW k \in sharing!Kinds, NEW s \in Structs
        PROVE  Having(k, s)' = Having(k, s)
    BY <2>1, SameHaving
  <2> QED  BY <2>1 DEF Structures
<1>2. ASSUME NEW k \in sharing!Kinds, NEW t \in Tasks
      PROVE  /\ pc'[t] \in {"free", "zombie"} => pointer'[k][t] = None
             /\ pc'[t] \in {"user", "vfork", "lazy"} \cup sharing!InFork
                    => pointer'[k][t] # None
             /\ pc'[t] \in sharing!InFork =>
                  IF k \in sharing!CopiedBefore(pc'[t]) THEN pointer'[k][child'[t]] # None
                  ELSE pointer'[k][child'[t]] = pointer'[k][t]
  BY InForkIs DEF Structures
<1> QED  BY <1>1, <1>2 DEF Structures

LEMMA StructuresAtForkStart ==
    ASSUME sharing!SharersAssumption, sharing!StructsAssumption, SharingIInv,
           NEW t \in Tasks, NEW c \in Tasks, NEW flags \in Clones,
           sharing!ForkStart(t, c, flags)
    PROVE  Structures'
<1> USE DEF sharing!OrNone
<1> /\ Tasks \subseteq sharing!AllTasks /\ Idle \in sharing!AllTasks /\ Idle \notin Tasks
    /\ None \notin sharing!AllTasks /\ None \notin Structs
  BY Apart
<1>0. Shapes /\ ForkLinked /\ Structures
  BY DEF SharingIInv
<1>1. /\ t # c /\ pc[t] = "user" /\ pc[c] = "free"
      /\ \A u \in Tasks : pc'[u] = IF u = t THEN "files" ELSE IF u = c THEN "embryo" ELSE pc[u]
      /\ \A u \in Tasks : child'[u] = IF u = t THEN c ELSE child[u]
      /\ \A k \in sharing!Kinds, u \in sharing!AllTasks :
            pointer'[k][u] = IF u = c THEN pointer[k][t] ELSE pointer[k][u]
      /\ refs' = refs
  BY <1>0 DEF sharing!ForkStart, sharing!Runs, Shapes
<1>2. \A u \in Tasks : child[u] # c
  BY <1>0, <1>1, InForkIs DEF ForkLinked
<1>3. child[t] = None
  BY <1>0, <1>1, InForkIs DEF ForkLinked
<1>4. ASSUME NEW k \in sharing!Kinds, NEW s \in Structs
      PROVE  refs'[k][s] = Cardinality(Having(k, s)')
  <2>1. ~Counts(k, c)'
    <3>1. \A p \in Tasks : child'[p] = c => p = t
      BY <1>1, <1>2
    <3> QED  BY <1>1, <3>1, CopiedNext DEF Counts
  <2>2. pointer[k][c] = None
    BY <1>0, <1>1 DEF Structures
  <2>3. \A u \in sharing!AllTasks \ {c} : Counts(k, u)' <=> Counts(k, u)
    <3>1. ASSUME NEW u \in sharing!AllTasks \ {c}
          PROVE  Counts(k, u)' <=> Counts(k, u)
      <4>1. u \in Tasks => (pc'[u] = "embryo" <=> pc[u] = "embryo")
        BY <1>1
      <4>2. \A p \in Tasks : /\ child'[p] = u <=> child[p] = u
                             /\ child[p] = u => pc'[p] = pc[p]
        <5>1. ASSUME NEW p \in Tasks, child[p] = u
              PROVE  p # t /\ p # c
          BY <1>0, <1>1, <1>3, <5>1, InForkIs DEF ForkLinked
        <5> QED  BY <1>1, <5>1
      <4> QED  BY <4>1, <4>2, OthersCount
    <3> QED  BY <3>1
  <2>4. Having(k, s)' = Having(k, s)
    BY <1>1, <2>1, <2>2, <2>3, SameHaving
  <2> QED  BY <1>0, <1>1, <2>4 DEF Structures
<1>5. ASSUME NEW k \in sharing!Kinds, NEW u \in Tasks
      PROVE  /\ pc'[u] \in {"free", "zombie"} => pointer'[k][u] = None
             /\ pc'[u] \in {"user", "vfork", "lazy"} \cup sharing!InFork
                    => pointer'[k][u] # None
             /\ pc'[u] \in sharing!InFork =>
                  IF k \in sharing!CopiedBefore(pc'[u]) THEN pointer'[k][child'[u]] # None
                  ELSE pointer'[k][child'[u]] = pointer'[k][u]
  <2>1. CASE u = t
    <3>1. pointer[k][t] # None
      BY <1>0, <1>1 DEF Structures
    <3> QED  BY <1>1, <2>1, <3>1, CopiedNext, InForkIs
  <2>2. CASE u = c
    BY <1>1, <2>2, InForkIs
  <2>3. CASE u # t /\ u # c
    <3>1. pc[u] \in sharing!InFork => child[u] \in Tasks /\ child[u] # c
      BY <1>0, <1>2 DEF ForkLinked
    <3>2. pc'[u] = pc[u] /\ child'[u] = child[u] /\ pointer'[k][u] = pointer[k][u]
      BY <1>1, <2>3
    <3>3. pc[u] \in sharing!InFork => pointer'[k][child[u]] = pointer[k][child[u]]
      BY <1>1, <3>1
    <3> QED  BY <1>0, <3>2, <3>3 DEF Structures
  <2> QED  BY <2>1, <2>2, <2>3
<1>6. \A k \in sharing!Kinds \ {"sig"} : pointer'[k][Idle] # None
  BY <1>0, <1>1 DEF Structures
<1> QED  BY <1>4, <1>5, <1>6 DEF Structures

(* One more user of the structure shared, or the first one of a copy. *)
LEMMA StructuresAtCopy ==
    ASSUME sharing!SharersAssumption, sharing!StructsAssumption, SharingIInv,
           NEW t \in Tasks, NEW k \in sharing!Kinds, sharing!Copy(t, k)
    PROVE  Structures'
<1> USE DEF sharing!OrNone
<1> /\ Tasks \subseteq sharing!AllTasks /\ Idle \in sharing!AllTasks /\ Idle \notin Tasks
    /\ None \notin sharing!AllTasks /\ None \notin Structs
  BY Apart
<1>0. Shapes /\ ForkLinked /\ Structures
  BY DEF SharingIInv
<1>1. PICK c \in Tasks : /\ c = child[t] /\ t # c /\ pc[t] = k /\ k \in sharing!InFork
                         /\ pc[c] = "embryo"
                         /\ \A p \in Tasks : child[p] = c => p = t
  BY <1>0, ParentAndChild, InForkIs DEF sharing!Copy, sharing!Runs, sharing!Kinds
<1>2. pointer[k][t] \in Structs /\ pointer[k][c] = pointer[k][t]
  BY <1>0, <1>1, CopiedNext DEF Structures, Shapes
<1>3. PICK place \in sharing!InFork : place = sharing!NextCopy(k)
  BY InForkIs DEF sharing!NextCopy, sharing!Kinds
<1>4. \A u \in Tasks : pc'[u] = IF u = t THEN place ELSE pc[u]
  BY <1>0, <1>3 DEF sharing!Copy, Shapes
<1>5. child' = child
  BY DEF sharing!Copy
<1>6. /\ sharing!CopiedBefore(place) = sharing!CopiedBefore(k) \cup {k}
      /\ k \notin sharing!CopiedBefore(k)
  BY <1>3, CopiedNext
<1>7. PICK s \in Structs :
         /\ refs' = [refs EXCEPT ![k][s] = @ + 1]
         /\ pointer' = [pointer EXCEPT ![k][c] = s]
         /\ s = pointer[k][t] \/ refs[k][s] = 0
  <2>1. CASE sharing!Shared(t, k)
    <3>1. pointer = [pointer EXCEPT ![k][c] = pointer[k][t]]
      BY <1>0, <1>2 DEF Shapes
    <3>2. refs' = [refs EXCEPT ![k][pointer[k][t]] = @ + 1] /\ pointer' = pointer
      BY <2>1 DEF sharing!Copy
    <3> QED  BY <1>2, <3>1, <3>2
  <2>2. CASE ~sharing!Shared(t, k)
    <3>1. sharing!FreeStructs(k) # {}
      BY <2>2 DEF sharing!Copy
    <3>2. PICK s \in Structs : s = sharing!Lowest(sharing!FreeStructs(k)) /\ refs[k][s] = 0
      BY <3>1, FreshStruct
    <3>3. refs' = [refs EXCEPT ![k][s] = 1] /\ pointer' = [pointer EXCEPT ![k][c] = s]
      BY <1>1, <2>2, <3>2 DEF sharing!Copy
    <3>4. [refs EXCEPT ![k][s] = 1] = [refs EXCEPT ![k][s] = @ + 1]
      BY <3>2
    <3> QED  BY <3>2, <3>3, <3>4
  <2> QED  BY <2>1, <2>2
<1>8. /\ \A j \in sharing!Kinds, u \in sharing!AllTasks :
            pointer'[j][u] = IF j = k /\ u = c THEN s ELSE pointer[j][u]
      /\ \A j \in sharing!Kinds, r \in Structs :
            refs'[j][r] = IF j = k /\ r = s THEN refs[k][s] + 1 ELSE refs[j][r]
  BY <1>0, <1>7 DEF Shapes
<1>9. \A j \in sharing!Kinds : /\ Counts(j, c)' <=> j = k \/ Counts(j, c)
                               /\ ~Counts(k, c)
  <2>1. \A j \in sharing!Kinds : Counts(j, c) <=> j \in sharing!CopiedBefore(k)
    BY <1>0, <1>1, WhoCounts
  <2>2. \A j \in sharing!Kinds : Counts(j, c)' <=> j \in sharing!CopiedBefore(place)
    <3>1. \A p \in Tasks : child'[p] = c <=> p = t
      BY <1>1, <1>5
    <3>2. pc'[c] = "embryo" /\ pc'[t] = place
      BY <1>1, <1>4
    <3> QED  BY <3>1, <3>2 DEF Counts
  <2> QED  BY <1>6, <2>1, <2>2
<1>10. \A j \in sharing!Kinds, u \in sharing!AllTasks \ {c} : Counts(j, u)' <=> Counts(j, u)
  <2>1. ASSUME NEW j \in sharing!Kinds, NEW u \in sharing!AllTasks \ {c}
        PROVE  Counts(j, u)' <=> Counts(j, u)
    <3>1. \A p \in Tasks : child[p] = u => p # t
      BY <1>1
    <3>2. u \in Tasks => (pc'[u] = "embryo" <=> pc[u] = "embryo")
      BY <1>1, <1>4, InForkIs
    <3> QED  BY <1>4, <1>5, <3>1, <3>2, OthersCount
  <2> QED  BY <2>1
<1>11. ASSUME NEW j \in sharing!Kinds, NEW r \in Structs
       PROVE  refs'[j][r] = Cardinality(Having(j, r)')
  <2>1. CASE j = k /\ r = s
    <3>1. c \notin Having(k, s)
      BY <1>9 DEF Having
    <3>2. Having(k, s)' = Having(k, s) \cup {c}
      BY <1>8, <1>9, <1>10 DEF Having
    <3>3. Cardinality(Having(k, s)') = Cardinality(Having(k, s)) + 1
      BY <3>1, <3>2, HavingIsFinite, OneMore
    <3>4. refs[k][s] = Cardinality(Having(k, s))
      BY <1>0 DEF Structures
    <3> QED  BY <1>8, <2>1, <3>3, <3>4
  <2>2. CASE ~(j = k /\ r = s)
    <3>1. Having(j, r)' = Having(j, r)
      <4>1. ASSUME NEW u \in sharing!AllTasks
            PROVE  pointer'[j][u] = r /\ Counts(j, u)' <=> pointer[j][u] = r /\ Counts(j, u)
        <5>1. CASE j = k /\ u = c
          BY <1>8, <1>9, <2>2, <5>1
        <5>2. CASE j # k /\ u = c
          BY <1>8, <1>9, <5>2
        <5>3. CASE u # c
          BY <1>8, <1>10, <5>3
        <5> QED  BY <5>1, <5>2, <5>3
      <4> QED  BY <4>1, SameHaving
    <3> QED  BY <1>0, <1>8, <2>2, <3>1 DEF Structures
  <2> QED  BY <2>1, <2>2
<1>12. ASSUME NEW j \in sharing!Kinds, NEW u \in Tasks
       PROVE  /\ pc'[u] \in {"free", "zombie"} => pointer'[j][u] = None
              /\ pc'[u] \in {"user", "vfork", "lazy"} \cup sharing!InFork
                     => pointer'[j][u] # None
              /\ pc'[u] \in sharing!InFork =>
                   IF j \in sharing!CopiedBefore(pc'[u]) THEN pointer'[j][child'[u]] # None
                   ELSE pointer'[j][child'[u]] = pointer'[j][u]
  <2>1. CASE u = t
    <3>1. pc'[t] = place /\ child'[t] = c /\ pointer'[j][t] = pointer[j][t]
      BY <1>1, <1>4, <1>5, <1>8
    <3>2. pointer[j][t] # None
      BY <1>0, <1>1 DEF Structures
    <3>3. IF j \in sharing!CopiedBefore(k) THEN pointer[j][c] # None
                                            ELSE pointer[j][c] = pointer[j][t]
      BY <1>0, <1>1 DEF Structures
    <3>4. pointer'[j][c] = IF j = k THEN s ELSE pointer[j][c]
      BY <1>8
    <3>5. IF j \in sharing!CopiedBefore(place) THEN pointer'[j][c] # None
          ELSE pointer'[j][c] = pointer[j][t]
      BY <1>6, <3>3, <3>4
    <3>6. place \notin {"free", "zombie"}
      BY InForkIs
    <3> QED  BY <2>1, <3>1, <3>2, <3>5, <3>6
  <2>2. CASE u = c
    BY <1>1, <1>4, <2>2, InForkIs
  <2>3. CASE u # t /\ u # c
    <3>1. pc[u] \in sharing!InFork => child[u] \in Tasks /\ child[u] # c
      BY <1>0, <1>1, <2>3 DEF ForkLinked
    <3>2. pc'[u] = pc[u] /\ child'[u] = child[u] /\ pointer'[j][u] = pointer[j][u]
      BY <1>4, <1>5, <1>8, <2>3
    <3>3. pc[u] \in sharing!InFork => pointer'[j][child[u]] = pointer[j][child[u]]
      BY <1>8, <3>1
    <3> QED  BY <1>0, <3>2, <3>3 DEF Structures
  <2> QED  BY <2>1, <2>2, <2>3
<1>13. \A j \in sharing!Kinds \ {"sig"} : pointer'[j][Idle] # None
  BY <1>0, <1>8 DEF Structures
<1> QED  BY <1>11, <1>12, <1>13 DEF Structures

(* The user that t was of each structure it gives up is gone. *)
LEMMA OneUserLess ==
    ASSUME sharing!SharersAssumption, sharing!StructsAssumption, Shapes, Structures,
           NEW t \in sharing!AllTasks, NEW K,
           refs' = sharing!GivenUp(t, K),
           \A k \in sharing!Kinds, s \in Structs :
              Having(k, s)' = IF k \in K /\ pointer[k][t] = s THEN Having(k, s) \ {t}
                              ELSE Having(k, s),
           \A k \in sharing!Kinds : k \in K => pointer[k][t] \in Structs /\ Counts(k, t)
    PROVE  \A k \in sharing!Kinds, s \in Structs : refs'[k][s] = Cardinality(Having(k, s)')
<1> SUFFICES ASSUME NEW k \in sharing!Kinds, NEW s \in Structs
             PROVE  refs'[k][s] = Cardinality(Having(k, s)')
  OBVIOUS
<1>1. refs[k][s] = Cardinality(Having(k, s)) /\ refs[k] \in [Structs -> Int]
  BY DEF Structures, Shapes
<1>2. refs'[k] = IF k \in K THEN [refs[k] EXCEPT ![pointer[k][t]] = @ - 1] ELSE refs[k]
  BY DEF sharing!GivenUp
<1>3. CASE k \in K /\ pointer[k][t] = s
  <2>1. t \in Having(k, s)
    BY <1>3 DEF Having
  <2>2. Cardinality(Having(k, s)') = Cardinality(Having(k, s)) - 1
    BY <1>3, <2>1, HavingIsFinite, OneLess
  <2> QED  BY <1>1, <1>2, <1>3, <2>2
<1>4. CASE ~(k \in K /\ pointer[k][t] = s)
  BY <1>1, <1>2, <1>4
<1> QED  BY <1>3, <1>4

LEMMA StructuresAtForkFail ==
    ASSUME sharing!SharersAssumption, sharing!StructsAssumption, SharingIInv, NEW t \in Tasks,
           sharing!ForkFail(t)
    PROVE  Structures'
<1> USE DEF sharing!OrNone
<1> /\ Tasks \subseteq sharing!AllTasks /\ Idle \in sharing!AllTasks /\ Idle \notin Tasks
    /\ None \notin sharing!AllTasks /\ None \notin Structs
  BY Apart
<1>0. Shapes /\ ForkLinked /\ Structures
  BY DEF SharingIInv
<1>1. PICK c \in Tasks : /\ c = child[t] /\ t # c /\ pc[t] \in sharing!InFork /\ pc[c] = "embryo"
                         /\ \A p \in Tasks : child[p] = c => p = t
  BY <1>0, ParentAndChild DEF sharing!ForkFail
<1>2. /\ \A u \in Tasks : pc'[u] = IF u = t THEN "user" ELSE IF u = c THEN "free" ELSE pc[u]
      /\ \A u \in Tasks : child'[u] = IF u = t THEN None ELSE child[u]
      /\ refs' = sharing!GivenUp(c, sharing!CopiedBefore(pc[t]))
  BY <1>0, <1>1 DEF sharing!ForkFail, Shapes, sharing!Undone
<1>3. \A k \in sharing!Kinds, u \in sharing!AllTasks : pointer'[k][u]
          = IF u = c THEN None ELSE pointer[k][u]
  BY <1>0, <1>1 DEF sharing!ForkFail, sharing!Without, Shapes
<1>4. \A k \in sharing!Kinds, u \in sharing!AllTasks \ {c} : Counts(k, u)' <=> Counts(k, u)
  <2>1. ASSUME NEW k \in sharing!Kinds, NEW u \in sharing!AllTasks \ {c}
        PROVE  Counts(k, u)' <=> Counts(k, u)
    <3>1. u \in Tasks => (pc'[u] = "embryo" <=> pc[u] = "embryo")
      BY <1>1, <1>2, InForkIs
    <3>2. \A p \in Tasks : /\ child'[p] = u <=> child[p] = u
                           /\ child[p] = u => pc'[p] = pc[p]
      <4>1. ASSUME NEW p \in Tasks, child[p] = u
            PROVE  p # t /\ p # c
        BY <1>0, <1>1, <4>1, InForkIs DEF ForkLinked
      <4> QED  BY <1>2, <4>1
    <3> QED  BY <3>1, <3>2, OthersCount
  <2> QED  BY <2>1
<1>5. \A k \in sharing!Kinds : Counts(k, c) <=> k \in sharing!CopiedBefore(pc[t])
  BY <1>0, <1>1, WhoCounts
<1>6. \A k \in sharing!Kinds, s \in Structs :
         Having(k, s)' = IF k \in sharing!CopiedBefore(pc[t]) /\ pointer[k][c] = s
                         THEN Having(k, s) \ {c} ELSE Having(k, s)
  <2>1. ASSUME NEW k \in sharing!Kinds, NEW s \in Structs
        PROVE  /\ Having(k, s)' = Having(k, s) \ {c}
               /\ c \in Having(k, s) => k \in sharing!CopiedBefore(pc[t]) /\ pointer[k][c] = s
    BY <1>3, <1>4, <1>5 DEF Having
  <2> QED  BY <2>1
<1>7. \A k \in sharing!Kinds : k \in sharing!CopiedBefore(pc[t]) => pointer[k][c] \in Structs
  BY <1>0, <1>1 DEF Structures, Shapes
<1>8. \A k \in sharing!Kinds, s \in Structs : refs'[k][s] = Cardinality(Having(k, s)')
  BY <1>0, <1>2, <1>5, <1>6, <1>7, OneUserLess
<1>9. ASSUME NEW k \in sharing!Kinds, NEW u \in Tasks
      PROVE  /\ pc'[u] \in {"free", "zombie"} => pointer'[k][u] = None
             /\ pc'[u] \in {"user", "vfork", "lazy"} \cup sharing!InFork
                    => pointer'[k][u] # None
             /\ pc'[u] \in sharing!InFork =>
                  IF k \in sharing!CopiedBefore(pc'[u]) THEN pointer'[k][child'[u]] # None
                  ELSE pointer'[k][child'[u]] = pointer'[k][u]
  <2>1. CASE u = t
    <3>1. pointer[k][t] # None
      BY <1>0, <1>1 DEF Structures
    <3> QED  BY <1>1, <1>2, <1>3, <2>1, <3>1, InForkIs
  <2>2. CASE u = c
    BY <1>1, <1>2, <1>3, <2>2, InForkIs
  <2>3. CASE u # t /\ u # c
    <3>1. pc[u] \in sharing!InFork => child[u] \in Tasks /\ child[u] # c
      BY <1>0, <1>1, <2>3 DEF ForkLinked
    <3>2. pc'[u] = pc[u] /\ child'[u] = child[u] /\ pointer'[k][u] = pointer[k][u]
      BY <1>2, <1>3, <2>3
    <3>3. pc[u] \in sharing!InFork => pointer'[k][child[u]] = pointer[k][child[u]]
      BY <1>3, <3>1
    <3> QED  BY <1>0, <3>2, <3>3 DEF Structures
  <2> QED  BY <2>1, <2>2, <2>3
<1>10. \A k \in sharing!Kinds \ {"sig"} : pointer'[k][Idle] # None
  BY <1>0, <1>3 DEF Structures
<1> QED  BY <1>8, <1>9, <1>10 DEF Structures

(* The child that is runnable has a count of all. *)
LEMMA StructuresAtForkLink ==
    ASSUME sharing!SharersAssumption, sharing!StructsAssumption, SharingIInv, NEW t \in Tasks,
           sharing!ForkLink(t)
    PROVE  Structures'
<1> USE DEF sharing!OrNone
<1> /\ Tasks \subseteq sharing!AllTasks /\ Idle \in sharing!AllTasks /\ Idle \notin Tasks
    /\ None \notin sharing!AllTasks /\ None \notin Structs
  BY Apart
<1>0. Shapes /\ ForkLinked /\ Structures
  BY DEF SharingIInv
<1>1. PICK c \in Tasks : /\ c = child[t] /\ t # c /\ pc[t] = "link" /\ pc[c] = "embryo"
                         /\ \A p \in Tasks : child[p] = c => p = t
  BY <1>0, ParentAndChild, InForkIs DEF sharing!ForkLink, sharing!Runs
<1>2. /\ \A u \in Tasks \ {t, c} : pc'[u] = pc[u]
      /\ pc'[c] = "user" /\ pc'[t] \in {"user", "vfork"}
      /\ \A u \in Tasks : child'[u] = IF u = t THEN None ELSE child[u]
      /\ UNCHANGED <<pointer, refs>>
  BY <1>0, <1>1 DEF sharing!ForkLink, Shapes
<1>3. \A k \in sharing!Kinds : Counts(k, c)
  <2>1. sharing!CopiedBefore("link") = sharing!Kinds /\ "link" \in sharing!InFork
    BY CopiedNext, InForkIs
  <2>2. \A k \in sharing!Kinds : Counts(k, child[t]) <=> k \in sharing!CopiedBefore(pc[t])
    BY <1>0, <1>1, <2>1, WhoCounts
  <2> QED  BY <1>1, <2>1, <2>2
<1>4. \A k \in sharing!Kinds, u \in sharing!AllTasks : Counts(k, u)' <=> Counts(k, u)
  <2>1. ASSUME NEW k \in sharing!Kinds, NEW u \in sharing!AllTasks \ {c}
        PROVE  Counts(k, u)' <=> Counts(k, u)
    <3>1. u \in Tasks => (pc'[u] = "embryo" <=> pc[u] = "embryo")
      BY <1>1, <1>2
    <3>2. \A p \in Tasks : /\ child'[p] = u <=> child[p] = u
                           /\ child[p] = u => pc'[p] = pc[p]
      <4>1. ASSUME NEW p \in Tasks, child[p] = u
            PROVE  p # t /\ p # c
        BY <1>0, <1>1, <4>1, InForkIs DEF ForkLinked
      <4> QED  BY <1>2, <4>1
    <3> QED  BY <3>1, <3>2, OthersCount
  <2>2. \A k \in sharing!Kinds : Counts(k, c)'
    BY <1>2 DEF Counts
  <2> QED  BY <1>3, <2>1, <2>2
<1>5. \A k \in sharing!Kinds : pointer[k][t] # None /\ pointer[k][c] # None
  BY <1>0, <1>1, CopiedNext, InForkIs DEF Structures
<1>6. \A u \in Tasks : \/ pc'[u] = pc[u] /\ child'[u] = child[u]
                       \/ /\ pc'[u] \in {"user", "vfork", "lazy"}
                          /\ \A k \in sharing!Kinds : pointer[k][u] # None
  BY <1>2, <1>5
<1> QED  BY <1>0, <1>2, <1>4, <1>6, SameStructures

LEMMA StructuresAtExitNext ==
    ASSUME sharing!SharersAssumption, sharing!StructsAssumption, SharingIInv,
           NEW t \in Tasks, NEW k \in sharing!Kinds, sharing!ExitNext(t, k)
    PROVE  Structures'
<1> USE DEF sharing!OrNone
<1> /\ Tasks \subseteq sharing!AllTasks /\ Idle \in sharing!AllTasks /\ Idle \notin Tasks
    /\ None \notin sharing!AllTasks /\ None \notin Structs
  BY Apart
<1>0. Shapes /\ ForkLinked /\ Structures
  BY DEF SharingIInv
<1>1. /\ pc[t] = "exit" /\ pointer[k][t] \in Structs
      /\ refs' = sharing!GivenUp(t, {k}) /\ UNCHANGED <<pc, child>>
  BY <1>0 DEF sharing!ExitNext, sharing!Runs, Shapes
<1>2. \A j \in sharing!Kinds, u \in sharing!AllTasks :
         pointer'[j][u] = IF j = k /\ u = t THEN None ELSE pointer[j][u]
  BY <1>0 DEF sharing!ExitNext, sharing!Without, Shapes
<1>3. \A j, u : Counts(j, u)' <=> Counts(j, u)
  BY <1>1 DEF Counts
<1>4. \A j \in sharing!Kinds, s \in Structs :
         Having(j, s)' = IF j \in {k} /\ pointer[j][t] = s THEN Having(j, s) \ {t}
                         ELSE Having(j, s)
  <2>1. ASSUME NEW j \in sharing!Kinds, NEW s \in Structs
        PROVE  Having(j, s)' = IF j = k /\ pointer[j][t] = s THEN Having(j, s) \ {t}
                               ELSE Having(j, s)
    <3>1. CASE j = k
      <4>1. Having(k, s)' = Having(k, s) \ {t}
        BY <1>2, <1>3 DEF Having
      <4>2. t \in Having(k, s) => pointer[k][t] = s
        BY DEF Having
      <4> QED  BY <3>1, <4>1, <4>2
    <3>2. CASE j # k
      BY <1>2, <1>3, <3>2 DEF Having
    <3> QED  BY <3>1, <3>2
  <2> QED  BY <2>1
<1>5. Counts(k, t)
  BY <1>1 DEF Counts
<1>6. \A j \in sharing!Kinds, s \in Structs : refs'[j][s] = Cardinality(Having(j, s)')
  BY <1>0, <1>1, <1>4, <1>5, OneUserLess
<1>7. ASSUME NEW j \in sharing!Kinds, NEW u \in Tasks
      PROVE  /\ pc'[u] \in {"free", "zombie"} => pointer'[j][u] = None
             /\ pc'[u] \in {"user", "vfork", "lazy"} \cup sharing!InFork
                    => pointer'[j][u] # None
             /\ pc'[u] \in sharing!InFork =>
                  IF j \in sharing!CopiedBefore(pc'[u]) THEN pointer'[j][child'[u]] # None
                  ELSE pointer'[j][child'[u]] = pointer'[j][u]
  <2>1. CASE u = t
    BY <1>1, <2>1, InForkIs
  <2>2. CASE u # t
    <3>1. pc[u] \in sharing!InFork => child[u] \in Tasks /\ child[u] # t
      BY <1>0, <1>1 DEF ForkLinked
    <3>2. pointer'[j][u] = pointer[j][u]
      BY <1>2, <2>2
    <3>3. pc[u] \in sharing!InFork => pointer'[j][child[u]] = pointer[j][child[u]]
      BY <1>2, <3>1
    <3> QED  BY <1>0, <1>1, <3>2, <3>3 DEF Structures
  <2> QED  BY <2>1, <2>2
<1>8. \A j \in sharing!Kinds \ {"sig"} : pointer'[j][Idle] # None
  BY <1>0, <1>2 DEF Structures
<1> QED  BY <1>6, <1>7, <1>8 DEF Structures

(* Files and file system of the idle task in the place of t's own: they    *)
(* may have been the same.                                                 *)
LEMMA StructuresAtDaemonize ==
    ASSUME sharing!SharersAssumption, sharing!StructsAssumption, SharingIInv, NEW t \in Tasks,
           sharing!Daemonize(t)
    PROVE  Structures'
<1> USE DEF sharing!OrNone
<1> /\ Tasks \subseteq sharing!AllTasks /\ Idle \in sharing!AllTasks /\ Idle \notin Tasks
    /\ None \notin sharing!AllTasks /\ None \notin Structs
  BY Apart
<1> DEFINE taken == {"files", "fs"}
<1>0. Shapes /\ ForkLinked /\ Structures
  BY DEF SharingIInv
<1>1. /\ pc[t] = "user" /\ UNCHANGED <<pc, child>> /\ t # Idle
      /\ \A k \in sharing!Kinds : refs'[k] =
            IF k \in taken THEN [sharing!GivenUp(t, taken)[k] EXCEPT ![pointer[k][Idle]] = @ + 1]
            ELSE refs[k]
  BY DEF sharing!Daemonize, sharing!Runs
<1>2. \A k \in sharing!Kinds : k \in taken
          => pointer[k][t] \in Structs /\ pointer[k][Idle] \in Structs
  BY <1>0, <1>1 DEF Structures, Shapes
<1>3. \A k \in sharing!Kinds, u \in sharing!AllTasks :
         pointer'[k][u] = IF k \in taken /\ u = t THEN pointer[k][Idle] ELSE pointer[k][u]
  BY <1>0 DEF sharing!Daemonize, Shapes
<1>4. (\A j, u : Counts(j, u)' <=> Counts(j, u)) /\ \A j : Counts(j, t)
  BY <1>1 DEF Counts
<1>5. ASSUME NEW k \in sharing!Kinds, NEW s \in Structs
      PROVE  refs'[k][s] = Cardinality(Having(k, s)')
  <2>0. refs[k][s] = Cardinality(Having(k, s)) /\ refs[k] \in [Structs -> Int]
    BY <1>0 DEF Structures, Shapes
  <2>1. CASE k \in taken
    <3>1. PICK old \in Structs, new \in Structs : old = pointer[k][t] /\ new = pointer[k][Idle]
      BY <1>2, <2>1
    <3>2. refs'[k] = [[refs[k] EXCEPT ![old] = @ - 1] EXCEPT ![new] = @ + 1]
      BY <1>1, <2>1, <3>1 DEF sharing!GivenUp
    <3>3. refs'[k][s] = refs[k][s] + (IF s = new THEN 1 ELSE 0) - (IF s = old THEN 1 ELSE 0)
      BY <2>0, <3>2
    <3>4. \A u \in sharing!AllTasks : pointer'[k][u] = IF u = t THEN new ELSE pointer[k][u]
      BY <1>3, <2>1, <3>1
    <3>5. CASE s = old /\ s # new
      <4>1. t \in Having(k, s)
        BY <1>4, <3>1, <3>5 DEF Having
      <4>2. Having(k, s)' = Having(k, s) \ {t}
        BY <1>4, <3>4, <3>5 DEF Having
      <4>3. Cardinality(Having(k, s)') = Cardinality(Having(k, s)) - 1
        BY <4>1, <4>2, HavingIsFinite, OneLess
      <4> QED  BY <2>0, <3>3, <3>5, <4>3
    <3>6. CASE s = new /\ s # old
      <4>1. t \notin Having(k, s)
        BY <3>1, <3>6 DEF Having
      <4>2. Having(k, s)' = Having(k, s) \cup {t}
        BY <1>4, <3>4, <3>6 DEF Having
      <4>3. Cardinality(Having(k, s)') = Cardinality(Having(k, s)) + 1
        BY <4>1, <4>2, HavingIsFinite, OneMore
      <4> QED  BY <2>0, <3>3, <3>6, <4>3
    <3>7. CASE s = old <=> s = new
      <4>1. Having(k, s)' = Having(k, s)
        BY <1>4, <3>1, <3>4, <3>7 DEF Having
      <4> QED  BY <2>0, <3>3, <3>7, <4>1
    <3> QED  BY <3>5, <3>6, <3>7
  <2>2. CASE k \notin taken
    <3>1. Having(k, s)' = Having(k, s)
      BY <1>3, <1>4, <2>2 DEF Having
    <3> QED  BY <1>1, <2>0, <2>2, <3>1
  <2> QED  BY <2>1, <2>2
<1>6. ASSUME NEW k \in sharing!Kinds, NEW u \in Tasks
      PROVE  /\ pc'[u] \in {"free", "zombie"} => pointer'[k][u] = None
             /\ pc'[u] \in {"user", "vfork", "lazy"} \cup sharing!InFork
                    => pointer'[k][u] # None
             /\ pc'[u] \in sharing!InFork =>
                  IF k \in sharing!CopiedBefore(pc'[u]) THEN pointer'[k][child'[u]] # None
                  ELSE pointer'[k][child'[u]] = pointer'[k][u]
  <2>1. CASE u = t
    <3>1. pointer'[k][t] # None
      BY <1>0, <1>1, <1>2, <1>3 DEF Structures
    <3> QED  BY <1>1, <2>1, <3>1, InForkIs
  <2>2. CASE u # t
    <3>1. pc[u] \in sharing!InFork => child[u] \in Tasks /\ child[u] # t
      BY <1>0, <1>1 DEF ForkLinked
    <3>2. pointer'[k][u] = pointer[k][u]
      BY <1>3, <2>2
    <3>3. pc[u] \in sharing!InFork => pointer'[k][child[u]] = pointer[k][child[u]]
      BY <1>3, <3>1
    <3> QED  BY <1>0, <1>1, <3>2, <3>3 DEF Structures
  <2> QED  BY <2>1, <2>2
<1>7. \A k \in sharing!Kinds \ {"sig"} : pointer'[k][Idle] # None
  BY <1>0, <1>1, <1>3 DEF Structures
<1> QED  BY <1>5, <1>6, <1>7 DEF Structures

LEMMA StructuresKept ==
    ASSUME sharing!SharersAssumption, sharing!StructsAssumption, SharingIInv, sharing!Next
    PROVE  Structures'
<1>0. Shapes /\ ForkLinked /\ Structures
  BY DEF SharingIInv
<1>1. ASSUME NEW t \in Tasks, sharing!CopyMm(t) \/ sharing!CopyNamespace(t)
      PROVE  Structures'
  <2>1. PICK p \in {"namespace", "link"} :
           /\ \A u \in Tasks : pc'[u] = IF u = t THEN p ELSE pc[u]
           /\ pc[t] \in {"mm", "namespace"}
           /\ UNCHANGED <<child, pointer, refs>>
    BY <1>0, <1>1 DEF sharing!CopyMm, sharing!CopyNamespace, sharing!Runs, Shapes
  <2>2. /\ sharing!CopiedBefore(p) = sharing!Kinds /\ p \in sharing!InFork
        /\ sharing!CopiedBefore(pc[t]) = sharing!Kinds /\ pc[t] \in sharing!InFork
    BY <2>1, CopiedNext, InForkIs
  <2>3. \A k \in sharing!Kinds, u \in sharing!AllTasks : Counts(k, u)' <=> Counts(k, u)
    <3>1. \A u \in Tasks : pc'[u] = "embryo" <=> pc[u] = "embryo"
      BY <2>1, <2>2, InForkIs
    <3>2. \A u \in Tasks : sharing!CopiedBefore(pc'[u]) = sharing!CopiedBefore(pc[u])
      BY <2>1, <2>2
    <3> QED  BY <2>1, <3>1, <3>2 DEF Counts
  <2> QED  BY <1>0, <2>1, <2>2, <2>3, SameStructures
<1>2. ASSUME NEW t \in Tasks,
             \/ sharing!VforkReturn(t) \/ sharing!Exit(t)
             \/ sharing!ExitNotify(t) \/ sharing!Release(t)
             \/ sharing!StartLazy(t) \/ sharing!EndLazy(t)
      PROVE  Structures'
  <2>1. PICK p \in {"user", "exit", "zombie", "free", "lazy"} :
           /\ \A u \in Tasks : pc'[u] = IF u = t THEN p ELSE pc[u]
           /\ pc[t] \in {"user", "vfork", "exit", "zombie", "lazy"}
           /\ UNCHANGED <<child, pointer, refs>>
           /\ \/ p = "exit" \/ (p = "free" /\ pc[t] = "zombie")
              \/ p = "zombie" /\ \A k \in sharing!Kinds : pointer[k][t] = None
              \/ p \in {"user", "lazy"} /\ pc[t] \in {"user", "vfork", "lazy"}
    BY <1>0, <1>2 DEF sharing!VforkReturn, sharing!Exit, sharing!ExitNotify, sharing!Release,
                      sharing!StartLazy, sharing!EndLazy, sharing!Runs, Shapes
  <2>2. \A k \in sharing!Kinds, u \in sharing!AllTasks : Counts(k, u)' <=> Counts(k, u)
    <3>1. ASSUME NEW k \in sharing!Kinds, NEW u \in sharing!AllTasks
          PROVE  Counts(k, u)' <=> Counts(k, u)
      <4>1. \A q \in Tasks : child[q] = u => q # t
        BY <1>0, <2>1, InForkIs, Apart DEF ForkLinked
      <4>2. u \in Tasks => (pc'[u] = "embryo" <=> pc[u] = "embryo")
        BY <2>1
      <4> QED  BY <2>1, <4>1, <4>2 DEF Counts
    <3> QED  BY <3>1
  <2>3. pc[t] \in {"user", "vfork", "lazy"} => \A k \in sharing!Kinds : pointer[k][t] # None
    BY <1>0 DEF Structures
  <2> QED  BY <1>0, <2>1, <2>2, <2>3, SameStructures
<1>3. ASSUME UNCHANGED <<pc, child, pointer, refs>>
      PROVE  Structures'
  <2>1. \A k, u : Counts(k, u)' <=> Counts(k, u)
    BY <1>3 DEF Counts
  <2> QED  BY <1>0, <1>3, <2>1, SameStructures
<1>4. ASSUME NEW t \in Tasks, sharing!Exec(t)
      PROVE  Structures'
  BY <1>3, <1>4 DEF sharing!Exec
<1>5. ASSUME NEW next \in sharing!AllTasks, sharing!Switch(next)
      PROVE  Structures'
  BY <1>3, <1>5 DEF sharing!Switch
<1> QED  BY <1>1, <1>2, <1>4, <1>5, StructuresAtForkStart, StructuresAtCopy,
            StructuresAtForkFail, StructuresAtForkLink, StructuresAtExitNext,
            StructuresAtDaemonize DEF sharing!Next

------------------------------------------------------------------------------
(* Memory *)

LEMMA CountersChange ==
    ASSUME NEW ms \in Counters, NEW m \in Structs, NEW x \in Structs
    PROVE  /\ ms[x].mm_users \in Int /\ ms[x].mm_count \in Int
           /\ sharing!grab(ms, m)[x].mm_users = ms[x].mm_users
           /\ sharing!grab(ms, m)[x].mm_count = ms[x].mm_count + (IF x = m THEN 1 ELSE 0)
           /\ sharing!mmdrop(ms, m)[x].mm_users = ms[x].mm_users
           /\ sharing!mmdrop(ms, m)[x].mm_count = ms[x].mm_count - (IF x = m THEN 1 ELSE 0)
           /\ sharing!mmput(ms, m)[x].mm_users = ms[x].mm_users - (IF x = m THEN 1 ELSE 0)
           /\ sharing!mmput(ms, m)[x].mm_count =
                 ms[x].mm_count - (IF x = m /\ ms[m].mm_users = 1 THEN 1 ELSE 0)
           /\ sharing!mm_init(ms, m)[x].mm_users = (IF x = m THEN 1 ELSE ms[x].mm_users)
           /\ sharing!mm_init(ms, m)[x].mm_count = (IF x = m THEN 1 ELSE ms[x].mm_count)
<1>1. \A y \in Structs : ms[y] \in [mm_users : Int, mm_count : Int]
  BY DEF Counters
<1>2. /\ sharing!grab(ms, m)[x].mm_users = ms[x].mm_users
      /\ sharing!grab(ms, m)[x].mm_count = ms[x].mm_count + (IF x = m THEN 1 ELSE 0)
  BY <1>1 DEF sharing!grab, Counters
<1>3. /\ sharing!mmdrop(ms, m)[x].mm_users = ms[x].mm_users
      /\ sharing!mmdrop(ms, m)[x].mm_count = ms[x].mm_count - (IF x = m THEN 1 ELSE 0)
  BY <1>1 DEF sharing!mmdrop, Counters
<1>4. /\ sharing!mm_init(ms, m)[x].mm_users = (IF x = m THEN 1 ELSE ms[x].mm_users)
      /\ sharing!mm_init(ms, m)[x].mm_count = (IF x = m THEN 1 ELSE ms[x].mm_count)
  BY <1>1 DEF sharing!mm_init, Counters
<1>5. /\ sharing!mmput(ms, m)[x].mm_users = ms[x].mm_users - (IF x = m THEN 1 ELSE 0)
      /\ sharing!mmput(ms, m)[x].mm_count =
            ms[x].mm_count - (IF x = m /\ ms[m].mm_users = 1 THEN 1 ELSE 0)
  <2> DEFINE less == [ms EXCEPT ![m].mm_users = @ - 1]
  <2>1. /\ less \in Counters
        /\ \A y \in Structs : /\ less[y].mm_users = ms[y].mm_users - (IF y = m THEN 1 ELSE 0)
                              /\ less[y].mm_count = ms[y].mm_count
    BY <1>1 DEF Counters
  <2>2. sharing!mmput(ms, m) = IF less[m].mm_users = 0 THEN sharing!mmdrop(less, m) ELSE less
    BY DEF sharing!mmput
  <2>3. less[m].mm_users = 0 <=> ms[m].mm_users = 1
    BY <1>1, <2>1
  <2> HIDE DEF less
  <2>4. /\ sharing!mmdrop(less, m)[x].mm_users = less[x].mm_users
        /\ sharing!mmdrop(less, m)[x].mm_count = less[x].mm_count - (IF x = m THEN 1 ELSE 0)
    <3>1. \A y \in Structs : less[y] \in [mm_users : Int, mm_count : Int]
      BY <2>1 DEF Counters
    <3> QED  BY <2>1, <3>1 DEF sharing!mmdrop, Counters
  <2> QED  BY <1>1, <2>1, <2>2, <2>3, <2>4
<1> QED  BY <1>1, <1>2, <1>3, <1>4, <1>5

(* __exit_mm(): the user goes, its count of the memory stays. *)
LEMMA UnmappedChange ==
    ASSUME sharing!StructsAssumption, Shapes,
           NEW t \in sharing!AllTasks, NEW m \in Structs, mm[t] = m, NEW x \in Structs
    PROVE  /\ sharing!Unmapped(t)[x].mm_users = mms[x].mm_users - (IF x = m THEN 1 ELSE 0)
           /\ sharing!Unmapped(t)[x].mm_count =
                 mms[x].mm_count + (IF x = m /\ mms[m].mm_users # 1 THEN 1 ELSE 0)
<1>1. mms \in Counters
  BY DEF Shapes, Counters
<1>2. sharing!grab(mms, m) \in Counters
  BY <1>1, MmShapes
<1>3. sharing!Unmapped(t) = sharing!mmput(sharing!grab(mms, m), m)
  BY DEF sharing!Unmapped, sharing!StructsAssumption
<1>4. /\ sharing!grab(mms, m)[x].mm_users = mms[x].mm_users
      /\ sharing!grab(mms, m)[m].mm_users = mms[m].mm_users
      /\ sharing!grab(mms, m)[x].mm_count = mms[x].mm_count + (IF x = m THEN 1 ELSE 0)
      /\ mms[x].mm_users \in Int /\ mms[x].mm_count \in Int
  BY <1>1, CountersChange
<1>5. /\ sharing!mmput(sharing!grab(mms, m), m)[x].mm_users =
            sharing!grab(mms, m)[x].mm_users - (IF x = m THEN 1 ELSE 0)
      /\ sharing!mmput(sharing!grab(mms, m), m)[x].mm_count = sharing!grab(mms, m)[x].mm_count
            - (IF x = m /\ sharing!grab(mms, m)[m].mm_users = 1 THEN 1 ELSE 0)
  BY <1>2, CountersChange
<1> QED  BY <1>3, <1>4, <1>5

LEMMA InsideIsFinite ==
    ASSUME sharing!SharersAssumption, sharing!StructsAssumption, NEW m
    PROVE  IsFiniteSet(Inside(m)) /\ Cardinality(Inside(m)) \in Nat
<1>1. IsFiniteSet(Inside(m))
  BY Apart, FS_Subset DEF Inside
<1> QED  BY <1>1, FS_CardinalityType

(* Memory with a task inside has users. *)
LEMMA InsideIsUsed ==
    ASSUME sharing!SharersAssumption, sharing!StructsAssumption, Memory, NEW m \in Structs
    PROVE  /\ mms[m].mm_users \in Nat
           /\ mms[m].mm_users = 0 <=> Inside(m) = {}
<1>1. mms[m].mm_users = Cardinality(Inside(m))
  BY DEF Memory
<1> QED  BY <1>1, InsideIsFinite, FS_EmptySet

(* Memory that kmem_cache_alloc() may give has no users and no borrower.   *)
LEMMA FreeIsUnused ==
    ASSUME sharing!SharersAssumption, sharing!StructsAssumption, Memory, NEW m \in Structs,
           mms[m].mm_count = 0
    PROVE  Borrowed(m) = 0 /\ mms[m].mm_users = 0 /\ Inside(m) = {}
<1>1. mms[m].mm_count >= Borrowed(m) + (IF mms[m].mm_users = 0 THEN 0 ELSE 1)
  BY DEF Memory
<1>2. Borrowed(m) \in {0, 1}
  BY DEF Borrowed
<1> QED  BY <1>1, <1>2, InsideIsUsed

LEMMA SameInside ==
    ASSUME NEW m, \A t \in sharing!AllTasks :
              (mm'[t] = m /\ HasMm(t)') \/ (t \in Tasks /\ lazy'[t] = m) <=>
              (mm[t] = m /\ HasMm(t)) \/ (t \in Tasks /\ lazy[t] = m)
    PROVE  Inside(m)' = Inside(m)
BY DEF Inside

LEMMA SameMemory ==
    ASSUME Memory, UNCHANGED <<mm, active_mm, mms, lazy, current, leaked>>,
           \A t \in sharing!AllTasks : HasMm(t)' <=> HasMm(t)
    PROVE  Memory'
<1>1. \A m \in Structs : Inside(m)' = Inside(m) /\ Borrowed(m)' = Borrowed(m)
  BY SameInside DEF Borrowed
<1> QED  BY <1>1 DEF Memory

LEMMA WhoHasMm ==
    ASSUME sharing!SharersAssumption, Shapes, ForkLinked
    PROVE  /\ \A t \in Tasks : pc[t] \in sharing!InFork =>
                 (HasMm(child[t]) <=> pc[t] \in {"namespace", "link"})
           /\ \A t \in Tasks : pc[t] # "embryo" => HasMm(t)
<1>1. ASSUME NEW t \in Tasks, pc[t] \in sharing!InFork
      PROVE  HasMm(child[t]) <=> pc[t] \in {"namespace", "link"}
  BY <1>1, ParentAndChild DEF HasMm
<1> QED  BY <1>1 DEF HasMm

LEMMA OthersHaveMm ==
    ASSUME NEW u,
           u \in Tasks => (pc'[u] = "embryo" <=> pc[u] = "embryo"),
           \A p \in Tasks : /\ child'[p] = u <=> child[p] = u
                            /\ child[p] = u => (pc'[p] \in {"namespace", "link"} <=>
                                                pc[p] \in {"namespace", "link"})
    PROVE  HasMm(u)' <=> HasMm(u)
BY DEF HasMm

LEMMA MemoryAtForkStart ==
    ASSUME sharing!SharersAssumption, sharing!StructsAssumption, SharingIInv,
           NEW t \in Tasks, NEW c \in Tasks, NEW flags \in Clones,
           sharing!ForkStart(t, c, flags)
    PROVE  Memory'
<1> USE DEF sharing!OrNone
<1> /\ Tasks \subseteq sharing!AllTasks /\ Idle \in sharing!AllTasks /\ Idle \notin Tasks
    /\ None \notin sharing!AllTasks /\ None \notin Structs
  BY Apart
<1>0. Shapes /\ ForkLinked /\ Fields /\ Memory
  BY DEF SharingIInv
<1>1. /\ t # c /\ pc[t] = "user" /\ pc[c] = "free" /\ current = t
      /\ \A u \in Tasks : pc'[u] = IF u = t THEN "files" ELSE IF u = c THEN "embryo" ELSE pc[u]
      /\ \A u \in Tasks : child'[u] = IF u = t THEN c ELSE child[u]
      /\ \A u \in sharing!AllTasks : /\ mm'[u] = IF u = c THEN mm[t] ELSE mm[u]
                                     /\ active_mm'[u]
                                            = IF u = c THEN active_mm[t] ELSE active_mm[u]
      /\ UNCHANGED <<mms, lazy, current, leaked>>
  BY <1>0 DEF sharing!ForkStart, sharing!Runs, Shapes
<1>2. child[t] = None /\ \A u \in Tasks : child[u] # c
  BY <1>0, <1>1, InForkIs DEF ForkLinked
<1>3. ~HasMm(c)'
  <2>1. \A p \in Tasks : child'[p] = c => p = t
    BY <1>1, <1>2
  <2> QED  BY <1>1, <2>1 DEF HasMm
<1>4. \A u \in sharing!AllTasks \ {c} : HasMm(u)' <=> HasMm(u)
  <2>1. ASSUME NEW u \in sharing!AllTasks \ {c}
        PROVE  HasMm(u)' <=> HasMm(u)
    <3>1. u \in Tasks => (pc'[u] = "embryo" <=> pc[u] = "embryo")
      BY <1>1
    <3>2. \A p \in Tasks : /\ child'[p] = u <=> child[p] = u
                           /\ child[p] = u => pc'[p] = pc[p]
      <4>1. ASSUME NEW p \in Tasks, child[p] = u
            PROVE  p # t /\ p # c
        BY <1>0, <1>1, <1>2, <4>1, InForkIs DEF ForkLinked
      <4> QED  BY <1>1, <4>1
    <3> QED  BY <3>1, <3>2, OthersHaveMm
  <2> QED  BY <2>1
<1>5. mm[c] = None /\ lazy[c] = None
  BY <1>0, <1>1 DEF Fields
<1>6. \A m \in Structs : Inside(m)' = Inside(m)
  <2>1. ASSUME NEW m \in Structs
        PROVE  Inside(m)' = Inside(m)
    BY <1>1, <1>3, <1>4, <1>5, SameInside
  <2> QED  BY <2>1
<1>7. \A m \in Structs : Borrowed(m)' = Borrowed(m)
  BY <1>1 DEF Borrowed
<1>8. /\ active_mm'[current'] # None
      /\ \A u \in sharing!AllTasks : mm'[u] # None => active_mm'[u] = mm'[u]
      /\ \A u \in sharing!AllTasks \ {current'} :
            HasMm(u)' /\ mm'[u] = None => active_mm'[u] = None
  BY <1>0, <1>1, <1>3, <1>4 DEF Memory
<1> QED  BY <1>0, <1>1, <1>6, <1>7, <1>8 DEF Memory

(* The child is one more user of memory, or the first one. *)
LEMMA MemoryAtCopyMm ==
    ASSUME sharing!SharersAssumption, sharing!StructsAssumption, SharingIInv, NEW t \in Tasks,
           sharing!CopyMm(t)
    PROVE  Memory'
<1> USE DEF sharing!OrNone
<1> /\ Tasks \subseteq sharing!AllTasks /\ Idle \in sharing!AllTasks /\ Idle \notin Tasks
    /\ None \notin sharing!AllTasks /\ None \notin Structs
  BY Apart
<1>0. Shapes /\ ForkLinked /\ Fields /\ Memory /\ mms \in Counters
  BY DEF SharingIInv, Shapes, Counters
<1>1. PICK c \in Tasks : /\ c = child[t] /\ t # c /\ pc[t] = "mm" /\ pc[c] = "embryo"
                         /\ \A p \in Tasks : child[p] = c => p = t
  BY <1>0, ParentAndChild, InForkIs DEF sharing!CopyMm, sharing!Runs
<1>2. PICK m \in sharing!OrNone(Structs) :
         /\ \/ m = None /\ mms' = mms
            \/ /\ m # None /\ m = mm[t] /\ mms' = [mms EXCEPT ![m].mm_users = @ + 1]
            \/ /\ m # None /\ mms[m].mm_count = 0 /\ mms' = sharing!mm_init(mms, m)
         /\ mm' = [mm EXCEPT ![c] = m]
         /\ active_mm' = [active_mm EXCEPT ![c] = m]
  BY <1>1, FreshMm DEF sharing!CopyMm
<1>3. /\ \A u \in Tasks : pc'[u] = IF u = t THEN "namespace" ELSE pc[u]
      /\ \A u \in sharing!AllTasks : /\ mm'[u] = IF u = c THEN m ELSE mm[u]
                                     /\ active_mm'[u] = IF u = c THEN m ELSE active_mm[u]
      /\ current = t /\ UNCHANGED <<child, lazy, current, leaked>>
  BY <1>0, <1>2 DEF sharing!CopyMm, sharing!Runs, Shapes
<1>4. ~HasMm(c) /\ HasMm(c)'
  <2>1. ~HasMm(c)
    BY <1>0, <1>1, WhoHasMm, InForkIs
  <2> QED  BY <1>1, <1>3, <2>1 DEF HasMm
<1>5. \A u \in sharing!AllTasks \ {c} : HasMm(u)' <=> HasMm(u)
  <2>1. ASSUME NEW u \in sharing!AllTasks \ {c}
        PROVE  HasMm(u)' <=> HasMm(u)
    <3>1. \A p \in Tasks : child[p] = u => p # t
      BY <1>1
    <3> QED  BY <1>1, <1>3, <3>1, OthersHaveMm
  <2> QED  BY <2>1
<1>6. lazy[c] = None
  BY <1>0, <1>1 DEF Fields
<1>7. \A x \in Structs : /\ Inside(x)' = IF x = m THEN Inside(x) \cup {c} ELSE Inside(x)
                         /\ c \notin Inside(x)
  <2>1. ASSUME NEW x \in Structs, x # m
        PROVE  Inside(x)' = Inside(x)
    BY <1>3, <1>4, <1>5, <1>6, <2>1, SameInside
  <2>2. ASSUME NEW x \in Structs, x = m
        PROVE  Inside(x)' = Inside(x) \cup {c}
    BY <1>3, <1>4, <1>5, <1>6, <2>2 DEF Inside
  <2>3. \A x \in Structs : c \notin Inside(x)
    BY <1>4, <1>6 DEF Inside
  <2> QED  BY <2>1, <2>2, <2>3
<1>8. \A x \in Structs : Borrowed(x)' = Borrowed(x)
  BY <1>1, <1>3 DEF Borrowed
<1>9. /\ active_mm'[current'] # None
      /\ \A u \in sharing!AllTasks : mm'[u] # None => active_mm'[u] = mm'[u]
      /\ \A u \in sharing!AllTasks \ {current'} :
            HasMm(u)' /\ mm'[u] = None => active_mm'[u] = None
  BY <1>0, <1>1, <1>3, <1>5 DEF Memory
<1>10. ASSUME NEW x \in Structs
       PROVE  /\ mms'[x].mm_users = mms[x].mm_users + (IF x = m THEN 1 ELSE 0)
              /\ \/ mms'[x].mm_count = mms[x].mm_count
                    /\ (x = m => mms[x].mm_users > 0)
                 \/ /\ x = m /\ mms[m].mm_count = 0 /\ mms'[m].mm_count = 1
                    /\ mms[x].mm_users = 0
  <2>0. mms[x].mm_users \in Nat
    BY <1>0, InsideIsUsed
  <2>1. CASE m = None /\ mms' = mms
    BY <2>0, <2>1
  <2>2. CASE m # None /\ m = mm[t] /\ mms' = [mms EXCEPT ![m].mm_users = @ + 1]
    <3>1. t \in Inside(m)
      <4>1. HasMm(t)
        BY <1>1 DEF HasMm
      <4> QED  BY <2>2, <4>1 DEF Inside
    <3>2. mms[m].mm_users > 0
      BY <1>0, <2>2, <3>1, InsideIsUsed
    <3>3. /\ mms'[x].mm_users = mms[x].mm_users + (IF x = m THEN 1 ELSE 0)
          /\ mms'[x].mm_count = mms[x].mm_count
      <4>1. \A y \in Structs : mms[y] \in [mm_users : Int, mm_count : Int]
        BY <1>0 DEF Counters
      <4> QED  BY <1>0, <2>0, <2>2, <4>1 DEF Counters
    <3> QED  BY <3>2, <3>3
  <2>3. CASE m # None /\ mms[m].mm_count = 0 /\ mms' = sharing!mm_init(mms, m)
    <3>1. mms[m].mm_users = 0
      BY <1>0, <2>3, FreeIsUnused
    <3>2. /\ mms'[x].mm_users = (IF x = m THEN 1 ELSE mms[x].mm_users)
          /\ mms'[x].mm_count = (IF x = m THEN 1 ELSE mms[x].mm_count)
      BY <1>0, <2>3, CountersChange
    <3> QED  BY <2>0, <2>3, <3>1, <3>2
  <2> QED  BY <1>2, <2>1, <2>2, <2>3
<1>11. \A x \in Structs : mms'[x].mm_users = Cardinality(Inside(x)')
  <2>1. ASSUME NEW x \in Structs
        PROVE  mms'[x].mm_users = Cardinality(Inside(x)')
    <3>1. mms[x].mm_users = Cardinality(Inside(x))
      BY <1>0 DEF Memory
    <3>2. CASE x = m
      <4>1. Cardinality(Inside(x)') = Cardinality(Inside(x)) + 1
        BY <1>7, <3>2, InsideIsFinite, OneMore
      <4> QED  BY <1>10, <3>1, <3>2, <4>1
    <3>3. CASE x # m
      BY <1>7, <1>10, <3>1, <3>3, InsideIsFinite
    <3> QED  BY <3>2, <3>3
  <2> QED  BY <2>1
<1>12. ASSUME NEW x \in Structs
       PROVE  LET exact == Borrowed(x)' + (IF mms'[x].mm_users = 0 THEN 0 ELSE 1)
              IN  mms'[x].mm_count >= exact /\ (x \notin leaked' => mms'[x].mm_count = exact)
  <2>1. LET exact == Borrowed(x) + (IF mms[x].mm_users = 0 THEN 0 ELSE 1)
        IN  mms[x].mm_count >= exact /\ (x \notin leaked => mms[x].mm_count = exact)
    BY <1>0 DEF Memory
  <2>2. Borrowed(x) \in {0, 1} /\ mms[x].mm_users \in Nat
    BY <1>0, InsideIsUsed DEF Borrowed
  <2>3. mms[x].mm_count = 0 => Borrowed(x) = 0
    BY <1>0, FreeIsUnused
  <2> QED  BY <1>3, <1>8, <1>10, <2>1, <2>2, <2>3
<1> QED  BY <1>9, <1>11, <1>12 DEF Memory

(* exit_mm() of the task in the making: its count stays behind. *)
LEMMA MemoryAtForkFail ==
    ASSUME sharing!SharersAssumption, sharing!StructsAssumption, SharingIInv, NEW t \in Tasks,
           sharing!ForkFail(t)
    PROVE  Memory'
<1> USE DEF sharing!OrNone
<1> /\ Tasks \subseteq sharing!AllTasks /\ Idle \in sharing!AllTasks /\ Idle \notin Tasks
    /\ None \notin sharing!AllTasks /\ None \notin Structs
  BY Apart
<1>0. Shapes /\ ForkLinked /\ Fields /\ Memory /\ mms \in Counters
  BY DEF SharingIInv, Shapes, Counters
<1>1. PICK c \in Tasks : /\ c = child[t] /\ t # c /\ pc[t] \in sharing!InFork /\ pc[c] = "embryo"
                         /\ \A p \in Tasks : child[p] = c => p = t
  BY <1>0, ParentAndChild DEF sharing!ForkFail
<1>2. /\ \A u \in Tasks : pc'[u] = IF u = t THEN "user" ELSE IF u = c THEN "free" ELSE pc[u]
      /\ \A u \in Tasks : child'[u] = IF u = t THEN None ELSE child[u]
      /\ \A u \in sharing!AllTasks : /\ mm'[u] = IF u = c THEN None ELSE mm[u]
                                     /\ active_mm'[u] = IF u = c THEN None ELSE active_mm[u]
      /\ current = t /\ UNCHANGED <<lazy, current>>
  BY <1>0, <1>1 DEF sharing!ForkFail, Shapes
<1>3. \A u \in sharing!AllTasks \ {c} : HasMm(u)' <=> HasMm(u)
  <2>1. ASSUME NEW u \in sharing!AllTasks \ {c}
        PROVE  HasMm(u)' <=> HasMm(u)
    <3>1. u \in Tasks => (pc'[u] = "embryo" <=> pc[u] = "embryo")
      BY <1>1, <1>2, InForkIs
    <3>2. \A p \in Tasks : /\ child'[p] = u <=> child[p] = u
                           /\ child[p] = u => pc'[p] = pc[p]
      <4>1. ASSUME NEW p \in Tasks, child[p] = u
            PROVE  p # t /\ p # c
        BY <1>0, <1>1, <4>1, InForkIs DEF ForkLinked
      <4> QED  BY <1>2, <4>1
    <3> QED  BY <3>1, <3>2, OthersHaveMm
  <2> QED  BY <2>1
<1>4. lazy[c] = None
  BY <1>0, <1>1 DEF Fields
<1>5. HasMm(c) <=> pc[t] \in {"namespace", "link"}
  BY <1>0, <1>1, WhoHasMm
<1>6. pc[t] # "link"
  BY DEF sharing!ForkFail, sharing!CanFail
<1>7. \A x \in Structs : Inside(x)' = IF mm[c] = x /\ pc[t] = "namespace" THEN Inside(x) \ {c}
                                      ELSE Inside(x)
  <2>1. ASSUME NEW x \in Structs
        PROVE  /\ Inside(x)' = Inside(x) \ {c}
               /\ c \in Inside(x) <=> mm[c] = x /\ pc[t] = "namespace"
    <3>1. Inside(x)' = Inside(x) \ {c}
      BY <1>2, <1>3, <1>4 DEF Inside
    <3>2. c \in Inside(x) <=> mm[c] = x /\ pc[t] = "namespace"
      BY <1>4, <1>5, <1>6 DEF Inside
    <3> QED  BY <3>1, <3>2
  <2> QED  BY <2>1
<1>8. \A x \in Structs : Borrowed(x)' = Borrowed(x)
  BY <1>1, <1>2 DEF Borrowed
<1>9. /\ active_mm'[current'] # None
      /\ \A u \in sharing!AllTasks : mm'[u] # None => active_mm'[u] = mm'[u]
      /\ \A u \in sharing!AllTasks \ {current'} :
            HasMm(u)' /\ mm'[u] = None => active_mm'[u] = None
  BY <1>0, <1>1, <1>2, <1>3 DEF Memory
<1>10. CASE pc[t] = "namespace" /\ mm[c] # None
  <2>1. PICK m \in Structs : mm[c] = m
    BY <1>0, <1>10 DEF Shapes
  <2>2. mms' = sharing!Unmapped(c) /\ leaked' = leaked \cup {m}
    BY <1>1, <1>10, <2>1 DEF sharing!ForkFail
  <2>3. \A x \in Structs :
           /\ mms'[x].mm_users = mms[x].mm_users - (IF x = m THEN 1 ELSE 0)
           /\ mms'[x].mm_count = mms[x].mm_count + (IF x = m /\ mms[m].mm_users # 1 THEN 1 ELSE 0)
    BY <1>0, <2>1, <2>2, UnmappedChange
  <2>4. c \in Inside(m) /\ mms[m].mm_users > 0
    <3>1. c \in Inside(m)
      BY <1>5, <1>10, <2>1 DEF Inside
    <3> QED  BY <1>0, <3>1, InsideIsUsed
  <2>5. ASSUME NEW x \in Structs
        PROVE  mms'[x].mm_users = Cardinality(Inside(x)')
    <3>1. mms[x].mm_users = Cardinality(Inside(x))
      BY <1>0 DEF Memory
    <3>2. CASE x = m
      <4>1. Cardinality(Inside(x)') = Cardinality(Inside(x)) - 1
        BY <1>7, <1>10, <2>1, <2>4, <3>2, InsideIsFinite, OneLess
      <4> QED  BY <2>3, <3>1, <3>2, <4>1
    <3>3. CASE x # m
      BY <1>7, <2>1, <2>3, <3>1, <3>3, InsideIsFinite
    <3> QED  BY <3>2, <3>3
  <2>6. ASSUME NEW x \in Structs
        PROVE  LET exact == Borrowed(x)' + (IF mms'[x].mm_users = 0 THEN 0 ELSE 1)
               IN  mms'[x].mm_count >= exact /\ (x \notin leaked' => mms'[x].mm_count = exact)
    <3>1. LET exact == Borrowed(x) + (IF mms[x].mm_users = 0 THEN 0 ELSE 1)
          IN  mms[x].mm_count >= exact /\ (x \notin leaked => mms[x].mm_count = exact)
      BY <1>0 DEF Memory
    <3>2. Borrowed(x) \in {0, 1} /\ mms[x].mm_users \in Nat /\ mms[x].mm_count \in Int
      BY <1>0, InsideIsUsed, CountersChange DEF Borrowed
    <3>3. /\ mms'[x].mm_users = mms[x].mm_users - (IF x = m THEN 1 ELSE 0)
          /\ mms'[x].mm_count =
                mms[x].mm_count + (IF x = m /\ mms[m].mm_users # 1 THEN 1 ELSE 0)
          /\ Borrowed(x)' = Borrowed(x) /\ mms[m].mm_users > 0
      BY <1>8, <2>3, <2>4
    <3>4. CASE x = m
      <4>1. x \in leaked'
        BY <2>2, <3>4
      <4>2. mms'[x].mm_count >= Borrowed(x)' + (IF mms'[x].mm_users = 0 THEN 0 ELSE 1)
        <5>1. mms[x].mm_users > 0 /\ mms'[x].mm_users = mms[x].mm_users - 1
          BY <3>3, <3>4
        <5>2. CASE mms[x].mm_users = 1
          <6>1. mms'[x].mm_count = mms[x].mm_count
            BY <3>2, <3>3, <3>4, <5>2
          <6> QED  BY <3>1, <3>2, <3>3, <5>1, <5>2, <6>1
        <5>3. CASE mms[x].mm_users # 1
          <6>1. mms'[x].mm_count = mms[x].mm_count + 1
            BY <3>2, <3>3, <3>4, <5>3
          <6> QED  BY <3>1, <3>2, <3>3, <5>1, <5>3, <6>1
        <5> QED  BY <5>2, <5>3
      <4> QED  BY <4>1, <4>2
    <3>5. CASE x # m
      <4>1. x \in leaked' <=> x \in leaked
        BY <2>2, <3>5
      <4>2. mms'[x].mm_users = mms[x].mm_users /\ mms'[x].mm_count = mms[x].mm_count
        BY <3>2, <3>3, <3>5
      <4> QED  BY <3>1, <3>3, <4>1, <4>2
    <3> QED  BY <3>4, <3>5
  <2> QED  BY <1>9, <2>5, <2>6 DEF Memory
<1>11. CASE ~(pc[t] = "namespace" /\ mm[c] # None)
  <2>1. mms' = mms /\ leaked' = leaked
    BY <1>1, <1>11 DEF sharing!ForkFail, sharing!Unmapped
  <2>2. \A x \in Structs : Inside(x)' = Inside(x)
    BY <1>7, <1>11
  <2> QED  BY <1>0, <1>8, <1>9, <2>1, <2>2 DEF Memory
<1> QED  BY <1>10, <1>11

(* Steps of the current task alone, which is not in do_fork(). *)
LEMMA SameHasMm ==
    ASSUME sharing!SharersAssumption, Shapes, ForkLinked, NEW t \in Tasks, NEW p,
           \A u \in Tasks : pc'[u] = IF u = t THEN p ELSE pc[u],
           UNCHANGED child,
           pc[t] \notin sharing!InFork \cup {"embryo"}, p # "embryo"
    PROVE  \A u \in sharing!AllTasks : HasMm(u)' <=> HasMm(u)
<1> SUFFICES ASSUME NEW u \in sharing!AllTasks
             PROVE  HasMm(u)' <=> HasMm(u)
  OBVIOUS
<1>1. \A q \in Tasks : child[q] = u => q # t
  BY DEF ForkLinked, sharing!SharersAssumption
<1>2. u \in Tasks => (pc'[u] = "embryo" <=> pc[u] = "embryo")
  OBVIOUS
<1> QED  BY <1>1, <1>2, OthersHaveMm

(* The current task gives its memory up and goes on with what is mapped.   *)
LEMMA MemoryAtExitMm ==
    ASSUME sharing!SharersAssumption, sharing!StructsAssumption, SharingIInv, NEW t \in Tasks,
           sharing!Exit(t) \/ sharing!Daemonize(t)
    PROVE  Memory'
<1> USE DEF sharing!OrNone
<1> /\ Tasks \subseteq sharing!AllTasks /\ Idle \in sharing!AllTasks /\ Idle \notin Tasks
    /\ None \notin sharing!AllTasks /\ None \notin Structs
  BY Apart
<1>0. Shapes /\ ForkLinked /\ Fields /\ Memory /\ mms \in Counters
  BY DEF SharingIInv, Shapes, Counters
<1>1. PICK p \in {"user", "exit"} :
         /\ \A u \in Tasks : pc'[u] = IF u = t THEN p ELSE pc[u]
         /\ pc[t] = "user" /\ current = t
         /\ UNCHANGED <<child, active_mm, lazy, current, leaked>>
         /\ mms' = sharing!Unmapped(t)
         /\ \A u \in sharing!AllTasks : mm'[u] = IF u = t THEN None ELSE mm[u]
  BY <1>0 DEF sharing!Exit, sharing!Daemonize, sharing!ExitMm, sharing!Runs, Shapes
<1>2. \A u \in sharing!AllTasks : HasMm(u)' <=> HasMm(u)
  BY <1>0, <1>1, SameHasMm, InForkIs
<1>3. HasMm(t) /\ lazy[t] = None
  BY <1>0, <1>1 DEF HasMm, Fields
<1>4. /\ active_mm'[current'] # None
      /\ \A u \in sharing!AllTasks : mm'[u] # None => active_mm'[u] = mm'[u]
      /\ \A u \in sharing!AllTasks \ {current'} :
            HasMm(u)' /\ mm'[u] = None => active_mm'[u] = None
  BY <1>0, <1>1, <1>2 DEF Memory
<1>5. CASE mm[t] = None
  <2>1. mms' = mms /\ \A u \in sharing!AllTasks : mm'[u] = mm[u]
    BY <1>1, <1>5 DEF sharing!Unmapped
  <2>2. \A x \in Structs : Inside(x)' = Inside(x) /\ Borrowed(x)' = Borrowed(x)
    BY <1>1, <1>2, <2>1, SameInside DEF Borrowed
  <2> QED  BY <1>0, <1>1, <1>4, <2>1, <2>2 DEF Memory
<1>6. CASE mm[t] # None
  <2>1. PICK m \in Structs : mm[t] = m
    BY <1>0, <1>6 DEF Shapes
  <2>2. \A x \in Structs :
           /\ mms'[x].mm_users = mms[x].mm_users - (IF x = m THEN 1 ELSE 0)
           /\ mms'[x].mm_count = mms[x].mm_count + (IF x = m /\ mms[m].mm_users # 1 THEN 1 ELSE 0)
    BY <1>0, <1>1, <2>1, UnmappedChange
  <2>3. t \in Inside(m) /\ mms[m].mm_users > 0
    <3>1. t \in Inside(m)
      BY <1>3, <2>1 DEF Inside
    <3> QED  BY <1>0, <3>1, InsideIsUsed
  <2>4. \A x \in Structs : Inside(x)' = IF x = m THEN Inside(x) \ {t} ELSE Inside(x)
    <3>1. ASSUME NEW x \in Structs
          PROVE  Inside(x)' = Inside(x) \ {t} /\ (t \in Inside(x) => x = m)
      BY <1>1, <1>2, <1>3, <2>1 DEF Inside
    <3> QED  BY <3>1
  <2>5. \A x \in Structs : /\ Borrowed(x) = 0
                           /\ Borrowed(x)' = IF x = m THEN 1 ELSE 0
    BY <1>0, <1>1, <1>6, <2>1 DEF Borrowed, Memory
  <2>6. ASSUME NEW x \in Structs
        PROVE  mms'[x].mm_users = Cardinality(Inside(x)')
    <3>1. mms[x].mm_users = Cardinality(Inside(x))
      BY <1>0 DEF Memory
    <3>2. CASE x = m
      <4>1. Cardinality(Inside(x)') = Cardinality(Inside(x)) - 1
        BY <2>3, <2>4, <3>2, InsideIsFinite, OneLess
      <4> QED  BY <2>2, <3>1, <3>2, <4>1
    <3>3. CASE x # m
      BY <2>2, <2>4, <3>1, <3>3, InsideIsFinite
    <3> QED  BY <3>2, <3>3
  <2>7. ASSUME NEW x \in Structs
        PROVE  LET exact == Borrowed(x)' + (IF mms'[x].mm_users = 0 THEN 0 ELSE 1)
               IN  mms'[x].mm_count >= exact /\ (x \notin leaked' => mms'[x].mm_count = exact)
    <3>1. LET exact == Borrowed(x) + (IF mms[x].mm_users = 0 THEN 0 ELSE 1)
          IN  mms[x].mm_count >= exact /\ (x \notin leaked => mms[x].mm_count = exact)
      BY <1>0 DEF Memory
    <3>2. mms[x].mm_users \in Nat /\ mms[x].mm_count \in Int
      BY <1>0, InsideIsUsed, CountersChange
    <3> QED  BY <1>1, <2>2, <2>3, <2>5, <3>1, <3>2
  <2> QED  BY <1>4, <2>6, <2>7 DEF Memory
<1> QED  BY <1>5, <1>6

(* Memory of its own; the old one has another user left. *)
LEMMA MemoryAtExec ==
    ASSUME sharing!SharersAssumption, sharing!StructsAssumption, SharingIInv, NEW t \in Tasks,
           sharing!Exec(t)
    PROVE  Memory'
<1> USE DEF sharing!OrNone
<1> /\ Tasks \subseteq sharing!AllTasks /\ Idle \in sharing!AllTasks /\ Idle \notin Tasks
    /\ None \notin sharing!AllTasks /\ None \notin Structs
  BY Apart
<1>0. Shapes /\ ForkLinked /\ Fields /\ Memory /\ mms \in Counters
  BY DEF SharingIInv, Shapes, Counters
<1>1. /\ pc[t] = "user" /\ current = t /\ mm[t] # None
      /\ UNCHANGED <<pc, child, lazy, current, leaked>>
  BY DEF sharing!Exec, sharing!Runs
<1>2. \A u \in sharing!AllTasks : HasMm(u)' <=> HasMm(u)
  BY <1>1 DEF HasMm
<1>3. HasMm(t) /\ lazy[t] = None
  BY <1>0, <1>1 DEF HasMm, Fields
<1>4. CASE UNCHANGED <<mm, active_mm, mms>>
  BY <1>0, <1>1, <1>2, <1>4, SameMemory
<1>5. CASE ~UNCHANGED <<mm, active_mm, mms>>
  <2>1. PICK old \in Structs : mm[t] = old
    BY <1>0, <1>1 DEF Shapes
  <2>2. mms[old].mm_users > 1 /\ sharing!FreeMms # {}
    BY <1>5, <2>1 DEF sharing!Exec
  <2>3. PICK m \in Structs : m = sharing!Lowest(sharing!FreeMms) /\ mms[m].mm_count = 0
    BY <2>2, FreshMm
  <2>4. /\ mms' = sharing!mmput(sharing!mm_init(mms, m), old)
        /\ \A u \in sharing!AllTasks : /\ mm'[u] = IF u = t THEN m ELSE mm[u]
                                       /\ active_mm'[u] = IF u = t THEN m ELSE active_mm[u]
    BY <1>0, <1>5, <2>1, <2>3 DEF sharing!Exec, Shapes
  <2>5. mms[m].mm_users = 0 /\ Inside(m) = {} /\ m # old /\ Borrowed(m) = 0
    BY <1>0, <2>2, <2>3, FreeIsUnused
  <2>6. \A x \in Structs :
           /\ mms'[x].mm_users = IF x = m THEN 1
                                 ELSE mms[x].mm_users - (IF x = old THEN 1 ELSE 0)
           /\ mms'[x].mm_count = IF x = m THEN 1 ELSE mms[x].mm_count
    <3>1. ASSUME NEW x \in Structs
          PROVE  /\ mms'[x].mm_users = IF x = m THEN 1
                                       ELSE mms[x].mm_users - (IF x = old THEN 1 ELSE 0)
                 /\ mms'[x].mm_count = IF x = m THEN 1 ELSE mms[x].mm_count
      <4>1. sharing!mm_init(mms, m) \in Counters
        BY <1>0, MmShapes
      <4>2. \A y \in Structs :
               /\ mms[y].mm_users \in Int /\ mms[y].mm_count \in Int
               /\ sharing!mm_init(mms, m)[y].mm_users = (IF y = m THEN 1 ELSE mms[y].mm_users)
               /\ sharing!mm_init(mms, m)[y].mm_count = (IF y = m THEN 1 ELSE mms[y].mm_count)
        BY <1>0, CountersChange
      <4>3. /\ mms'[x].mm_users =
                  sharing!mm_init(mms, m)[x].mm_users - (IF x = old THEN 1 ELSE 0)
            /\ mms'[x].mm_count = sharing!mm_init(mms, m)[x].mm_count
                  - (IF x = old /\ sharing!mm_init(mms, m)[old].mm_users = 1 THEN 1 ELSE 0)
        BY <2>4, <4>1, CountersChange
      <4> QED  BY <2>2, <2>5, <4>2, <4>3
    <3> QED  BY <3>1
  <2>7. t \in Inside(old)
    BY <1>3, <2>1 DEF Inside
  <2>8. \A x \in Structs : Inside(x)' = IF x = m THEN {t} ELSE IF x = old THEN Inside(x) \ {t}
                                        ELSE Inside(x)
    <3>1. ASSUME NEW x \in Structs
          PROVE  /\ Inside(x)' = IF x = m THEN Inside(x) \cup {t} ELSE Inside(x) \ {t}
                 /\ t \in Inside(x) => x = old
      BY <1>1, <1>2, <1>3, <2>1, <2>4 DEF Inside
    <3> QED  BY <2>5, <3>1
  <2>9. \A x \in Structs : Borrowed(x) = 0 /\ Borrowed(x)' = 0
    BY <1>1, <2>1, <2>4 DEF Borrowed
  <2>10. /\ active_mm'[current'] # None
         /\ \A u \in sharing!AllTasks : mm'[u] # None => active_mm'[u] = mm'[u]
         /\ \A u \in sharing!AllTasks \ {current'} :
               HasMm(u)' /\ mm'[u] = None => active_mm'[u] = None
    BY <1>0, <1>1, <1>2, <2>4 DEF Memory
  <2>11. ASSUME NEW x \in Structs
         PROVE  mms'[x].mm_users = Cardinality(Inside(x)')
    <3>1. mms[x].mm_users = Cardinality(Inside(x))
      BY <1>0 DEF Memory
    <3>2. CASE x = m
      BY <2>6, <2>8, <3>2, FS_Singleton
    <3>3. CASE x = old
      <4>1. Cardinality(Inside(x)') = Cardinality(Inside(x)) - 1
        BY <2>5, <2>7, <2>8, <3>3, InsideIsFinite, OneLess
      <4> QED  BY <2>5, <2>6, <3>1, <3>3, <4>1
    <3>4. CASE x # m /\ x # old
      BY <2>6, <2>8, <3>1, <3>4, InsideIsFinite
    <3> QED  BY <3>2, <3>3, <3>4
  <2>12. ASSUME NEW x \in Structs
         PROVE  LET exact == Borrowed(x)' + (IF mms'[x].mm_users = 0 THEN 0 ELSE 1)
                IN  mms'[x].mm_count >= exact /\ (x \notin leaked' => mms'[x].mm_count = exact)
    <3>1. LET exact == Borrowed(x) + (IF mms[x].mm_users = 0 THEN 0 ELSE 1)
          IN  mms[x].mm_count >= exact /\ (x \notin leaked => mms[x].mm_count = exact)
      BY <1>0 DEF Memory
    <3>2. mms[x].mm_users \in Nat
      BY <1>0, InsideIsUsed
    <3>3. Borrowed(x) = 0 /\ Borrowed(x)' = 0 /\ leaked' = leaked
      BY <1>1, <2>9
    <3>4. CASE x = m
      BY <2>6, <3>3, <3>4
    <3>5. CASE x = old /\ x # m
      <4>1. mms[x].mm_users > 1 /\ mms'[x].mm_users = mms[x].mm_users - 1
            /\ mms'[x].mm_count = mms[x].mm_count
        BY <2>2, <2>6, <3>5
      <4> QED  BY <3>1, <3>2, <3>3, <4>1
    <3>6. CASE x # old /\ x # m
      <4>1. mms'[x].mm_users = mms[x].mm_users /\ mms'[x].mm_count = mms[x].mm_count
        BY <2>6, <3>2, <3>6
      <4> QED  BY <3>1, <3>3, <4>1
    <3> QED  BY <3>4, <3>5, <3>6
  <2> QED  BY <2>10, <2>11, <2>12 DEF Memory
<1> QED  BY <1>4, <1>5

(* t does without memory: what it ran in it now borrows. *)
LEMMA MemoryAtLazy ==
    ASSUME sharing!SharersAssumption, sharing!StructsAssumption, SharingIInv, NEW t \in Tasks,
           sharing!StartLazy(t) \/ sharing!EndLazy(t)
    PROVE  Memory'
<1> USE DEF sharing!OrNone
<1> /\ Tasks \subseteq sharing!AllTasks /\ Idle \in sharing!AllTasks /\ Idle \notin Tasks
    /\ None \notin sharing!AllTasks /\ None \notin Structs
  BY Apart
<1>0. Shapes /\ ForkLinked /\ Fields /\ Memory /\ mms \in Counters
  BY DEF SharingIInv, Shapes, Counters
<1>1. PICK p \in {"user", "lazy"} :
         /\ \A u \in Tasks : pc'[u] = IF u = t THEN p ELSE pc[u]
         /\ pc[t] \in {"user", "lazy"} /\ current = t
         /\ UNCHANGED <<child, current, leaked>>
  BY <1>0 DEF sharing!StartLazy, sharing!EndLazy, sharing!Runs, Shapes
<1>2. \A u \in sharing!AllTasks : HasMm(u)' <=> HasMm(u)
  BY <1>0, <1>1, SameHasMm, InForkIs
<1>3. HasMm(t)
  BY <1>1 DEF HasMm
<1>4. CASE sharing!StartLazy(t)
  <2>1. PICK m \in Structs : mm[t] = m /\ lazy[t] = None
    BY <1>0, <1>4 DEF sharing!StartLazy, sharing!Runs, Shapes, Fields
  <2>2. /\ mms' = sharing!grab(mms, m) /\ UNCHANGED active_mm
        /\ \A u \in sharing!AllTasks : mm'[u] = IF u = t THEN None ELSE mm[u]
        /\ \A u \in Tasks : lazy'[u] = IF u = t THEN m ELSE lazy[u]
    BY <1>0, <1>4, <2>1 DEF sharing!StartLazy, Shapes
  <2>3. \A x \in Structs : /\ mms'[x].mm_users = mms[x].mm_users
                           /\ mms'[x].mm_count = mms[x].mm_count + (IF x = m THEN 1 ELSE 0)
                           /\ mms[x].mm_users \in Int /\ mms[x].mm_count \in Int
    BY <1>0, <2>2, CountersChange
  <2>4. \A x \in Structs : Inside(x)' = Inside(x)
    <3>1. ASSUME NEW x \in Structs
          PROVE  Inside(x)' = Inside(x)
      BY <1>2, <1>3, <2>1, <2>2, SameInside
    <3> QED  BY <3>1
  <2>5. \A x \in Structs : Borrowed(x) = 0 /\ Borrowed(x)' = IF x = m THEN 1 ELSE 0
    BY <1>0, <1>1, <2>1, <2>2 DEF Borrowed, Memory
  <2>6. /\ active_mm'[current'] # None
        /\ \A u \in sharing!AllTasks : mm'[u] # None => active_mm'[u] = mm'[u]
        /\ \A u \in sharing!AllTasks \ {current'} :
              HasMm(u)' /\ mm'[u] = None => active_mm'[u] = None
    BY <1>0, <1>1, <1>2, <2>2 DEF Memory
  <2>7. ASSUME NEW x \in Structs
        PROVE  LET exact == Borrowed(x)' + (IF mms'[x].mm_users = 0 THEN 0 ELSE 1)
               IN  mms'[x].mm_count >= exact /\ (x \notin leaked' => mms'[x].mm_count = exact)
    <3>1. LET exact == Borrowed(x) + (IF mms[x].mm_users = 0 THEN 0 ELSE 1)
          IN  mms[x].mm_count >= exact /\ (x \notin leaked => mms[x].mm_count = exact)
      BY <1>0 DEF Memory
    <3> QED  BY <1>1, <2>3, <2>5, <3>1
  <2> QED  BY <1>0, <2>3, <2>4, <2>6, <2>7 DEF Memory
<1>5. CASE sharing!EndLazy(t)
  <2>1. PICK m \in Structs, old \in Structs : lazy[t] = m /\ active_mm[t] = old /\ mm[t] = None
    BY <1>0, <1>1, <1>5 DEF sharing!EndLazy, sharing!Runs, Shapes, Fields, Memory
  <2>2. /\ mms' = sharing!mmdrop(mms, old)
        /\ \A u \in sharing!AllTasks : /\ mm'[u] = IF u = t THEN m ELSE mm[u]
                                       /\ active_mm'[u] = IF u = t THEN m ELSE active_mm[u]
        /\ \A u \in Tasks : lazy'[u] = IF u = t THEN None ELSE lazy[u]
    BY <1>0, <1>5, <2>1 DEF sharing!EndLazy, Shapes
  <2>3. \A x \in Structs : /\ mms'[x].mm_users = mms[x].mm_users
                           /\ mms'[x].mm_count = mms[x].mm_count - (IF x = old THEN 1 ELSE 0)
                           /\ mms[x].mm_users \in Int /\ mms[x].mm_count \in Int
    BY <1>0, <2>2, CountersChange
  <2>4. \A x \in Structs : Inside(x)' = Inside(x)
    <3>1. ASSUME NEW x \in Structs
          PROVE  Inside(x)' = Inside(x)
      BY <1>2, <1>3, <2>1, <2>2, SameInside
    <3> QED  BY <3>1
  <2>5. \A x \in Structs : Borrowed(x) = (IF x = old THEN 1 ELSE 0) /\ Borrowed(x)' = 0
    BY <1>1, <2>1, <2>2 DEF Borrowed
  <2>6. /\ active_mm'[current'] # None
        /\ \A u \in sharing!AllTasks : mm'[u] # None => active_mm'[u] = mm'[u]
        /\ \A u \in sharing!AllTasks \ {current'} :
              HasMm(u)' /\ mm'[u] = None => active_mm'[u] = None
    BY <1>0, <1>1, <1>2, <2>2 DEF Memory
  <2>7. ASSUME NEW x \in Structs
        PROVE  LET exact == Borrowed(x)' + (IF mms'[x].mm_users = 0 THEN 0 ELSE 1)
               IN  mms'[x].mm_count >= exact /\ (x \notin leaked' => mms'[x].mm_count = exact)
    <3>1. LET exact == Borrowed(x) + (IF mms[x].mm_users = 0 THEN 0 ELSE 1)
          IN  mms[x].mm_count >= exact /\ (x \notin leaked => mms[x].mm_count = exact)
      BY <1>0 DEF Memory
    <3> QED  BY <1>1, <2>3, <2>5, <3>1
  <2> QED  BY <1>0, <2>3, <2>4, <2>6, <2>7 DEF Memory
<1> QED  BY <1>4, <1>5

(* What the last task borrowed it gives back, or lends to the next one. *)
LEMMA MemoryAtSwitch ==
    ASSUME sharing!SharersAssumption, sharing!StructsAssumption, SharingIInv,
           NEW next \in sharing!AllTasks, sharing!Switch(next)
    PROVE  Memory'
<1> USE DEF sharing!OrNone
<1> /\ Tasks \subseteq sharing!AllTasks /\ Idle \in sharing!AllTasks /\ Idle \notin Tasks
    /\ None \notin sharing!AllTasks /\ None \notin Structs
  BY Apart
<1>0. Shapes /\ ForkLinked /\ Fields /\ Memory /\ mms \in Counters
  BY DEF SharingIInv, Shapes, Counters
<1>1. PICK prev \in sharing!AllTasks : prev = current
  BY <1>0 DEF Shapes
<1>2. PICK oldmm \in Structs : oldmm = active_mm[prev]
  BY <1>0, <1>1 DEF Shapes, Memory
<1>3. /\ next # prev /\ current' = next
      /\ next \in Tasks => pc[next] \notin {"free", "embryo"}
      /\ \A u \in sharing!AllTasks : active_mm'[u] =
            IF u = next /\ mm[next] = None THEN oldmm
            ELSE IF u = prev /\ mm[prev] = None THEN None ELSE active_mm[u]
      /\ UNCHANGED <<pc, child, mm, lazy, leaked>>
  BY <1>1, <1>2 DEF sharing!Switch, sharing!CanRun
<1>4. \A u \in sharing!AllTasks : HasMm(u)' <=> HasMm(u)
  BY <1>3 DEF HasMm
<1>5. HasMm(next) /\ HasMm(prev)
  BY <1>0, <1>1, <1>3 DEF HasMm, Fields
<1>6. \A x \in Structs :
         /\ mms'[x].mm_users = mms[x].mm_users
         /\ mms'[x].mm_count = mms[x].mm_count
               + (IF x = oldmm /\ mm[next] = None THEN 1 ELSE 0)
               - (IF x = oldmm /\ mm[prev] = None THEN 1 ELSE 0)
         /\ mms[x].mm_users \in Int /\ mms[x].mm_count \in Int
  <2> DEFINE taken == IF mm[next] = None THEN sharing!grab(mms, oldmm) ELSE mms
  <2>1. /\ taken \in Counters
        /\ \A x \in Structs :
              /\ taken[x].mm_users = mms[x].mm_users
              /\ taken[x].mm_count =
                    mms[x].mm_count + (IF x = oldmm /\ mm[next] = None THEN 1 ELSE 0)
              /\ mms[x].mm_users \in Int /\ mms[x].mm_count \in Int
    <3>1. CASE mm[next] = None
      BY <1>0, <3>1, MmShapes, CountersChange
    <3>2. CASE mm[next] # None
      BY <1>0, <3>2, CountersChange
    <3> QED  BY <3>1, <3>2
  <2>2. mms' = IF mm[prev] = None THEN sharing!mmdrop(taken, oldmm) ELSE taken
    BY <1>1, <1>2 DEF sharing!Switch, sharing!Switched
  <2> HIDE DEF taken
  <2>3. CASE mm[prev] = None
    <3>1. \A x \in Structs :
             /\ mms'[x].mm_users = taken[x].mm_users
             /\ mms'[x].mm_count = taken[x].mm_count - (IF x = oldmm THEN 1 ELSE 0)
      BY <2>1, <2>2, <2>3, CountersChange
    <3> QED  BY <2>1, <2>3, <3>1
  <2>4. CASE mm[prev] # None
    BY <2>1, <2>2, <2>4
  <2> QED  BY <2>3, <2>4
<1>7. \A x \in Structs : Inside(x)' = Inside(x)
  BY <1>3, <1>4, SameInside
<1>8. \A x \in Structs :
         /\ Borrowed(x) = IF x = oldmm /\ mm[prev] = None THEN 1 ELSE 0
         /\ Borrowed(x)' = IF x = oldmm /\ mm[next] = None THEN 1 ELSE 0
  BY <1>1, <1>2, <1>3 DEF Borrowed
<1>9. /\ active_mm'[current'] # None
      /\ \A u \in sharing!AllTasks : mm'[u] # None => active_mm'[u] = mm'[u]
  BY <1>0, <1>3 DEF Memory
<1>10. \A u \in sharing!AllTasks \ {current'} : HasMm(u)' /\ mm'[u] = None
           => active_mm'[u] = None
  BY <1>0, <1>1, <1>3, <1>4 DEF Memory
<1>11. ASSUME NEW x \in Structs
       PROVE  LET exact == Borrowed(x)' + (IF mms'[x].mm_users = 0 THEN 0 ELSE 1)
              IN  mms'[x].mm_count >= exact /\ (x \notin leaked' => mms'[x].mm_count = exact)
  <2>1. LET exact == Borrowed(x) + (IF mms[x].mm_users = 0 THEN 0 ELSE 1)
        IN  mms[x].mm_count >= exact /\ (x \notin leaked => mms[x].mm_count = exact)
    BY <1>0 DEF Memory
  <2> QED  BY <1>3, <1>6, <1>8, <2>1
<1> QED  BY <1>0, <1>6, <1>7, <1>9, <1>10, <1>11 DEF Memory

LEMMA MemoryKept ==
    ASSUME sharing!SharersAssumption, sharing!StructsAssumption, SharingIInv, sharing!Next
    PROVE  Memory'
<1>0. Shapes /\ ForkLinked /\ Memory
  BY DEF SharingIInv
<1>1. ASSUME NEW t \in Tasks, \/ \E k \in sharing!Kinds : sharing!Copy(t, k)
                              \/ sharing!CopyNamespace(t)
      PROVE  Memory'
  <2>1. PICK p \in sharing!InFork :
           /\ \A u \in Tasks : pc'[u] = IF u = t THEN p ELSE pc[u]
           /\ pc[t] \in sharing!InFork
           /\ p \in {"namespace", "link"} <=> pc[t] \in {"namespace", "link"}
           /\ UNCHANGED <<child, mm, active_mm, mms, lazy, current, leaked>>
    BY <1>0, <1>1, InForkIs DEF sharing!Copy, sharing!CopyNamespace, sharing!Runs, Shapes,
                                sharing!NextCopy, sharing!Kinds
  <2>2. \A u \in sharing!AllTasks : HasMm(u)' <=> HasMm(u)
    <3>1. \A u \in Tasks : pc'[u] = "embryo" <=> pc[u] = "embryo"
      BY <2>1, InForkIs
    <3>2. \A q \in Tasks : pc'[q] \in {"namespace", "link"} <=> pc[q] \in {"namespace", "link"}
      BY <2>1
    <3> QED  BY <2>1, <3>1, <3>2, OthersHaveMm
  <2> QED  BY <1>0, <2>1, <2>2, SameMemory
<1>2. ASSUME NEW t \in Tasks, sharing!ForkLink(t)
      PROVE  Memory'
  <2>1. PICK c \in Tasks : /\ c = child[t] /\ t # c /\ pc[t] = "link" /\ pc[c] = "embryo"
                           /\ \A p \in Tasks : child[p] = c => p = t
    BY <1>0, <1>2, ParentAndChild, InForkIs DEF sharing!ForkLink, sharing!Runs
  <2>2. /\ \A u \in Tasks \ {t, c} : pc'[u] = pc[u]
        /\ pc'[c] = "user" /\ pc'[t] \in {"user", "vfork"}
        /\ \A u \in Tasks : child'[u] = IF u = t THEN None ELSE child[u]
        /\ UNCHANGED <<mm, active_mm, mms, lazy, current, leaked>>
    BY <1>0, <1>2, <2>1 DEF sharing!ForkLink, Shapes
  <2>3. HasMm(c) /\ HasMm(c)'
    BY <2>1, <2>2 DEF HasMm
  <2>4. \A u \in sharing!AllTasks \ {c} : HasMm(u)' <=> HasMm(u)
    <3>1. ASSUME NEW u \in sharing!AllTasks \ {c}
          PROVE  HasMm(u)' <=> HasMm(u)
      <4>1. u \in Tasks => (pc'[u] = "embryo" <=> pc[u] = "embryo")
        BY <2>1, <2>2
      <4>2. \A p \in Tasks : /\ child'[p] = u <=> child[p] = u
                             /\ child[p] = u => pc'[p] = pc[p]
        <5>1. ASSUME NEW p \in Tasks, child[p] = u
              PROVE  p # t /\ p # c
          BY <1>0, <2>1, <5>1, InForkIs, Apart DEF ForkLinked
        <5>2. None \notin sharing!AllTasks
          BY Apart
        <5> QED  BY <2>2, <5>1, <5>2
      <4> QED  BY <4>1, <4>2, OthersHaveMm
    <3> QED  BY <3>1
  <2> QED  BY <1>0, <2>2, <2>3, <2>4, SameMemory
<1>3. ASSUME NEW t \in Tasks,
             \/ sharing!VforkReturn(t) \/ sharing!ExitNotify(t) \/ sharing!Release(t)
      PROVE  Memory'
  <2>1. PICK p \in {"user", "zombie", "free"} :
           /\ \A u \in Tasks : pc'[u] = IF u = t THEN p ELSE pc[u]
           /\ pc[t] \in {"vfork", "exit", "zombie"}
           /\ UNCHANGED <<child, mm, active_mm, mms, lazy, current, leaked>>
    BY <1>0, <1>3 DEF sharing!VforkReturn, sharing!ExitNotify, sharing!Release, sharing!Runs,
                      Shapes
  <2>2. \A u \in sharing!AllTasks : HasMm(u)' <=> HasMm(u)
    BY <1>0, <2>1, SameHasMm, InForkIs
  <2> QED  BY <1>0, <2>1, <2>2, SameMemory
<1>4. ASSUME NEW t \in Tasks, NEW k \in sharing!Kinds, sharing!ExitNext(t, k)
      PROVE  Memory'
  <2>1. UNCHANGED <<pc, child, mm, active_mm, mms, lazy, current, leaked>>
    BY <1>4 DEF sharing!ExitNext
  <2>2. \A u \in sharing!AllTasks : HasMm(u)' <=> HasMm(u)
    BY <2>1 DEF HasMm
  <2> QED  BY <1>0, <2>1, <2>2, SameMemory
<1> QED  BY <1>1, <1>2, <1>3, <1>4, MemoryAtForkStart, MemoryAtCopyMm, MemoryAtForkFail,
            MemoryAtExitMm, MemoryAtExec, MemoryAtLazy, MemoryAtSwitch DEF sharing!Next

------------------------------------------------------------------------------
(* The invariant, and what it says *)

LEMMA AtFirst ==
    ASSUME sharing!SharersAssumption, sharing!StructsAssumption, sharing!Init
    PROVE  SharingIInv
<1> USE DEF sharing!OrNone
<1> /\ Tasks \subseteq sharing!AllTasks /\ Idle \in sharing!AllTasks /\ Idle \notin Tasks
    /\ None \notin sharing!AllTasks /\ None \notin Structs
  BY Apart
<1> /\ FirstTask \in Tasks /\ 0 \in Structs /\ FirstTask # Idle
  BY DEF sharing!SharersAssumption, sharing!StructsAssumption
<1>1. Shapes
  <2>1. pc \in [Tasks -> Places]
    BY DEF sharing!Init, Places
  <2>2. /\ refs \in [sharing!Kinds -> [Structs -> Int]]
        /\ pointer \in [sharing!Kinds -> [sharing!AllTasks -> sharing!OrNone(Structs)]]
        /\ mms \in [Structs -> [mm_users : Int, mm_count : Int]]
    BY DEF sharing!Init
  <2>3. current \in sharing!AllTasks
    BY DEF sharing!Init
  <2> QED  BY <2>1, <2>2, <2>3 DEF sharing!Init, Shapes
<1>2. ForkLinked
  BY InForkIs DEF sharing!Init, ForkLinked
<1>3. Fields
  BY DEF sharing!Init, Fields
<1>4. Vfork
  BY InForkIs DEF sharing!Init, Vfork, sharing!Alive
<1>5. \A k, t : Counts(k, t)
  BY DEF sharing!Init, Counts
<1>6. \A k \in sharing!Kinds, s \in Structs : refs[k][s] = Cardinality(Having(k, s))
  <2>1. ASSUME NEW k \in sharing!Kinds, NEW s \in Structs
        PROVE  refs[k][s] = Cardinality(Having(k, s))
    <3>1. refs[k][s] = IF s # 0 THEN 0 ELSE IF k = "sig" THEN 1 ELSE 2
      BY DEF sharing!Init
    <3>2. \A t \in sharing!AllTasks : pointer[k][t] =
             IF t = FirstTask \/ (t = Idle /\ k # "sig") THEN 0 ELSE None
      BY DEF sharing!Init
    <3>3. CASE s # 0
      <4>1. Having(k, s) = {}
        BY <3>2, <3>3 DEF Having
      <4> QED  BY <3>1, <3>3, <4>1, FS_EmptySet
    <3>4. CASE s = 0 /\ k = "sig"
      <4>1. Having(k, s) = {FirstTask}
        BY <1>5, <3>2, <3>4 DEF Having
      <4> QED  BY <3>1, <3>4, <4>1, FS_Singleton
    <3>5. CASE s = 0 /\ k # "sig"
      <4>1. Having(k, s) = {FirstTask} \cup {Idle}
        BY <1>5, <3>2, <3>5 DEF Having
      <4>2. Cardinality({FirstTask}) = 1 /\ IsFiniteSet({FirstTask})
        BY FS_Singleton
      <4>3. Cardinality(Having(k, s)) = Cardinality({FirstTask}) + 1
        BY <4>1, <4>2, OneMore
      <4> QED  BY <3>1, <3>5, <4>2, <4>3
    <3> QED  BY <3>3, <3>4, <3>5
  <2> QED  BY <2>1
<1>7. Structures
  <2>1. \A k \in sharing!Kinds, t \in sharing!AllTasks : pointer[k][t] =
           IF t = FirstTask \/ (t = Idle /\ k # "sig") THEN 0 ELSE None
    BY DEF sharing!Init
  <2>2. \A t \in Tasks : pc[t] = IF t = FirstTask THEN "user" ELSE "free"
    BY DEF sharing!Init
  <2> QED  BY <1>6, <2>1, <2>2, InForkIs DEF Structures
<1>8. Memory
  <2>1. /\ \A t \in sharing!AllTasks : /\ mm[t] = (IF t = FirstTask THEN 0 ELSE None)
                                       /\ active_mm[t] = mm[t]
        /\ current = FirstTask
        /\ \A m \in Structs : /\ mms[m].mm_users = IF m = 0 THEN 1 ELSE 0
                              /\ mms[m].mm_count = IF m = 0 THEN 1 ELSE 0
        /\ \A t \in Tasks : lazy[t] = None
    BY DEF sharing!Init
  <2>2. \A t : HasMm(t)
    BY DEF sharing!Init, HasMm
  <2>3. ASSUME NEW m \in Structs
        PROVE  mms[m].mm_users = Cardinality(Inside(m))
    <3>1. CASE m = 0
      <4>1. Inside(m) = {FirstTask}
        BY <2>1, <2>2, <3>1 DEF Inside
      <4> QED  BY <2>1, <3>1, <4>1, FS_Singleton
    <3>2. CASE m # 0
      <4>1. Inside(m) = {}
        BY <2>1, <2>2, <3>2 DEF Inside
      <4> QED  BY <2>1, <3>2, <4>1, FS_EmptySet
    <3> QED  BY <3>1, <3>2
  <2>4. \A m \in Structs : Borrowed(m) = 0
    BY <2>1 DEF Borrowed
  <2> QED  BY <2>1, <2>2, <2>3, <2>4 DEF Memory
<1> QED  BY <1>1, <1>2, <1>3, <1>4, <1>7, <1>8 DEF SharingIInv

LEMMA Stutter ==
    ASSUME SharingIInv, UNCHANGED sharing!vars
    PROVE  SharingIInv'
<1> USE DEF sharing!vars
<1>1. Shapes' /\ ForkLinked' /\ Fields' /\ Vfork'
  BY DEF SharingIInv, Shapes, ForkLinked, Fields, Vfork, sharing!Alive
<1>2. Structures'
  BY DEF SharingIInv, Structures, Having, Counts
<1>3. Memory'
  BY DEF SharingIInv, Memory, Inside, HasMm, Borrowed
<1> QED  BY <1>1, <1>2, <1>3 DEF SharingIInv

(* The counts, the handshake and the places of all tasks, as the proof     *)
(* needs them: do_fork(), do_exit(), daemonize(), exec() and the switch    *)
(* keep them, wherever a copy fails and whenever tasks are switched.       *)
THEOREM SharingInvariant ==
    ASSUME sharing!SharersAssumption, sharing!StructsAssumption
    PROVE  sharing!Spec => []SharingIInv
<1>1. sharing!Init => SharingIInv
  BY AtFirst
<1>2. SharingIInv /\ [sharing!Next]_(sharing!vars) => SharingIInv'
  BY Stutter, ShapesKept, LinksKept, FieldsKept, VforkKept, StructuresKept, MemoryKept
     DEF SharingIInv
<1> QED  BY <1>1, <1>2, PTL DEF sharing!Spec

LEMMA TypesAreRight ==
    ASSUME sharing!SharersAssumption, sharing!StructsAssumption, SharingIInv
    PROVE  sharing!TypeOK
<1>0. Shapes /\ Structures /\ Memory /\ Vfork
  BY DEF SharingIInv
<1>1. ASSUME NEW k \in sharing!Kinds
      PROVE  refs[k] \in [Structs -> Nat]
  <2>1. \A s \in Structs : refs[k][s] \in Nat
    BY <1>0, HavingIsFinite DEF Structures
  <2> QED  BY <1>0, <2>1 DEF Shapes
<1>2. refs \in [sharing!Kinds -> [Structs -> Nat]]
  BY <1>0, <1>1 DEF Shapes
<1>3. mms \in [Structs -> [mm_users : Nat, mm_count : Nat]]
  <2>1. ASSUME NEW m \in Structs
        PROVE  mms[m] \in [mm_users : Nat, mm_count : Nat]
    <3>1. mms[m] \in [mm_users : Int, mm_count : Int]
      BY <1>0 DEF Shapes
    <3>2. mms[m].mm_users \in Nat
      BY <1>0, InsideIsUsed
    <3>3. mms[m].mm_count >= Borrowed(m) + (IF mms[m].mm_users = 0 THEN 0 ELSE 1)
      BY <1>0 DEF Memory
    <3>4. Borrowed(m) \in {0, 1}
      BY DEF Borrowed
    <3>5. mms[m].mm_count \in Nat
      BY <3>1, <3>3, <3>4
    <3> QED  BY <3>1, <3>2, <3>5
  <2> QED  BY <1>0, <2>1 DEF Shapes
<1>4. done \in [Tasks -> {0, 1}]
  BY <1>0 DEF Shapes, Vfork
<1> QED  BY <1>0, <1>2, <1>3, <1>4 DEF Shapes, Places, sharing!TypeOK

(* A parent that waits for its vfork child is woken once, by that child,   *)
(* when it leaves the parent's memory: mm_release() finds the completion   *)
(* on a stack where do_fork() still waits for it.                          *)
THEOREM HandshakeHolds ==
    ASSUME sharing!SharersAssumption, sharing!StructsAssumption
    PROVE  sharing!Spec => []sharing!VforkHandshake
<1>1. SharingIInv => sharing!VforkHandshake
  <2> SUFFICES ASSUME SharingIInv, NEW p \in Tasks
               PROVE  LET owing == {c \in sharing!Alive : vfork_done[c] = p}
                      IN  /\ owing # {} => pc[p] = "vfork" /\ done[p] = 0
                          /\ pc[p] = "vfork" => Cardinality(owing) + done[p] = 1
                          /\ \A c \in sharing!Alive \ early : lender[c] = p => vfork_done[c] = p
    BY SameSize DEF sharing!VforkHandshake
  <2>0. Vfork /\ None \notin Tasks
    BY DEF SharingIInv, sharing!SharersAssumption, sharing!AllTasks
  <2> DEFINE owing == {c \in sharing!Alive : vfork_done[c] = p}
  <2>1. owing # {} => pc[p] = "vfork" /\ done[p] = 0
    BY <2>0 DEF Vfork
  <2>2. ASSUME pc[p] = "vfork"
        PROVE  Cardinality(owing) + done[p] = 1
    <3>1. CASE done[p] = 0
      <4>1. PICK c \in sharing!Alive : vfork_done[c] = p
        BY <2>0, <2>2, <3>1 DEF Vfork
      <4>2. owing = {c}
        BY <2>0, <4>1 DEF Vfork
      <4>3. Cardinality(owing) = 1
        BY <4>2, FS_Singleton
      <4> QED  BY <3>1, <4>3
    <3>2. CASE done[p] = 1
      <4>1. owing = {}
        BY <2>1, <3>2
      <4>2. Cardinality(owing) = 0
        BY <4>1, FS_EmptySet
      <4> QED  BY <3>2, <4>2
    <3> QED  BY <2>0, <3>1, <3>2 DEF Vfork
  <2>3. \A c \in sharing!Alive \ early : lender[c] = p => vfork_done[c] = p
    BY <2>0 DEF Vfork
  <2> QED  BY <2>1, <2>2, <2>3
<1> QED  BY <1>1, SharingInvariant, PTL

LEMMA ParentIs ==
    ASSUME sharing!SharersAssumption, ForkLinked, NEW c \in Tasks, pc[c] = "embryo"
    PROVE  /\ sharing!Parent(c) \in Tasks /\ child[sharing!Parent(c)] = c
           /\ \A p \in Tasks : child[p] = c => p = sharing!Parent(c)
<1>1. \E p \in Tasks : child[p] = c
  BY DEF ForkLinked
<1>2. sharing!Parent(c) \in Tasks /\ child[sharing!Parent(c)] = c
  BY <1>1 DEF sharing!Parent
<1>3. c # None
  BY DEF sharing!SharersAssumption, sharing!AllTasks
<1> QED  BY <1>2, <1>3 DEF ForkLinked

(* Files, file system context and signal handlers are freed with their     *)
(* last user and not before, whoever shares them, wherever do_fork() fails *)
(* and in whatever order tasks exit or take those of the idle task.        *)
THEOREM SharedIsCounted ==
    ASSUME sharing!SharersAssumption, sharing!StructsAssumption
    PROVE  sharing!Spec => []sharing!SharingExact
<1>1. SharingIInv => sharing!SharingExact
  <2> SUFFICES ASSUME SharingIInv
               PROVE  sharing!SharingExact
    OBVIOUS
  <2>0. ForkLinked /\ Structures
    BY DEF SharingIInv
  <2>1. ASSUME NEW k \in sharing!Kinds, NEW s \in Structs
        PROVE  refs[k][s] = Cardinality(sharing!Users(k, s))
    <3>1. \A t \in sharing!AllTasks :
             Counts(k, t) <=> (t \in Tasks /\ pc[t] = "embryo" =>
                                  k \in sharing!CopiedBefore(pc[sharing!Parent(t)]))
      <4>1. ASSUME NEW t \in Tasks, pc[t] = "embryo"
            PROVE  Counts(k, t) <=> k \in sharing!CopiedBefore(pc[sharing!Parent(t)])
        BY <2>0, <4>1, ParentIs DEF Counts
      <4> QED  BY <4>1 DEF Counts
    <3>2. sharing!Users(k, s) = Having(k, s)
      BY <3>1 DEF sharing!Users, Having
    <3> QED  BY <2>0, <3>2 DEF Structures
  <2>2. ASSUME NEW t \in sharing!Alive, pc[t] # "exit", NEW k \in sharing!Kinds
        PROVE  pointer[k][t] # None
    <3>1. t \in Tasks /\ pc[t] \in {"user", "vfork", "lazy"} \cup sharing!InFork
      BY <2>2 DEF sharing!Alive, SharingIInv, Shapes, Places
    <3> QED  BY <2>0, <3>1 DEF Structures
  <2> QED  BY <2>1, <2>2, SameSize DEF sharing!SharingExact
<1> QED  BY <1>1, SharingInvariant, PTL

(* Whoever runs does so on page tables of memory that is not freed, its    *)
(* own or borrowed from the task before, and memory is freed with its last *)
(* user and borrower, but for what a failed fork leaves behind.            *)
THEOREM MemoryIsCounted ==
    ASSUME sharing!SharersAssumption, sharing!StructsAssumption
    PROVE  sharing!Spec => []sharing!MemoryCounted
<1>1. SharingIInv => sharing!MemoryCounted
  <2> SUFFICES ASSUME SharingIInv
               PROVE  sharing!MemoryCounted
    OBVIOUS
  <2>0. Shapes /\ ForkLinked /\ Fields /\ Memory /\ sharing!TypeOK
    BY TypesAreRight DEF SharingIInv
  <2>1. \A t \in sharing!AllTasks : sharing!HasOwnMm(t) <=> HasMm(t)
    <3>1. ASSUME NEW t \in Tasks, pc[t] = "embryo"
          PROVE  sharing!HasOwnMm(t) <=> HasMm(t)
      BY <2>0, <3>1, ParentIs DEF sharing!HasOwnMm, HasMm
    <3> QED  BY <3>1 DEF sharing!HasOwnMm, HasMm
  <2>2. HasMm(current) /\ current \in sharing!AllTasks
    BY <2>0 DEF Fields, HasMm, Shapes
  <2>3. ASSUME NEW m \in Structs
        PROVE  /\ sharing!Borrowers(m) \subseteq {current}
               /\ Cardinality(sharing!Borrowers(m)) = Borrowed(m)
               /\ sharing!RunsIn(m) = Inside(m)
    <3>1. None # m
      BY DEF sharing!StructsAssumption
    <3>2. sharing!Borrowers(m)
             = IF mm[current] = None /\ active_mm[current] = m THEN {current} ELSE {}
      BY <2>0, <2>1, <2>2, <3>1 DEF sharing!Borrowers, Memory
    <3>3. sharing!RunsIn(m) = Inside(m)
      BY <2>1 DEF sharing!RunsIn, Inside
    <3>4. Cardinality({current}) = 1 /\ Cardinality({}) = 0
      BY FS_Singleton, FS_EmptySet
    <3>5. CASE mm[current] = None /\ active_mm[current] = m
      <4>1. sharing!Borrowers(m) = {current} /\ Borrowed(m) = 1
        BY <3>2, <3>5 DEF Borrowed
      <4> QED  BY <3>3, <3>4, <4>1
    <3>6. CASE ~(mm[current] = None /\ active_mm[current] = m)
      <4>1. sharing!Borrowers(m) = {} /\ Borrowed(m) = 0
        BY <3>2, <3>6 DEF Borrowed
      <4> QED  BY <3>3, <3>4, <4>1
    <3> QED  BY <3>5, <3>6
  <2>4. ASSUME NEW m \in Structs
        PROVE  LET exact == Cardinality(sharing!Borrowers(m)) + (IF sharing!RunsIn(m) = {} THEN 0 ELSE 1)
               IN  /\ mms[m].mm_users = Cardinality(sharing!RunsIn(m))
                   /\ mms[m].mm_count >= exact
                   /\ m \notin leaked => mms[m].mm_count = exact
    <3>1. mms[m].mm_users = 0 <=> sharing!RunsIn(m) = {}
      BY <2>0, <2>3, InsideIsUsed
    <3>2. (IF sharing!RunsIn(m) = {} THEN 0 ELSE 1) = (IF mms[m].mm_users = 0 THEN 0 ELSE 1)
      BY <3>1
    <3> QED  BY <2>0, <2>3, <3>2 DEF Memory
  <2> QED  BY <2>0, <2>3, <2>4, SameSize DEF Memory, sharing!MemoryCounted
<1> QED  BY <1>1, SharingInvariant, PTL

------------------------------------------------------------------------------
(* The composition. *)
LEMMA NothingAsked == NoId \in AskedUids /\ NoId \in AskedGids
BY DEF AskedUids, AskedGids

(* A call is a call of Credentials, made by the current task. *)
LEMMA CallsAreCalls ==
    ASSUME CredentialStep
    PROVE  Next
<1>1. PICK t \in Tasks : \/ CredentialCall(t)
                         \/ \E u \in AskedUids, g \in AskedGids : Executes(t, u, g)
  BY DEF CredentialStep
<1>2. CASE CredentialCall(t)
  BY <1>2 DEF CredentialCall, Next
<1>3. CASE \E u \in AskedUids, g \in AskedGids : Executes(t, u, g)
  BY <1>3 DEF Executes, Next
<1> QED  BY <1>1, <1>2, <1>3

(* What the composition does besides calls is a step of Credentials where  *)
(* a task is made, replaced or ended, and a stutter where it gives up,     *)
(* copies or borrows something that is shared.                             *)
LEMMA LifeIsLife ==
    ASSUME ProcessStep
    PROVE  Next \/ UNCHANGED vars
<1>1. CASE \E next \in sharing!AllTasks : sharing!Switch(next) /\ UNCHANGED vars
  BY <1>1
<1>2. ASSUME NEW t \in Tasks, SharingStep(t)
      PROVE  UNCHANGED vars
  BY <1>2 DEF SharingStep
<1>3. ASSUME NEW t \in Tasks, NEW c \in Tasks, NEW flags \in Clones,
             ForkStarts(t, c, flags)
      PROVE  Next
  BY <1>3 DEF ForkStarts, Next
<1>4. ASSUME NEW t \in Tasks, ForkFails(t) \/ ForkLinks(t) \/ Exits(t) \/ Releases(t)
      PROVE  Next
  BY <1>4 DEF ForkFails, ForkLinks, Exits, Releases, Next
<1>5. ASSUME NEW t \in Tasks, Executes(t, NoId, NoId)
      PROVE  Next
  BY <1>5, NothingAsked DEF Executes, Next
<1> QED  BY <1>1, <1>2, <1>3, <1>4, <1>5 DEF ProcessStep

(* do_fork(), do_exit() and release_task() treat the credentials of a task *)
(* the same way, whatever it shares and wherever its copies fail: the life *)
(* of processes is one that Credentials allows.                            *)
THEOREM ImplementsCredentials == ProcessSpec => Spec
<1>1. ProcessInit => Init
  BY DEF ProcessInit
<1>2. [ProcessNext]_processVars => [Next]_vars
  BY CallsAreCalls, LifeIsLife DEF ProcessNext, processVars
<1> QED  BY <1>1, <1>2, PTL DEF ProcessSpec, Spec

(* Without a root id among its three a process has no capabilities, in     *)
(* whatever way it was made and whatever it shares.                        *)
THEOREM RightsFollowIdsInProcess == ProcessSpec => []PowerlessWithoutRoot
BY ImplementsCredentials, RightsFollowIds, PTL

(* A process without capabilities takes only ids that it had when it lost  *)
(* them, and so do the children that it makes.                             *)
THEOREM DroppedForGoodInProcess == ProcessSpec => []IdsWithinReach
BY ImplementsCredentials, DroppedForGood, PTL

(* Wherever a fork fails, and with it the copies of what is shared, the    *)
(* user gets back the charge of the child.                                 *)
THEOREM UsersChargedInProcess == ProcessSpec => []ChargesExact
BY ImplementsCredentials, UsersCharged, PTL

------------------------------------------------------------------------------
(* Calls about ids and capabilities leave alone what is shared, and the    *)
(* child of a fork; exec() is one of Sharing.                              *)
LEMMA CallsShareNothing ==
    ASSUME CredentialStep
    PROVE  sharing!Next \/ UNCHANGED sharing!vars
<1>1. PICK t \in Tasks : \/ CredentialCall(t)
                         \/ \E u \in AskedUids, g \in AskedGids : Executes(t, u, g)
  BY DEF CredentialStep
<1>2. CASE CredentialCall(t)
  <2>1. UNCHANGED sharingVars
    BY <1>2 DEF CredentialCall
  <2>2. UNCHANGED child
    <3>1. CASE IdCall(t)
      BY <3>1 DEF IdCall, SetReUid, SetUid, SetFsUid, SetResUid, SetUids,
                  SetReGid, SetGid, SetFsGid, SetResGid, SetGids, KeepCaps
    <3>2. CASE \E e, p \in {{}, task[t].permitted} : CapSet(t, e, p)
      BY <3>2 DEF CapSet
    <3>3. CASE ReparentToInit(t)
      BY <3>3 DEF ReparentToInit
    <3> QED  BY <1>2, <3>1, <3>2, <3>3, SMTT(60) DEF CredentialCall
  <2> QED  BY <2>1, <2>2 DEF sharingVars, sharing!vars
<1>3. CASE \E u \in AskedUids, g \in AskedGids : Executes(t, u, g)
  BY <1>3 DEF Executes, sharing!Next
<1> QED  BY <1>1, <1>2, <1>3

LEMMA LifeIsShared ==
    ASSUME ProcessStep
    PROVE  sharing!Next
<1>1. CASE \E next \in sharing!AllTasks : sharing!Switch(next) /\ UNCHANGED vars
  BY <1>1 DEF sharing!Next
<1>2. ASSUME NEW t \in Tasks, SharingStep(t)
      PROVE  sharing!Next
  BY <1>2 DEF SharingStep, sharing!Next
<1>3. ASSUME NEW t \in Tasks, NEW c \in Tasks, NEW flags \in Clones,
             ForkStarts(t, c, flags)
      PROVE  sharing!Next
  BY <1>3 DEF ForkStarts, sharing!Next
<1>4. ASSUME NEW t \in Tasks, ForkFails(t) \/ ForkLinks(t) \/ Exits(t) \/ Releases(t)
      PROVE  sharing!Next
  BY <1>4 DEF ForkFails, ForkLinks, Exits, Releases, sharing!Next
<1>5. ASSUME NEW t \in Tasks, Executes(t, NoId, NoId)
      PROVE  sharing!Next
  BY <1>5 DEF Executes, sharing!Next
<1> QED  BY <1>1, <1>2, <1>3, <1>4, <1>5 DEF ProcessStep

(* Whatever ids and capabilities a process has and whatever user it is     *)
(* charged to, it shares, forks, waits and exits as Sharing says.          *)
THEOREM ImplementsSharing == ProcessSpec => sharing!Spec
<1>1. ProcessInit => sharing!Init
  BY DEF ProcessInit
<1>2. [ProcessNext]_processVars => [sharing!Next]_sharing!vars
  <2>1. UNCHANGED processVars => UNCHANGED sharing!vars
    BY DEF processVars, vars, sharingVars, sharing!vars
  <2> QED  BY <2>1, CallsShareNothing, LifeIsShared DEF ProcessNext
<1> QED  BY <1>1, <1>2, PTL DEF ProcessSpec, sharing!Spec

(* A process that sleeps for its vfork child is woken by it once, wherever *)
(* forks fail and whoever calls exec() or exits.                           *)
THEOREM HandshakeInProcess == ProcessSpec => []VforkHandshake
BY SharingAssumption, ImplementsSharing, HandshakeHolds, PTL DEF VforkHandshake

(* Files, file system context and handlers are freed with the last process *)
(* that uses them.                                                         *)
THEOREM SharingInProcess == ProcessSpec => []SharingExact
BY SharingAssumption, ImplementsSharing, SharedIsCounted, PTL DEF SharingExact

(* The process that runs does so on page tables that are not freed, and    *)
(* memory goes with its last user, but for what a failed fork leaves.      *)
THEOREM MemoryInProcess == ProcessSpec => []MemoryCounted
BY SharingAssumption, ImplementsSharing, MemoryIsCounted, PTL DEF MemoryCounted
==============================================================================
