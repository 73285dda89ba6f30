---------------------------- MODULE RestrictProofs ----------------------------
(***************************************************************************)
(* Proofs about Restrict, for any number of tasks and blocks, any lists    *)
(* and wherever allocations fail, whatever the target of a call does while *)
(* the call sleeps: every block of memory has one owner, none is misused,  *)
(* and what a task may call follows from the last list set, until a log    *)
(* cannot be allocated or two calls meet on one task (Intact).             *)
(* Then about ProcessLog, which models what the log of a process holds.    *)
(***************************************************************************)
EXTENDS Restrict, ProcessLog, FiniteSetTheorems, TLAPS

Changing == [at : {"list", "log", "copy"}, target : Tasks, level : Levels, list : Lists]
Asking == [at : {"buffer"}, target : Tasks, size : Nat]
Answering == [at : {"user"}, to_usr : Blocks]
Calls == {NoCall} \cup Changing \cup Asking \cup Answering

Shapes ==
    /\ state \in [Tasks -> {"free", "running", "zombie"}]
    /\ proc_restriction_level \in [Tasks -> Levels]
    /\ restrictions_list \in [Tasks -> Blocks \cup {Null}]
    /\ restrictions_list_size \in [Tasks -> Nat]
    /\ log_list \in [Tasks -> Blocks \cup {Null}]
    /\ log_list_size \in [Tasks -> Nat]
    /\ heap \in [Blocks -> {Unused, Uninitialised, Log} \cup {Scr(l) : l \in Lists}]
    /\ call \in [Tasks -> Calls]
    /\ fault \in BOOLEAN
    /\ policy \in [Tasks -> Lists \cup {<<>>}]
    /\ unset \subseteq Tasks
    /\ dangling \in BOOLEAN /\ crossed \in BOOLEAN

Callers == \A t \in Tasks : call[t].at # "none" => state[t] = "running"

(* Until two calls meet, a task is the target of one sc_restrict() at a    *)
(* time, and exists; so does a task whose log is asked for, which has the  *)
(* records asked for.                                                      *)
Places ==
    /\ Callers
    /\ \A t, u, v \in Tasks : Restricting(u, t) /\ Restricting(v, t) => u = v
    /\ \A t, u \in Tasks : Restricting(u, t) => Exists(t)
    /\ \A t, u \in Tasks : call[u].at = "buffer" /\ call[u].target = t =>
          Exists(t) /\ call[u].size <= log_list_size[t]

(* The blocks that a call has already got for its target; and whoever has  *)
(* records has a log.                                                      *)
Stages ==
    /\ \A u \in Tasks : call[u].at \in {"log", "copy"} =>
          restrictions_list[call[u].target] \in Blocks
    /\ \A u \in Tasks : call[u].at = "log" => log_list[call[u].target] = Null
    /\ \A u \in Tasks : call[u].at = "copy" => log_list[call[u].target] \in Blocks
    /\ \A t \in Tasks : Exists(t) /\ log_list_size[t] > 0 => log_list[t] \in Blocks

Base == Shapes /\ Places /\ Stages

------------------------------------------------------------------------------
LEMMA CallKinds ==
    ASSUME NEW c \in Calls
    PROVE  /\ c.at = "none" <=> c = NoCall
           /\ c.at \in {"list", "log", "copy"} <=> c \in Changing
           /\ c.at = "buffer" <=> c \in Asking
           /\ c.at = "user" <=> c \in Answering
           /\ c.at \in {"none", "list", "log", "copy", "buffer", "user"}
           /\ c \in Changing => c.target \in Tasks /\ c.level \in Levels /\ c.list \in Lists
           /\ c \in Asking => c.target \in Tasks /\ c.size \in Nat
           /\ c \in Answering => c.to_usr \in Blocks
BY DEF Calls, NoCall, Changing, Asking, Answering

LEMMA InitBase == Init => Base
<1> SUFFICES ASSUME Init PROVE Base
  OBVIOUS
<1>1. \A t \in Tasks : call[t].at = "none"
  BY DEF Init, NoCall
<1>2. Shapes
  <2>1. proc_restriction_level \in [Tasks -> Levels]
    BY DEF Init, Levels
  <2>2. heap \in [Blocks -> {Unused, Uninitialised, Log} \cup {Scr(l) : l \in Lists}]
    BY DEF Init
  <2>3. /\ call \in [Tasks -> Calls] /\ policy \in [Tasks -> Lists \cup {<<>>}]
        /\ state \in [Tasks -> {"free", "running", "zombie"}]
    BY DEF Init, Calls
  <2> QED  BY <2>1, <2>2, <2>3 DEF Init, Shapes
<1>3. Places
  BY <1>1 DEF Places, Callers, Restricting
<1>4. Stages
  BY <1>1 DEF Stages, Init
<1> QED  BY <1>2, <1>3, <1>4 DEF Base

LEMMA StepShapes ==
    ASSUME Shapes, [Next]_vars
    PROVE  Shapes'
<1> USE ListsAssumption DEF Shapes
<1>1. \A t \in Tasks : call[t] \in Calls
  OBVIOUS
<1>2. \A l \in Lists : Len(l) \in Nat
  OBVIOUS
<1> DEFINE Holding == {Unused, Uninitialised, Log} \cup {Scr(l) : l \in Lists}
<1>3. \A B : Freed(heap, B) \in [Blocks -> Holding]
  BY DEF Freed
<1>4. \A b : kmalloc(b) => heap' \in [Blocks -> Holding]
  BY DEF kmalloc
<1> HIDE DEF Holding
<1>5. ASSUME NEW t \in Tasks, NEW target \in Tasks, NEW level \in Levels, NEW list \in Lists,
             ScRestrictFree(t, target, level, list)
      PROVE  Shapes'
  <2>1. [at |-> "list", target |-> target, level |-> level, list |-> list] \in Calls
    BY DEF Calls, Changing
  <2> QED  BY <1>3, <1>5, <2>1 DEF ScRestrictFree, fields, BadFree, Holding
<1>6. ASSUME NEW t \in Tasks, ScRestrictList(t)
      PROVE  Shapes'
  <2>1. call[t] \in Changing
    BY <1>1, <1>6, CallKinds DEF ScRestrictList
  <2>2. \A at \in {"log", "copy"} : [call[t] EXCEPT !.at = at] \in Calls
    BY <2>1 DEF Calls, Changing
  <2> QED  BY <1>4, <1>6, <2>1, <2>2, ZenonT(60) DEF ScRestrictList, Changing, Holding
<1>7. ASSUME NEW t \in Tasks, ScRestrictNoList(t)
      PROVE  Shapes'
  <2>1. call[t] \in Changing
    BY <1>1, <1>7, CallKinds DEF ScRestrictNoList
  <2> QED  BY <1>7, <2>1 DEF ScRestrictNoList, Changing, Calls
<1>8. ASSUME NEW t \in Tasks, ScRestrictLog(t)
      PROVE  Shapes'
  <2>1. call[t] \in Changing
    BY <1>1, <1>8, CallKinds DEF ScRestrictLog
  <2>2. [call[t] EXCEPT !.at = "copy"] \in Calls
    BY <2>1 DEF Calls, Changing
  <2> QED  BY <1>8, <2>1, <2>2 DEF ScRestrictLog, Changing
<1>9. ASSUME NEW t \in Tasks, ScRestrictNoLog(t)
      PROVE  Shapes'
  BY <1>3, <1>9 DEF ScRestrictNoLog, fields, Calls, BadFree, Holding
<1>10. ASSUME NEW t \in Tasks, ScRestrictCopy(t)
       PROVE  Shapes'
  <2>1. call[t] \in Changing
    BY <1>1, <1>10, CallKinds DEF ScRestrictCopy
  <2>2. /\ call[t].list \in Lists /\ call[t].level \in Levels /\ call[t].target \in Tasks
        /\ Scr(call[t].list) \in Holding
    BY <2>1 DEF Changing, Holding
  <2>3. heap' \in [Blocks -> Holding]
    BY <1>10, <2>2 DEF ScRestrictCopy, Holding
  <2>4. NewSize(call[t].target, call[t].list) \in [Tasks -> Nat]
    BY <1>2, <2>2 DEF NewSize
  <2> QED  BY <1>10, <2>2, <2>3, <2>4 DEF ScRestrictCopy, Calls, Holding
<1>11. ASSUME NEW t \in Tasks, NEW target \in Tasks, NEW level \in Levels,
              SetProcRestriction(t, target, level)
       PROVE  Shapes'
  BY <1>11 DEF SetProcRestriction
<1>12. ASSUME NEW t \in Tasks, NEW target \in Tasks, NEW size \in 0 .. MaxLogged,
              GetProcessLog(t, target, size)
       PROVE  Shapes'
  <2>1. [at |-> "buffer", target |-> target, size |-> size] \in Calls
    BY DEF Calls, Asking
  <2> QED  BY <1>12, <2>1 DEF GetProcessLog, fields
<1>13. ASSUME NEW t \in Tasks, GetProcessLogNoMemory(t)
       PROVE  Shapes'
  BY <1>13 DEF GetProcessLogNoMemory, fields, Calls
<1>14. ASSUME NEW t \in Tasks, GetProcessLogCopy(t)
       PROVE  Shapes'
  <2>1. \A b \in Blocks : [at |-> "user", to_usr |-> b] \in Calls
    BY DEF Calls, Answering
  <2> QED  BY <1>4, <1>14, <2>1 DEF GetProcessLogCopy, fields, Holding
<1>15. ASSUME NEW t \in Tasks, GetProcessLogReturn(t)
       PROVE  Shapes'
  BY <1>3, <1>15 DEF GetProcessLogReturn, fields, Calls, BadFree, Holding
<1>16. ASSUME NEW t \in Tasks, NEW num \in Syscalls, SyscallForbidden(t, num)
       PROVE  Shapes'
  BY <1>16 DEF SyscallForbidden
<1>17. ASSUME NEW p \in Tasks, NEW c \in Tasks, Fork(p, c)
       PROVE  Shapes'
  BY <1>17 DEF Fork, InChild, Levels
<1>18. ASSUME NEW t \in Tasks, Exit(t)
       PROVE  Shapes'
  BY <1>18 DEF Exit, fields
<1>20. ASSUME NEW t \in Tasks, ReleaseTask(t)
       PROVE  Shapes'
  <2>1. heap' \in [Blocks -> Holding]
    BY <1>3, <1>20 DEF ReleaseTask
  <2>2. fault' \in BOOLEAN
    BY <1>20 DEF ReleaseTask, BadFree
  <2>3. state' \in [Tasks -> {"free", "running", "zombie"}]
    BY <1>20 DEF ReleaseTask
  <2> QED  BY <1>20, <2>1, <2>2, <2>3 DEF ReleaseTask, fields, Holding
<1>19. CASE UNCHANGED vars
  BY <1>19 DEF vars, fields
<1> QED
  BY <1>5, <1>6, <1>7, <1>8, <1>9, <1>10, <1>11, <1>12, <1>13, <1>14, <1>15, <1>16, <1>17,
     <1>18, <1>19, <1>20 DEF Next, ScRestrict

(* A call that goes on or ends leaves the places as they are. *)
LEMMA PlacesAdvance ==
    ASSUME Places, NEW t \in Tasks, state[t] = "running",
           state' = state, log_list_size' = log_list_size,
           \A u \in Tasks \ {t} : call'[u] = call[u],
           call'[t].at # "buffer",
           \A x \in Tasks : Restricting(t, x)' => Restricting(t, x)
    PROVE  Places'
<1>1. \A u, x \in Tasks : Restricting(u, x)' => Restricting(u, x)
  BY DEF Restricting
<1>2. \A u \in Tasks : call'[u].at = "buffer" => u # t /\ call'[u] = call[u]
  OBVIOUS
<1> QED  BY <1>1, <1>2 DEF Places, Callers, Exists

LEMMA StepPlaces ==
    ASSUME Shapes, Places, [Next]_vars, ~crossed'
    PROVE  Places'
<1>1. \A t \in Tasks : call[t] \in Calls
  BY DEF Shapes
<1> USE DEF Callers
<1>2. \A t \in Tasks : Runs(t) => state[t] = "running"
  BY DEF Runs
<1>4. \A t \in Tasks : InUser(t) => call[t].at = "none" /\ state[t] = "running"
  BY <1>2 DEF InUser
<1>5. ASSUME NEW t \in Tasks, NEW target \in Tasks, NEW level \in Levels, NEW list \in Lists,
             ScRestrictFree(t, target, level, list)
      PROVE  Places'
  <2>1. /\ ~InProgress(target) /\ Exists(target) /\ InUser(t)
        /\ state' = state /\ log_list_size' = log_list_size
    BY <1>5 DEF ScRestrictFree, fields
  <2> DEFINE N == [at |-> "list", target |-> target, level |-> level, list |-> list]
  <2>2. N.at = "list" /\ N.target = target
    OBVIOUS
  <2> HIDE DEF N
  <2>3. call'[t] = N /\ \A u \in Tasks \ {t} : call'[u] = call[u]
    BY <1>5 DEF ScRestrictFree, Shapes, N
  <2>4. \A u, x \in Tasks : Restricting(u, x)' => IF u = t THEN x = target ELSE Restricting(u, x)
    BY <2>2, <2>3 DEF Restricting
  <2>5. \A u \in Tasks : ~Restricting(u, target)
    BY <2>1 DEF InProgress
  <2>6. \A u, v, x \in Tasks : Restricting(u, x)' /\ Restricting(v, x)' => u = v
    BY <2>4, <2>5 DEF Places
  <2>7. \A u \in Tasks : call'[u].at = "buffer" => u # t /\ call'[u] = call[u]
    BY <2>2, <2>3
  <2>8. \A u \in Tasks : call'[u].at # "none" => state[u] = "running"
    BY <1>4, <2>1, <2>3 DEF Places
  <2> QED  BY <2>1, <2>4, <2>6, <2>7, <2>8 DEF Places, Exists
<1>6. ASSUME NEW t \in Tasks, \/ ScRestrictList(t) \/ ScRestrictLog(t)
      PROVE  Places'
  <2>1. /\ call[t].at \in {"list", "log"} /\ Runs(t)
        /\ state' = state /\ log_list_size' = log_list_size
    BY <1>6 DEF ScRestrictList, ScRestrictLog
  <2>2. call[t] \in Changing
    BY <1>1, <2>1, CallKinds
  <2>3. PICK at \in {"log", "copy"} : call' = [call EXCEPT ![t].at = at]
    BY <1>6 DEF ScRestrictList, ScRestrictLog
  <2>4. /\ call'[t].at = at /\ call'[t].target = call[t].target
        /\ \A u \in Tasks \ {t} : call'[u] = call[u]
    BY <2>2, <2>3 DEF Shapes, Changing
  <2> QED  BY <1>2, <2>1, <2>4, PlacesAdvance DEF Restricting
<1>7. ASSUME NEW t \in Tasks,
             \/ ScRestrictNoList(t) \/ ScRestrictNoLog(t) \/ ScRestrictCopy(t)
             \/ GetProcessLogNoMemory(t) \/ GetProcessLogReturn(t)
      PROVE  Places'
  <2>1. Runs(t) /\ state' = state /\ log_list_size' = log_list_size
        /\ call' = [call EXCEPT ![t] = NoCall]
    BY <1>7 DEF ScRestrictNoList, ScRestrictNoLog, ScRestrictCopy, GetProcessLogNoMemory,
                GetProcessLogReturn, fields
  <2>2. call'[t].at = "none" /\ \A u \in Tasks \ {t} : call'[u] = call[u]
    BY <2>1 DEF Shapes, NoCall
  <2> QED  BY <1>2, <2>1, <2>2, PlacesAdvance DEF Restricting
<1>8. ASSUME NEW t \in Tasks, NEW target \in Tasks, NEW level \in Levels,
             SetProcRestriction(t, target, level)
      PROVE  Places'
  BY <1>8 DEF SetProcRestriction, Places, Restricting, Exists
<1>9. ASSUME NEW t \in Tasks, NEW target \in Tasks, NEW size \in 0 .. MaxLogged,
             GetProcessLog(t, target, size)
      PROVE  Places'
  <2>1. /\ Exists(target) /\ InUser(t) /\ size <= log_list_size[target]
        /\ state' = state /\ log_list_size' = log_list_size
    BY <1>9 DEF GetProcessLog, fields
  <2> DEFINE N == [at |-> "buffer", target |-> target, size |-> size]
  <2>2. N.at = "buffer" /\ N.target = target /\ N.size = size
    OBVIOUS
  <2> HIDE DEF N
  <2>3. call'[t] = N /\ \A u \in Tasks \ {t} : call'[u] = call[u]
    BY <1>9 DEF GetProcessLog, Shapes, N
  <2>4. \A u, x \in Tasks : Restricting(u, x)' => Restricting(u, x)
    BY <2>2, <2>3 DEF Restricting
  <2>5. \A u \in Tasks : call'[u].at # "none" => state[u] = "running"
    BY <1>4, <2>1, <2>3 DEF Places
  <2>6. \A u \in Tasks : call'[u].at = "buffer" =>
            Exists(call'[u].target) /\ call'[u].size <= log_list_size[call'[u].target]
    <3>1. \A u \in Tasks : call[u].at = "buffer" => call[u].target \in Tasks
      BY <1>1, CallKinds
    <3> QED  BY <2>1, <2>2, <2>3, <3>1 DEF Places
  <2> QED  BY <2>1, <2>4, <2>5, <2>6 DEF Places, Exists
<1>10. ASSUME NEW t \in Tasks, GetProcessLogCopy(t)
       PROVE  Places'
  <2>1. PICK b \in Blocks : call' = [call EXCEPT ![t] = [at |-> "user", to_usr |-> b]]
    BY <1>10 DEF GetProcessLogCopy
  <2>2. call'[t].at = "user" /\ \A u \in Tasks \ {t} : call'[u] = call[u]
    BY <2>1 DEF Shapes
  <2>3. Runs(t) /\ state' = state /\ log_list_size' = log_list_size
    BY <1>10 DEF GetProcessLogCopy, fields
  <2> QED  BY <1>2, <2>2, <2>3, PlacesAdvance DEF Restricting
<1>11. ASSUME NEW t \in Tasks, NEW num \in Syscalls, SyscallForbidden(t, num)
       PROVE  Places'
  <2>1. state' = state /\ call' = call
    BY <1>11 DEF SyscallForbidden
  <2>2. \A x \in Tasks : log_list_size[x] <= log_list_size'[x]
    BY <1>11 DEF SyscallForbidden, Shapes
  <2>3. \A u \in Tasks : call[u].at = "buffer" =>
            call[u].size \in Nat /\ call[u].target \in Tasks
    BY <1>1, CallKinds
  <2>4. \A u \in Tasks : call[u].at = "buffer" =>
            call[u].size <= log_list_size'[call[u].target]
    <3> SUFFICES ASSUME NEW u \in Tasks, call[u].at = "buffer"
                 PROVE  call[u].size <= log_list_size'[call[u].target]
      OBVIOUS
    <3>1. call[u].size <= log_list_size[call[u].target]
      BY <2>3 DEF Places
    <3>2. log_list_size'[call[u].target] \in Nat /\ log_list_size[call[u].target] \in Nat
      BY <1>11, <2>3 DEF SyscallForbidden, Shapes
    <3> QED  BY <2>2, <2>3, <3>1, <3>2
  <2> QED  BY <2>1, <2>4 DEF Places, Restricting, Exists
<1>12. ASSUME NEW p \in Tasks, NEW c \in Tasks, Fork(p, c)
       PROVE  Places'
  <2>1. /\ state[c] = "free" /\ state'[c] = "running" /\ call' = call
        /\ \A x \in Tasks \ {c} : state'[x] = state[x] /\ log_list_size'[x] = log_list_size[x]
    BY <1>12 DEF Fork, Shapes
  <2>2. \A u \in Tasks : call[u].at = "buffer" => call[u].target \in Tasks \ {c}
    BY <1>1, <2>1, CallKinds DEF Places, Callers, Exists
  <2>3. \A u \in Tasks : call[u].at = "buffer" =>
            Exists(call[u].target)' /\ call[u].size <= log_list_size'[call[u].target]
    BY <2>1, <2>2 DEF Places, Exists
  <2> QED  BY <2>1, <2>3 DEF Places, Restricting, Exists
<1>13. ASSUME NEW t \in Tasks, Exit(t)
       PROVE  Places'
  <2>1. /\ call[t].at = "none" /\ call' = call /\ log_list_size' = log_list_size
        /\ state'[t] = "zombie" /\ \A x \in Tasks \ {t} : state'[x] = state[x]
    BY <1>4, <1>13 DEF Exit, fields, Shapes
  <2> QED  BY <2>1 DEF Places, Restricting, Exists
<1>14. ASSUME NEW t \in Tasks, ReleaseTask(t)
       PROVE  Places'
  <2>1. /\ state[t] = "zombie" /\ call' = call /\ log_list_size' = log_list_size
        /\ state'[t] = "free" /\ \A x \in Tasks \ {t} : state'[x] = state[x]
        /\ ~InProgress(t) /\ ~LogAskedFor(t)
    BY <1>14 DEF ReleaseTask, fields, Shapes
  <2>2. call[t].at = "none"
    BY <1>1, <2>1, CallKinds DEF Places
  <2>3. \A u \in Tasks : ~Restricting(u, t)
    BY <2>1 DEF InProgress
  <2>4. \A u \in Tasks : ~(call[u].at = "buffer" /\ call[u].target = t)
    BY <2>1 DEF LogAskedFor
  <2> QED  BY <2>1, <2>2, <2>3, <2>4 DEF Places, Restricting, Exists
<1>15. CASE UNCHANGED vars
  BY <1>15 DEF vars, fields, Places, Restricting, Exists
<1> QED
  BY <1>5, <1>6, <1>7, <1>8, <1>9, <1>10, <1>11, <1>12, <1>13, <1>14, <1>15
     DEF Next, ScRestrict

LEMMA StepStages ==
    ASSUME Base, [Next]_vars, ~crossed'
    PROVE  Stages'
<1> USE DEF Base
<1>1. \A t \in Tasks : call[t] \in Calls
  BY DEF Shapes
<1>3. \A u \in Tasks : call[u].at \in {"list", "log", "copy"} =>
          /\ call[u].target \in Tasks /\ Restricting(u, call[u].target)
          /\ Exists(call[u].target)
  BY <1>1, CallKinds DEF Restricting, Places
<1>4. ASSUME NEW t \in Tasks, restrictions_list' = restrictions_list, log_list' = log_list,
             log_list_size' = log_list_size,
             \A x \in Tasks : Exists(x)' => Exists(x),
             \A u \in Tasks \ {t} : call'[u] = call[u],
             \/ call'[t] = call[t]
             \/ call'[t].at \notin {"log", "copy"}
      PROVE  Stages'
  <2>1. \A u \in Tasks : call'[u].at \in {"log", "copy"} => call'[u] = call[u]
    BY <1>4
  <2> QED  BY <1>4, <2>1 DEF Stages
<1>5. ASSUME NEW t \in Tasks, NEW target \in Tasks, NEW level \in Levels, NEW list \in Lists,
             ScRestrictFree(t, target, level, list)
      PROVE  Stages'
  <2>1. call'[t].at = "list" /\ \A u \in Tasks \ {t} : call'[u] = call[u]
    BY <1>5 DEF ScRestrictFree, Shapes
  <2> QED  BY <1>4, <1>5, <2>1 DEF ScRestrictFree, fields, Exists
<1>6. ASSUME NEW t \in Tasks, ScRestrictList(t)
      PROVE  Stages'
  <2> DEFINE target == call[t].target
  <2>1. call[t] \in Changing /\ target \in Tasks
    BY <1>1, <1>6, CallKinds DEF ScRestrictList
  <2>2. PICK b \in Blocks : restrictions_list' = [restrictions_list EXCEPT ![target] = b]
    BY <1>6 DEF ScRestrictList
  <2>3. /\ call'[t].target = target
        /\ call'[t].at = IF log_list[target] = Null THEN "log" ELSE "copy"
        /\ \A u \in Tasks \ {t} : call'[u] = call[u]
    BY <1>6, <2>1 DEF ScRestrictList, Shapes, Changing
  <2>4. log_list[target] \in Blocks \cup {Null}
    BY <2>1 DEF Shapes
  <2>5. \A u \in Tasks : call'[u].at \in {"log", "copy"} => call'[u].target \in Tasks
    BY <1>3, <2>1, <2>3
  <2>6. /\ restrictions_list'[target] = b
        /\ \A x \in Tasks \ {target} : restrictions_list'[x] = restrictions_list[x]
    BY <2>1, <2>2 DEF Shapes
  <2>7. log_list' = log_list /\ log_list_size' = log_list_size /\ state' = state
    BY <1>6 DEF ScRestrictList
  <2> HIDE DEF target
  <2>8. \A u \in Tasks : call'[u].at \in {"log", "copy"} =>
            restrictions_list'[call'[u].target] \in Blocks
    BY <2>2, <2>3, <2>5, <2>6 DEF Stages
  <2>9. \A u \in Tasks : /\ call'[u].at = "log" => log_list[call'[u].target] = Null
                         /\ call'[u].at = "copy" => log_list[call'[u].target] \in Blocks
    BY <2>3, <2>4 DEF Stages
  <2> QED  BY <2>7, <2>8, <2>9 DEF Stages, Exists
<1>7. ASSUME NEW t \in Tasks, ScRestrictNoList(t)
      PROVE  Stages'
  <2> DEFINE target == call[t].target
  <2>1. call[t].at = "list" /\ target \in Tasks
    BY <1>1, <1>7, CallKinds DEF ScRestrictNoList
  <2>2. /\ \A x \in Tasks \ {target} : restrictions_list'[x] = restrictions_list[x]
        /\ call'[t].at = "none" /\ \A u \in Tasks \ {t} : call'[u] = call[u]
        /\ log_list' = log_list /\ log_list_size' = log_list_size /\ state' = state
    BY <1>7, <2>1 DEF ScRestrictNoList, Shapes, NoCall
  <2>3. \A u \in Tasks : call'[u].at \in {"log", "copy"} =>
            u # t /\ call'[u] = call[u] /\ call[u].target # target
    BY <1>3, <2>1, <2>2 DEF Places, Restricting
  <2> HIDE DEF target
  <2> QED  BY <1>3, <2>2, <2>3 DEF Stages, Exists
<1>8. ASSUME NEW t \in Tasks, ScRestrictLog(t)
      PROVE  Stages'
  <2> DEFINE target == call[t].target
  <2>1. call[t].at = "log" /\ call[t] \in Changing /\ target \in Tasks
    BY <1>1, <1>8, CallKinds DEF ScRestrictLog
  <2>2. PICK b \in Blocks : log_list' = [log_list EXCEPT ![target] = b]
    BY <1>8 DEF ScRestrictLog
  <2>3. /\ call'[t].target = target /\ call'[t].at = "copy"
        /\ \A u \in Tasks \ {t} : call'[u] = call[u]
        /\ log_list'[target] = b
        /\ \A x \in Tasks \ {target} : log_list'[x] = log_list[x]
        /\ restrictions_list' = restrictions_list
        /\ log_list_size' = log_list_size /\ state' = state
    BY <1>8, <2>1, <2>2 DEF ScRestrictLog, Shapes, Changing
  <2>4. \A u \in Tasks \ {t} : call[u].at \in {"log", "copy"} => call[u].target # target
    BY <1>3, <2>1 DEF Places, Restricting
  <2> HIDE DEF target
  <2>5. \A u \in Tasks : call'[u].at \in {"log", "copy"} =>
            restrictions_list[call'[u].target] \in Blocks
    BY <2>1, <2>3 DEF Stages, target
  <2>6. \A u \in Tasks : /\ call'[u].at = "log" => log_list'[call'[u].target] = Null
                         /\ call'[u].at = "copy" => log_list'[call'[u].target] \in Blocks
    BY <1>3, <2>2, <2>3, <2>4 DEF Stages
  <2>7. \A x \in Tasks : Exists(x) /\ log_list_size[x] > 0 => log_list'[x] \in Blocks
    BY <2>2, <2>3 DEF Stages
  <2> QED  BY <2>3, <2>5, <2>6, <2>7 DEF Stages, Exists
<1>9. ASSUME NEW t \in Tasks,
             \/ ScRestrictNoLog(t) \/ ScRestrictCopy(t)
             \/ GetProcessLogNoMemory(t) \/ GetProcessLogReturn(t)
      PROVE  Stages'
  <2>1. call' = [call EXCEPT ![t] = NoCall]
    BY <1>9 DEF ScRestrictNoLog, ScRestrictCopy, GetProcessLogNoMemory, GetProcessLogReturn
  <2>2. call'[t].at = "none" /\ \A u \in Tasks \ {t} : call'[u] = call[u]
    BY <2>1 DEF Shapes, NoCall
  <2>3. /\ restrictions_list' = restrictions_list /\ log_list' = log_list
        /\ log_list_size' = log_list_size /\ state' = state
    BY <1>9 DEF ScRestrictNoLog, ScRestrictCopy, GetProcessLogNoMemory, GetProcessLogReturn,
                fields
  <2> QED  BY <1>4, <2>2, <2>3 DEF Exists
<1>10. ASSUME NEW t \in Tasks, NEW target \in Tasks, NEW level \in Levels,
              SetProcRestriction(t, target, level)
       PROVE  Stages'
  BY <1>4, <1>10 DEF SetProcRestriction, Exists
<1>11. ASSUME NEW t \in Tasks, NEW target \in Tasks, NEW size \in 0 .. MaxLogged,
              GetProcessLog(t, target, size)
       PROVE  Stages'
  <2>1. call'[t].at = "buffer" /\ \A u \in Tasks \ {t} : call'[u] = call[u]
    BY <1>11 DEF GetProcessLog, Shapes
  <2> QED  BY <1>4, <1>11, <2>1 DEF GetProcessLog, fields, Exists
<1>12. ASSUME NEW t \in Tasks, GetProcessLogCopy(t)
       PROVE  Stages'
  <2>1. call'[t].at = "user" /\ \A u \in Tasks \ {t} : call'[u] = call[u]
    BY <1>12 DEF GetProcessLogCopy, Shapes
  <2> QED  BY <1>4, <1>12, <2>1 DEF GetProcessLogCopy, fields, Exists
<1>13. ASSUME NEW t \in Tasks, NEW num \in Syscalls, SyscallForbidden(t, num)
       PROVE  Stages'
  <2>1. log_list[t] \in Blocks
    BY <1>13 DEF SyscallForbidden, Shapes
  <2>2. \A x \in Tasks \ {t} : log_list_size'[x] = log_list_size[x]
    BY <1>13 DEF SyscallForbidden, Shapes
  <2> QED  BY <1>13, <2>1, <2>2 DEF SyscallForbidden, Stages, Exists
<1>14. ASSUME NEW p \in Tasks, NEW c \in Tasks, Fork(p, c)
       PROVE  Stages'
  <2>1. /\ ~Exists(c) /\ call' = call /\ log_list_size'[c] = 0
        /\ \A x \in Tasks \ {c} : /\ restrictions_list'[x] = restrictions_list[x]
                                  /\ log_list'[x] = log_list[x]
                                  /\ log_list_size'[x] = log_list_size[x]
                                  /\ Exists(x)' <=> Exists(x)
    BY <1>14 DEF Fork, InChild, Shapes, Exists
  <2>2. \A u \in Tasks : call[u].at \in {"log", "copy"} => call[u].target \in Tasks \ {c}
    BY <1>3, <2>1
  <2> QED  BY <2>1, <2>2 DEF Stages
<1>15. ASSUME NEW t \in Tasks, Exit(t) \/ ReleaseTask(t)
       PROVE  Stages'
  <2>1. \A x \in Tasks : Exists(x)' => Exists(x)
    BY <1>15 DEF Exit, ReleaseTask, InUser, Runs, Exists, Shapes
  <2> QED  BY <1>4, <1>15, <2>1 DEF Exit, ReleaseTask, fields
<1>16. CASE UNCHANGED vars
  BY <1>16 DEF vars, fields, Stages, Exists
<1> QED
  BY <1>5, <1>6, <1>7, <1>8, <1>9, <1>10, <1>11, <1>12, <1>13, <1>14, <1>15, <1>16
     DEF Next, ScRestrict

LEMMA StepBase == Base /\ [Next]_vars /\ ~crossed' => Base'
BY StepShapes, StepPlaces, StepStages DEF Base

------------------------------------------------------------------------------
(* A pointer that will be followed or freed: an element of Pointers. *)
Kinds == {"list", "log", "buffer"}

Points(t, b, k) ==
    \/ k = "list" /\ Exists(t) /\ ~Replacing(t) /\ restrictions_list[t] = b
    \/ k = "log" /\ Exists(t) /\ log_list[t] = b
    \/ k = "buffer" /\ call[t].at = "user" /\ call[t].to_usr = b

(* No block has two owners; the blocks in use are those that have one. *)
Owned ==
    /\ \A t, u \in Tasks, k, l \in Kinds, b \in Blocks :
          Points(t, b, k) /\ Points(u, b, l) => t = u /\ k = l
    /\ \A b \in Blocks :
          heap[b] # Unused <=> \E t \in Tasks, k \in Kinds : Points(t, b, k)

LEMMA BlockKinds ==
    /\ Uninitialised # Unused /\ Log # Unused /\ Log # Uninitialised
    /\ \A l : Scr(l) # Unused /\ Scr(l) # Log /\ Scr(l).kind = "scr" /\ Scr(l).list = l
BY DEF Unused, Uninitialised, Log, Scr

LEMMA OwnSame ==
    ASSUME Owned,
           \A b \in Blocks : heap'[b] = Unused <=> heap[b] = Unused,
           \A t \in Tasks, k \in Kinds, b \in Blocks : Points(t, b, k)' <=> Points(t, b, k)
    PROVE  Owned'
<1>1. \A t, u \in Tasks, k, l \in Kinds, b \in Blocks :
          Points(t, b, k)' /\ Points(u, b, l)' => t = u /\ k = l
  BY DEF Owned
<1>2. \A b \in Blocks :
          heap'[b] # Unused <=> \E t \in Tasks, k \in Kinds : Points(t, b, k)'
  BY DEF Owned
<1> QED  BY <1>1, <1>2 DEF Owned

(* An allocation, to a field that pointed nowhere. *)
LEMMA OwnMore ==
    ASSUME Owned, NEW x \in Tasks, NEW kind \in Kinds, NEW new \in Blocks,
           heap[new] = Unused, heap'[new] # Unused,
           \A b \in Blocks \ {new} : heap'[b] = Unused <=> heap[b] = Unused,
           \A t \in Tasks, k \in Kinds, b \in Blocks :
               Points(t, b, k)' <=> \/ Points(t, b, k)
                                    \/ t = x /\ k = kind /\ b = new
    PROVE  Owned'
<1>1. \A t \in Tasks, k \in Kinds : ~Points(t, new, k)
  BY DEF Owned
<1>2. \A t, u \in Tasks, k, l \in Kinds, b \in Blocks :
          Points(t, b, k)' /\ Points(u, b, l)' => t = u /\ k = l
  BY <1>1 DEF Owned
<1>3. \A b \in Blocks :
          heap'[b] # Unused <=> \E t \in Tasks, k \in Kinds : Points(t, b, k)'
  <2>1. Points(x, new, kind)'
    OBVIOUS
  <2>2. \A b \in Blocks \ {new} : \A t \in Tasks, k \in Kinds :
            Points(t, b, k)' <=> Points(t, b, k)
    OBVIOUS
  <2>3. \A b \in Blocks \ {new} :
            heap'[b] # Unused <=> \E t \in Tasks, k \in Kinds : Points(t, b, k)'
    BY <2>2 DEF Owned
  <2> QED  BY <2>1, <2>3
<1> QED  BY <1>2, <1>3 DEF Owned

(* The end of some blocks and of the pointers to them. *)
LEMMA OwnLess ==
    ASSUME Owned, NEW B, heap' = Freed(heap, B),
           \A t \in Tasks, k \in Kinds, b \in Blocks :
               Points(t, b, k)' <=> Points(t, b, k) /\ b \notin B
    PROVE  Owned'
<1>1. \A b \in Blocks : heap'[b] = IF b \in B THEN Unused ELSE heap[b]
  BY DEF Freed
<1>2. \A t, u \in Tasks, k, l \in Kinds, b \in Blocks :
          Points(t, b, k)' /\ Points(u, b, l)' => t = u /\ k = l
  BY DEF Owned
<1>3. \A b \in Blocks :
          heap'[b] # Unused <=> \E t \in Tasks, k \in Kinds : Points(t, b, k)'
  BY <1>1 DEF Owned
<1> QED  BY <1>2, <1>3 DEF Owned

LEMMA StepOwned ==
    ASSUME Base, Owned, [Next]_vars, Intact'
    PROVE  Owned'
<1> USE NullAssumption DEF Base
<1>1. \A t \in Tasks : call[t] \in Calls
  BY DEF Shapes
<1>2. \A u \in Tasks : call[u].at \in {"list", "log", "copy"} =>
          /\ call[u].target \in Tasks /\ Restricting(u, call[u].target)
          /\ Exists(call[u].target)
  BY <1>1, CallKinds DEF Restricting, Places
<1>3. \A t \in Tasks : InUser(t) => call[t].at = "none"
  BY DEF InUser
<1>4. ASSUME NEW t \in Tasks, state' = state, restrictions_list' = restrictions_list,
             log_list' = log_list, heap' = heap,
             \A u \in Tasks \ {t} : call'[u] = call[u],
             call'[t] = call[t] \/ {call[t].at, call'[t].at} \cap {"list", "user"} = {}
      PROVE  Owned'
  <2>1. \A x \in Tasks : Replacing(x)' <=> Replacing(x)
    BY <1>4 DEF Replacing
  <2>2. ASSUME NEW x \in Tasks, NEW k \in Kinds, NEW b \in Blocks
        PROVE  Points(x, b, k)' <=> Points(x, b, k)
    <3>1. Exists(x)' <=> Exists(x)
      BY <1>4 DEF Exists
    <3>2. \/ call'[x] = call[x]
          \/ call[x].at # "user" /\ call'[x].at # "user"
      BY <1>4
    <3> QED  BY <1>4, <2>1, <3>1, <3>2, Zenon DEF Points
  <2> QED  BY <1>4, <2>2, OwnSame
<1>5. ASSUME NEW t \in Tasks, NEW target \in Tasks, NEW level \in Levels, NEW list \in Lists,
             ScRestrictFree(t, target, level, list)
      PROVE  Owned'
  <2>1. /\ call[t].at = "none" /\ Exists(target) /\ ~Replacing(target)
        /\ heap' = Freed(heap, OldList(target)) /\ state' = state
        /\ restrictions_list' = restrictions_list /\ log_list' = log_list
    BY <1>3, <1>5 DEF ScRestrictFree, fields, InProgress, Replacing, Restricting, Intact
  <2>2. /\ call'[t].at = "list" /\ call'[t].target = target
        /\ \A u \in Tasks \ {t} : call'[u] = call[u]
    BY <1>5 DEF ScRestrictFree, Shapes
  <2>3. \A x \in Tasks : Replacing(x)' <=> Replacing(x) \/ x = target
    BY <2>1, <2>2 DEF Replacing
  <2>4. \A x \in Tasks : call'[x].at = "user" <=> call[x].at = "user" /\ x # t
    BY <2>1, <2>2
  <2>5. \A x \in Tasks, k \in Kinds, b \in Blocks :
            Points(x, b, k)' <=> Points(x, b, k) /\ ~(x = target /\ k = "list")
    BY <2>1, <2>2, <2>3, <2>4 DEF Points, Exists
  <2>6. Points(target, restrictions_list[target], "list")
    BY <2>1 DEF Points
  <2>7. \A x \in Tasks, k \in Kinds, b \in Blocks :
            Points(x, b, k) => (b \in OldList(target) <=> x = target /\ k = "list")
    <3>1. \A b \in Blocks : b \in OldList(target) <=> b = restrictions_list[target]
      BY DEF OldList
    <3>2. "list" \in Kinds
      BY DEF Kinds
    <3>3. \A x \in Tasks, k \in Kinds, b \in Blocks :
              Points(x, b, k) /\ b = restrictions_list[target] => x = target /\ k = "list"
      BY <2>6, <3>2 DEF Owned
    <3>4. \A b \in Blocks : Points(target, b, "list") => b = restrictions_list[target]
      BY DEF Points
    <3> QED  BY <3>1, <3>3, <3>4
  <2> QED  BY <2>1, <2>5, <2>7, OwnLess
<1>6. ASSUME NEW t \in Tasks, ScRestrictList(t)
      PROVE  Owned'
  <2> DEFINE target == call[t].target
  <2>1. /\ call[t].at = "list" /\ target \in Tasks /\ call[t] \in Changing
        /\ Exists(target) /\ Replacing(target)
    BY <1>1, <1>2, <1>6, CallKinds DEF ScRestrictList, Replacing
  <2>2. PICK new \in Blocks : /\ kmalloc(new)
                              /\ restrictions_list' = [restrictions_list EXCEPT ![target] = new]
    BY <1>6 DEF ScRestrictList
  <2>3. /\ call'[t].at \in {"log", "copy"} /\ \A u \in Tasks \ {t} : call'[u] = call[u]
        /\ restrictions_list'[target] = new
        /\ \A x \in Tasks \ {target} : restrictions_list'[x] = restrictions_list[x]
        /\ log_list' = log_list /\ state' = state
    BY <1>6, <2>1, <2>2 DEF ScRestrictList, Shapes, Changing
  <2>4. \A x \in Tasks : Replacing(x)' <=> Replacing(x) /\ x # target
    <3>1. \A u \in Tasks : call[u].at = "list" /\ call[u].target = target => u = t
      BY <2>1 DEF Places, Restricting
    <3> HIDE DEF target
    <3>2. \A u \in Tasks : call'[u].at = "list" => call[u].at = "list" /\ u # t /\ call'[u] = call[u]
      BY <2>3
    <3>3. \A x \in Tasks : Replacing(x)' => Replacing(x) /\ x # target
      BY <3>1, <3>2 DEF Replacing
    <3>4. \A x \in Tasks : Replacing(x) /\ x # target => Replacing(x)'
      BY <2>1, <2>3 DEF Replacing, target
    <3> QED  BY <3>3, <3>4
  <2> HIDE DEF target
  <2>5. \A x \in Tasks, k \in Kinds, b \in Blocks :
            Points(x, b, k)' <=> Points(x, b, k) \/ (x = target /\ k = "list" /\ b = new)
    <3>1. \A x \in Tasks : call'[x].at = "user" <=> call[x].at = "user" /\ x # t
      BY <2>1, <2>3
    <3> QED  BY <2>1, <2>3, <2>4, <3>1 DEF Points, Exists
  <2>6. /\ heap[new] = Unused /\ heap'[new] # Unused
        /\ \A b \in Blocks \ {new} : heap'[b] = heap[b]
    BY <2>2, BlockKinds DEF kmalloc, Shapes
  <2>7. "list" \in Kinds
    BY DEF Kinds
  <2> QED  BY <2>1, <2>5, <2>6, <2>7, OwnMore
<1>7. ASSUME NEW t \in Tasks, ScRestrictNoList(t)
      PROVE  Owned'
  <2> DEFINE target == call[t].target
  <2>1. call[t].at = "list" /\ target \in Tasks /\ Replacing(target)
    BY <1>2, <1>7 DEF ScRestrictNoList, Replacing
  <2>2. /\ call'[t].at = "none" /\ \A u \in Tasks \ {t} : call'[u] = call[u]
        /\ restrictions_list'[target] = Null
        /\ \A x \in Tasks \ {target} : restrictions_list'[x] = restrictions_list[x]
        /\ log_list' = log_list /\ state' = state /\ heap' = heap
    BY <1>7, <2>1 DEF ScRestrictNoList, Shapes, NoCall
  <2> HIDE DEF target
  <2>3. \A x \in Tasks \ {target} : Replacing(x)' <=> Replacing(x)
    BY <2>1, <2>2 DEF Replacing, target
  <2>4. \A x \in Tasks, k \in Kinds, b \in Blocks : Points(x, b, k)' <=> Points(x, b, k)
    <3>1. \A x \in Tasks : call'[x].at = "user" <=> call[x].at = "user" /\ x # t
      BY <2>1, <2>2
    <3> QED  BY <2>1, <2>2, <2>3, <3>1 DEF Points, Exists
  <2> QED  BY <2>2, <2>4, OwnSame
<1>8. ASSUME NEW t \in Tasks, ScRestrictLog(t)
      PROVE  Owned'
  <2> DEFINE target == call[t].target
  <2>1. /\ call[t].at = "log" /\ target \in Tasks /\ call[t] \in Changing
        /\ Exists(target) /\ log_list[target] = Null
    BY <1>1, <1>2, <1>8, CallKinds DEF ScRestrictLog, Stages
  <2>2. PICK new \in Blocks : /\ heap[new] = Unused
                              /\ heap' = [heap EXCEPT ![new] = Log]
                              /\ log_list' = [log_list EXCEPT ![target] = new]
    BY <1>8 DEF ScRestrictLog
  <2>3. /\ call'[t].at = "copy" /\ \A u \in Tasks \ {t} : call'[u] = call[u]
        /\ log_list'[target] = new
        /\ \A x \in Tasks \ {target} : log_list'[x] = log_list[x]
        /\ restrictions_list' = restrictions_list /\ state' = state
    BY <1>8, <2>1, <2>2 DEF ScRestrictLog, Shapes, Changing
  <2> HIDE DEF target
  <2>4. \A x \in Tasks : Replacing(x)' <=> Replacing(x)
    BY <2>1, <2>3 DEF Replacing
  <2>5. \A x \in Tasks, k \in Kinds, b \in Blocks :
            Points(x, b, k)' <=> Points(x, b, k) \/ (x = target /\ k = "log" /\ b = new)
    <3>1. \A x \in Tasks : call'[x].at = "user" <=> call[x].at = "user" /\ x # t
      BY <2>1, <2>3
    <3> QED  BY <2>1, <2>3, <2>4, <3>1 DEF Points, Exists
  <2>6. /\ heap'[new] # Unused /\ \A b \in Blocks \ {new} : heap'[b] = heap[b]
    BY <2>2, BlockKinds DEF Shapes
  <2>7. "log" \in Kinds
    BY DEF Kinds
  <2> QED  BY <2>1, <2>2, <2>5, <2>6, <2>7, OwnMore
<1>9. ASSUME NEW t \in Tasks, ScRestrictNoLog(t)
      PROVE  Owned'
  BY <1>9 DEF ScRestrictNoLog, Intact
<1>10. ASSUME NEW t \in Tasks, ScRestrictCopy(t)
       PROVE  Owned'
  <2> DEFINE target == call[t].target
             b0 == restrictions_list[target]
  <2>1. call[t].at = "copy" /\ target \in Tasks /\ Exists(target) /\ b0 \in Blocks
    BY <1>2, <1>10 DEF ScRestrictCopy, Stages
  <2>2. ~Replacing(target)
    BY <1>2, <2>1 DEF Replacing, Restricting, Places
  <2>3. heap[b0] # Unused
    <3>1. Points(target, b0, "list") /\ "list" \in Kinds
      BY <2>1, <2>2 DEF Points, Kinds
    <3> QED  BY <2>1, <3>1 DEF Owned
  <2>4. /\ call'[t].at = "none" /\ \A u \in Tasks \ {t} : call'[u] = call[u]
        /\ restrictions_list' = restrictions_list
        /\ log_list' = log_list /\ state' = state
        /\ heap'[b0] # Unused /\ \A b \in Blocks \ {b0} : heap'[b] = heap[b]
    BY <1>10, <2>1, BlockKinds DEF ScRestrictCopy, Shapes, NoCall
  <2> HIDE DEF target, b0
  <2>5. \A x \in Tasks : Replacing(x)' <=> Replacing(x)
    BY <2>1, <2>4 DEF Replacing
  <2>6. \A x \in Tasks, k \in Kinds, b \in Blocks : Points(x, b, k)' <=> Points(x, b, k)
    <3>1. \A x \in Tasks : call'[x].at = "user" <=> call[x].at = "user" /\ x # t
      BY <2>1, <2>4
    <3> QED  BY <2>1, <2>4, <2>5, <3>1 DEF Points, Exists
  <2> QED  BY <2>3, <2>4, <2>6, OwnSame
<1>11. ASSUME NEW t \in Tasks, NEW target \in Tasks, NEW level \in Levels,
              SetProcRestriction(t, target, level)
       PROVE  Owned'
  BY <1>4, <1>11 DEF SetProcRestriction
<1>12. ASSUME NEW t \in Tasks, NEW target \in Tasks, NEW size \in 0 .. MaxLogged,
              GetProcessLog(t, target, size)
       PROVE  Owned'
  <2>1. /\ call'[t].at = "buffer" /\ call[t].at = "none"
        /\ \A u \in Tasks \ {t} : call'[u] = call[u]
    BY <1>3, <1>12 DEF GetProcessLog, Shapes
  <2> QED  BY <1>4, <1>12, <2>1 DEF GetProcessLog, fields
<1>13. ASSUME NEW t \in Tasks, GetProcessLogNoMemory(t)
       PROVE  Owned'
  <2>1. /\ call'[t].at = "none" /\ call[t].at = "buffer"
        /\ \A u \in Tasks \ {t} : call'[u] = call[u]
    BY <1>13 DEF GetProcessLogNoMemory, Shapes, NoCall
  <2> QED  BY <1>4, <1>13, <2>1 DEF GetProcessLogNoMemory, fields
<1>14. ASSUME NEW t \in Tasks, GetProcessLogCopy(t)
       PROVE  Owned'
  <2>1. PICK new \in Blocks :
            kmalloc(new) /\ call' = [call EXCEPT ![t] = [at |-> "user", to_usr |-> new]]
    BY <1>14 DEF GetProcessLogCopy
  <2>2. /\ call[t].at = "buffer" /\ call'[t].at = "user" /\ call'[t].to_usr = new
        /\ \A u \in Tasks \ {t} : call'[u] = call[u]
        /\ restrictions_list' = restrictions_list /\ log_list' = log_list /\ state' = state
    BY <1>14, <2>1 DEF GetProcessLogCopy, fields, Shapes
  <2>3. \A x \in Tasks : Replacing(x)' <=> Replacing(x)
    BY <2>2 DEF Replacing
  <2>4. \A x \in Tasks, k \in Kinds, b \in Blocks :
            Points(x, b, k)' <=> Points(x, b, k) \/ (x = t /\ k = "buffer" /\ b = new)
    BY <2>2, <2>3 DEF Points, Exists
  <2>5. /\ heap[new] = Unused /\ heap'[new] # Unused
        /\ \A b \in Blocks \ {new} : heap'[b] = heap[b]
    BY <2>1, BlockKinds DEF kmalloc, Shapes
  <2>6. "buffer" \in Kinds
    BY DEF Kinds
  <2> QED  BY <2>4, <2>5, <2>6, OwnMore
<1>15. ASSUME NEW t \in Tasks, GetProcessLogReturn(t)
       PROVE  Owned'
  <2> DEFINE b0 == call[t].to_usr
  <2>1. call[t].at = "user" /\ b0 \in Blocks /\ heap' = Freed(heap, {b0})
    BY <1>1, <1>15, CallKinds DEF GetProcessLogReturn, Buffer
  <2>2. /\ call'[t].at = "none" /\ \A u \in Tasks \ {t} : call'[u] = call[u]
        /\ restrictions_list' = restrictions_list /\ log_list' = log_list /\ state' = state
    BY <1>15 DEF GetProcessLogReturn, fields, Shapes, NoCall
  <2>3. Points(t, b0, "buffer") /\ "buffer" \in Kinds
    BY <2>1 DEF Points, Kinds
  <2>4. \A b \in Blocks : Points(t, b, "buffer") => b = b0
    BY DEF Points
  <2> HIDE DEF b0
  <2>5. \A x \in Tasks : Replacing(x)' <=> Replacing(x)
    BY <2>1, <2>2 DEF Replacing
  <2>6. \A x \in Tasks, k \in Kinds, b \in Blocks :
            Points(x, b, k)' <=> Points(x, b, k) /\ ~(x = t /\ k = "buffer")
    BY <2>1, <2>2, <2>5 DEF Points, Exists
  <2>7. \A x \in Tasks, k \in Kinds, b \in Blocks :
            Points(x, b, k) => (b = b0 <=> x = t /\ k = "buffer")
    BY <2>1, <2>3, <2>4 DEF Owned
  <2> QED  BY <2>1, <2>6, <2>7, OwnLess
<1>16. ASSUME NEW t \in Tasks, NEW num \in Syscalls, SyscallForbidden(t, num)
       PROVE  Owned'
  BY <1>4, <1>16 DEF SyscallForbidden
<1>17. ASSUME NEW p \in Tasks, NEW c \in Tasks, Fork(p, c)
       PROVE  Owned'
  <2>1. /\ ~Exists(c) /\ call' = call /\ heap' = heap
        /\ restrictions_list'[c] = Null /\ log_list'[c] = Null
        /\ \A x \in Tasks \ {c} : /\ restrictions_list'[x] = restrictions_list[x]
                                  /\ log_list'[x] = log_list[x]
                                  /\ Exists(x)' <=> Exists(x)
    BY <1>17 DEF Fork, InChild, Shapes, Exists
  <2>2. \A x \in Tasks : Replacing(x)' <=> Replacing(x)
    BY <2>1 DEF Replacing
  <2>3. \A x \in Tasks, k \in Kinds, b \in Blocks : Points(x, b, k)' <=> Points(x, b, k)
    BY <2>1, <2>2 DEF Points
  <2> QED  BY <2>1, <2>3, OwnSame
<1>18. ASSUME NEW t \in Tasks, Exit(t)
       PROVE  Owned'
  <2>1. /\ call' = call /\ heap' = heap /\ restrictions_list' = restrictions_list
        /\ log_list' = log_list /\ \A x \in Tasks : Exists(x)' <=> Exists(x)
    BY <1>18 DEF Exit, fields, Shapes, Exists, InUser, Runs
  <2>2. \A x \in Tasks, k \in Kinds, b \in Blocks : Points(x, b, k)' <=> Points(x, b, k)
    BY <2>1 DEF Points, Replacing
  <2> QED  BY <2>1, <2>2, OwnSame
<1>19. ASSUME NEW t \in Tasks, ReleaseTask(t)
       PROVE  Owned'
  <2>1. /\ call' = call /\ heap' = Freed(heap, OwnBlocks(t))
        /\ restrictions_list' = restrictions_list /\ log_list' = log_list
        /\ state[t] = "zombie" /\ ~InProgress(t)
        /\ ~Exists(t)' /\ \A x \in Tasks \ {t} : Exists(x)' <=> Exists(x)
    BY <1>19 DEF ReleaseTask, fields, Shapes, Exists, Intact
  <2>2. Exists(t) /\ call[t].at = "none"
    BY <1>1, <2>1, CallKinds DEF Places, Callers, Exists
  <2>3. ~Replacing(t)
    BY <2>1 DEF Replacing, InProgress, Restricting
  <2>4. \A x \in Tasks, k \in Kinds, b \in Blocks :
            Points(x, b, k)' <=> Points(x, b, k) /\ x # t
    BY <2>1, <2>2 DEF Points, Replacing
  <2>5. \A x \in Tasks, k \in Kinds, b \in Blocks :
            Points(x, b, k) => (b \in OwnBlocks(t) <=> x = t)
    <3>1. /\ Points(t, restrictions_list[t], "list") /\ Points(t, log_list[t], "log")
          /\ "list" \in Kinds /\ "log" \in Kinds
      BY <2>2, <2>3 DEF Points, Kinds
    <3>2. \A k \in Kinds, b \in Blocks : Points(t, b, k) => b \in OwnBlocks(t)
      BY <2>2 DEF Points, OwnBlocks
    <3>3. \A b \in Blocks : b \in OwnBlocks(t) <=> b = log_list[t] \/ b = restrictions_list[t]
      BY DEF OwnBlocks
    <3> QED  BY <3>1, <3>2, <3>3 DEF Owned
  <2> QED  BY <2>1, <2>4, <2>5, OwnLess
<1>20. CASE UNCHANGED vars
  <2>1. \A x \in Tasks, k \in Kinds, b \in Blocks : Points(x, b, k)' <=> Points(x, b, k)
    BY <1>20 DEF vars, fields, Points, Replacing, Exists
  <2> QED  BY <1>20, <2>1, OwnSame DEF vars
<1> QED
  BY <1>5, <1>6, <1>7, <1>8, <1>9, <1>10, <1>11, <1>12, <1>13, <1>14, <1>15, <1>16, <1>17,
     <1>18, <1>19, <1>20 DEF Next, ScRestrict

------------------------------------------------------------------------------
(* What blocks hold, and which list is in force: a log is a log; while no  *)
(* sc_restrict() is under way, a task has the list that the last one set,  *)
(* with its size and a log, or none at all.                                *)
Restricted(t) ==
    \/ /\ restrictions_list[t] = Null /\ policy[t] = <<>>
       /\ t \in unset \/ restrictions_list_size[t] = 0
    \/ /\ restrictions_list[t] \in Blocks /\ log_list[t] \in Blocks /\ t \notin unset
       /\ heap[restrictions_list[t]] = Scr(policy[t])
       /\ restrictions_list_size[t] = Len(policy[t])

ContentOf(t) ==
    /\ log_list[t] \in Blocks => heap[log_list[t]] = Log
    /\ InProgress(t) => policy[t] = <<>>
    /\ ~InProgress(t) => Restricted(t)

Contents == ~fault /\ \A t \in Tasks : Exists(t) => ContentOf(t)

(* A task of which nothing changes, its memory included. *)
LEMMA ContentKept ==
    ASSUME NEW t \in Tasks, Exists(t), ContentOf(t),
           restrictions_list'[t] = restrictions_list[t],
           restrictions_list_size'[t] = restrictions_list_size[t],
           log_list'[t] = log_list[t], policy'[t] = policy[t],
           t \in unset' <=> t \in unset,
           InProgress(t)' <=> InProgress(t),
           \A k \in Kinds, b \in Blocks : Points(t, b, k) => heap'[b] = heap[b]
    PROVE  ContentOf(t)'
<1>1. ~InProgress(t) => ~Replacing(t)
  BY DEF InProgress, Replacing, Restricting
<1>2. log_list[t] \in Blocks => heap'[log_list[t]] = heap[log_list[t]]
  BY DEF Points, Kinds
<1>3. ~InProgress(t) /\ restrictions_list[t] \in Blocks =>
          heap'[restrictions_list[t]] = heap[restrictions_list[t]]
  BY <1>1 DEF Points, Kinds
<1>4. ~InProgress(t) => Restricted(t)'
  <2>1. SUFFICES ASSUME ~InProgress(t) PROVE Restricted(t)'
    OBVIOUS
  <2>2. Restricted(t)
    BY <2>1 DEF ContentOf
  <2> QED  BY <1>3, <2>1, <2>2 DEF Restricted
<1> QED  BY <1>2, <1>4 DEF ContentOf

(* The same of everyone, when calls start and end on a target only.        *)
LEMMA ContentsKept ==
    ASSUME Contents, NEW W \in SUBSET Tasks,
           \A t \in Tasks \ W :
              /\ Exists(t)' => Exists(t)
              /\ restrictions_list'[t] = restrictions_list[t]
              /\ restrictions_list_size'[t] = restrictions_list_size[t]
              /\ log_list'[t] = log_list[t] /\ policy'[t] = policy[t]
              /\ t \in unset' <=> t \in unset
              /\ InProgress(t)' <=> InProgress(t)
              /\ \A k \in Kinds, b \in Blocks : Points(t, b, k) => heap'[b] = heap[b]
    PROVE  \A t \in Tasks \ W : Exists(t)' => ContentOf(t)'
<1> SUFFICES ASSUME NEW t \in Tasks \ W, Exists(t)' PROVE ContentOf(t)'
  OBVIOUS
<1>1. Exists(t) /\ ContentOf(t)
  BY DEF Contents
<1> QED  BY <1>1, ContentKept

LEMMA StepContents ==
    ASSUME Base, Owned, Contents, [Next]_vars, Intact'
    PROVE  Contents'
<1> USE NullAssumption DEF Base
<1>1. \A t \in Tasks : call[t] \in Calls
  BY DEF Shapes
<1>2. \A u \in Tasks : call[u].at \in {"list", "log", "copy"} =>
          /\ call[u].target \in Tasks /\ Restricting(u, call[u].target)
          /\ Exists(call[u].target) /\ InProgress(call[u].target)
  BY <1>1, CallKinds DEF Restricting, Places, InProgress
<1>3. \A t \in Tasks : InUser(t) =>
          Exists(t) /\ call[t].at = "none"
  BY DEF InUser, Runs, Exists
<1>4. \A t \in Tasks, k \in Kinds, b \in Blocks : Points(t, b, k) => heap[b] # Unused
  BY DEF Owned
<1>5. \A t \in Tasks : Exists(t) => ContentOf(t)
  BY DEF Contents
<1>6. \A t, u \in Tasks, k, l \in Kinds, b \in Blocks :
          Points(t, b, k) /\ Points(u, b, l) => t = u /\ k = l
  BY DEF Owned
<1>7. ~fault
  BY DEF Contents
<1>8. "list" \in Kinds /\ "log" \in Kinds /\ "buffer" \in Kinds
  BY DEF Kinds
<1>9. \A t \in Tasks : Exists(t) /\ log_list[t] \in Blocks => Points(t, log_list[t], "log")
  BY DEF Points
<1>10. ASSUME NEW t \in Tasks, NEW target \in Tasks, NEW level \in Levels, NEW list \in Lists,
              ScRestrictFree(t, target, level, list)
       PROVE  Contents'
  <2>1. /\ call[t].at = "none" /\ Exists(target) /\ ~InProgress(target)
        /\ heap' = Freed(heap, OldList(target)) /\ state' = state
        /\ UNCHANGED <<restrictions_list, restrictions_list_size, log_list, unset>>
        /\ policy'[target] = <<>> /\ \A x \in Tasks \ {target} : policy'[x] = policy[x]
    BY <1>3, <1>10 DEF ScRestrictFree, fields, Shapes, Intact
  <2>2. /\ call'[t].at = "list" /\ call'[t].target = target
        /\ \A u \in Tasks \ {t} : call'[u] = call[u]
    BY <1>10 DEF ScRestrictFree, Shapes
  <2>3. \A x \in Tasks : InProgress(x)' <=> InProgress(x) \/ x = target
    BY <2>1, <2>2 DEF InProgress, Restricting
  <2>4. \A b \in Blocks : b \in OldList(target) <=> b = restrictions_list[target]
    BY DEF OldList
  <2>5. Points(target, restrictions_list[target], "list")
    BY <2>1 DEF Points, InProgress, Replacing, Restricting
  <2>6. ~fault'
    <3>1. OldList(target) \subseteq Blocks
      BY DEF OldList, Shapes
    <3>2. ~BadFree(OldList(target))
      BY <1>4, <1>8, <2>4, <2>5, <3>1 DEF BadFree
    <3> QED  BY <1>7, <1>10, <3>2 DEF ScRestrictFree
  <2>7. \A x \in Tasks, k \in Kinds, b \in Blocks :
            Points(x, b, k) /\ ~(x = target /\ k = "list") => heap'[b] = heap[b]
    BY <1>6, <1>8, <2>1, <2>4, <2>5 DEF Freed
  <2>8. \A x \in Tasks \ {target} : Exists(x)' => ContentOf(x)'
    BY <2>1, <2>3, <2>7, ContentsKept DEF Exists
  <2>9. ContentOf(target)'
    <3>1. log_list[target] \in Blocks => heap'[log_list[target]] = Log
      BY <1>5, <1>8, <1>9, <2>1, <2>7 DEF ContentOf
    <3> QED  BY <2>1, <2>3, <3>1 DEF ContentOf
  <2> QED  BY <2>1, <2>6, <2>8, <2>9 DEF Contents
<1>11. ASSUME NEW t \in Tasks, ScRestrictList(t)
       PROVE  Contents'
  <2>0. PICK target \in Tasks : target = call[t].target
    BY <1>2, <1>11 DEF ScRestrictList
  <2> USE <2>0
  <2>1. /\ call[t].at = "list" /\ target \in Tasks /\ call[t] \in Changing
        /\ Exists(target) /\ InProgress(target)
    BY <1>1, <1>2, <1>11, CallKinds DEF ScRestrictList
  <2>2. PICK new \in Blocks : /\ kmalloc(new)
                              /\ restrictions_list' = [restrictions_list EXCEPT ![target] = new]
    BY <1>11 DEF ScRestrictList
  <2>3. /\ call'[t].at \in {"log", "copy"} /\ call'[t].target = target
        /\ \A u \in Tasks \ {t} : call'[u] = call[u]
        /\ \A x \in Tasks \ {target} : restrictions_list'[x] = restrictions_list[x]
        /\ UNCHANGED <<restrictions_list_size, log_list, state, policy, unset>>
    BY <1>11, <2>1, <2>2 DEF ScRestrictList, Shapes, Changing
  <2>4. \A x \in Tasks : InProgress(x)' <=> InProgress(x)
    BY <2>1, <2>3 DEF InProgress, Restricting
  <2>5. heap[new] = Unused /\ \A b \in Blocks \ {new} : heap'[b] = heap[b]
    BY <2>2 DEF kmalloc, Shapes
  <2>6. \A x \in Tasks, k \in Kinds, b \in Blocks : Points(x, b, k) => heap'[b] = heap[b]
    BY <1>4, <2>5
  <2>7. \A x \in Tasks \ {target} : Exists(x)' => ContentOf(x)'
    BY <2>1, <2>3, <2>4, <2>6, ContentsKept DEF Exists
  <2>8. ContentOf(target)'
    <3>1. log_list[target] \in Blocks => heap'[log_list[target]] = Log
      BY <1>5, <1>8, <1>9, <2>1, <2>6 DEF ContentOf
    <3> QED  BY <1>5, <2>1, <2>3, <2>4, <3>1 DEF ContentOf
  <2>9. ~fault'
    BY <1>7, <1>11 DEF ScRestrictList
  <2> QED  BY <2>3, <2>7, <2>8, <2>9 DEF Contents, Exists
<1>12. ASSUME NEW t \in Tasks, ScRestrictNoList(t)
       PROVE  Contents'
  <2>0. PICK target \in Tasks : target = call[t].target
    BY <1>2, <1>12 DEF ScRestrictNoList
  <2> USE <2>0
  <2>1. /\ call[t].at = "list" /\ target \in Tasks /\ Restricting(t, target)
        /\ Exists(target) /\ InProgress(target)
    BY <1>2, <1>12 DEF ScRestrictNoList
  <2>2. /\ call'[t].at = "none" /\ \A u \in Tasks \ {t} : call'[u] = call[u]
        /\ restrictions_list'[target] = Null
        /\ \A x \in Tasks \ {target} : restrictions_list'[x] = restrictions_list[x]
        /\ UNCHANGED <<restrictions_list_size, log_list, state, policy, heap>>
        /\ unset' = unset \cup {target}
    BY <1>12, <2>1 DEF ScRestrictNoList, Shapes, NoCall
  <2>3. \A x \in Tasks \ {target} : InProgress(x)' <=> InProgress(x)
    BY <2>1, <2>2 DEF InProgress, Restricting
  <2>4. ~InProgress(target)'
    BY <2>1, <2>2 DEF InProgress, Restricting, Places
  <2>5. \A x \in Tasks \ {target} : Exists(x)' => ContentOf(x)'
    BY <2>1, <2>2, <2>3, ContentsKept DEF Exists
  <2>6. ContentOf(target)'
    BY <1>5, <2>1, <2>2, <2>4 DEF ContentOf, Restricted
  <2>7. ~fault'
    BY <1>7, <1>12 DEF ScRestrictNoList
  <2> QED  BY <2>2, <2>5, <2>6, <2>7 DEF Contents, Exists
<1>13. ASSUME NEW t \in Tasks, ScRestrictLog(t)
       PROVE  Contents'
  <2>0. PICK target \in Tasks : target = call[t].target
    BY <1>2, <1>13 DEF ScRestrictLog
  <2> USE <2>0
  <2>1. /\ call[t].at = "log" /\ target \in Tasks /\ call[t] \in Changing
        /\ Exists(target) /\ InProgress(target)
    BY <1>1, <1>2, <1>13, CallKinds DEF ScRestrictLog
  <2>2. PICK new \in Blocks : /\ heap[new] = Unused
                              /\ heap' = [heap EXCEPT ![new] = Log]
                              /\ log_list' = [log_list EXCEPT ![target] = new]
    BY <1>13 DEF ScRestrictLog
  <2>3. /\ call'[t].at = "copy" /\ call'[t].target = target
        /\ \A u \in Tasks \ {t} : call'[u] = call[u]
        /\ log_list'[target] = new
        /\ \A x \in Tasks \ {target} : log_list'[x] = log_list[x]
        /\ UNCHANGED <<restrictions_list, restrictions_list_size, state, policy, unset>>
        /\ heap'[new] = Log /\ \A b \in Blocks \ {new} : heap'[b] = heap[b]
    BY <1>13, <2>1, <2>2 DEF ScRestrictLog, Shapes, Changing
  <2>4. \A x \in Tasks : InProgress(x)' <=> InProgress(x)
    BY <2>1, <2>3 DEF InProgress, Restricting
  <2>5. \A x \in Tasks, k \in Kinds, b \in Blocks : Points(x, b, k) => heap'[b] = heap[b]
    BY <1>4, <2>2, <2>3
  <2>6. \A x \in Tasks \ {target} : Exists(x)' => ContentOf(x)'
    BY <2>1, <2>3, <2>4, <2>5, ContentsKept DEF Exists
  <2>7. ContentOf(target)'
    BY <1>5, <2>1, <2>3, <2>4 DEF ContentOf
  <2>8. ~fault'
    BY <1>7, <1>13 DEF ScRestrictLog
  <2> QED  BY <2>3, <2>6, <2>7, <2>8 DEF Contents, Exists
<1>14. ASSUME NEW t \in Tasks, ScRestrictNoLog(t)
       PROVE  Contents'
  BY <1>14 DEF ScRestrictNoLog, Intact
<1>15. ASSUME NEW t \in Tasks, ScRestrictCopy(t)
       PROVE  Contents'
  <2>0. PICK target \in Tasks, b0 \in Blocks, list \in Lists :
            target = call[t].target /\ b0 = restrictions_list[target] /\ list = call[t].list
    BY <1>1, <1>2, <1>15, CallKinds DEF ScRestrictCopy, Stages
  <2> USE <2>0
  <2>1. /\ call[t].at = "copy" /\ target \in Tasks /\ Restricting(t, target)
        /\ Exists(target) /\ b0 \in Blocks /\ log_list[target] \in Blocks
    BY <1>2, <1>15 DEF ScRestrictCopy, Stages
  <2>2. Points(target, b0, "list")
    BY <2>1 DEF Points, Replacing, Restricting, Places
  <2>3. /\ call'[t].at = "none" /\ \A u \in Tasks \ {t} : call'[u] = call[u]
        /\ UNCHANGED <<restrictions_list, log_list, state>>
        /\ heap'[b0] = Scr(list) /\ \A b \in Blocks \ {b0} : heap'[b] = heap[b]
        /\ unset' = unset \ {target}
    BY <1>15, <2>1 DEF ScRestrictCopy, Shapes, NoCall
  <2>4. /\ restrictions_list_size'[target] = Len(list) /\ policy'[target] = list
        /\ \A x \in Tasks \ {target} : /\ restrictions_list_size'[x] = restrictions_list_size[x]
                                       /\ policy'[x] = policy[x]
    BY <1>15, <2>1 DEF ScRestrictCopy, NewSize, Shapes
  <2>10. ~fault'
    BY <1>4, <1>7, <1>8, <1>15, <2>1, <2>2 DEF ScRestrictCopy
  <2>5. \A x \in Tasks \ {target} : InProgress(x)' <=> InProgress(x)
    BY <2>1, <2>3 DEF InProgress, Restricting
  <2>6. ~InProgress(target)'
    BY <2>1, <2>3 DEF InProgress, Restricting, Places
  <2>7. \A x \in Tasks, k \in Kinds, b \in Blocks :
            Points(x, b, k) /\ ~(x = target /\ k = "list") => heap'[b] = heap[b]
    BY <1>6, <1>8, <2>1, <2>2, <2>3
  <2>8. \A x \in Tasks \ {target} : Exists(x)' => ContentOf(x)'
    <3>1. \A x \in Tasks \ {target} :
             /\ Exists(x)' => Exists(x)
             /\ restrictions_list'[x] = restrictions_list[x]
             /\ restrictions_list_size'[x] = restrictions_list_size[x]
             /\ log_list'[x] = log_list[x] /\ policy'[x] = policy[x]
             /\ x \in unset' <=> x \in unset
      BY <2>3, <2>4 DEF Exists
    <3> SUFFICES ASSUME NEW x \in Tasks \ {target}, Exists(x)' PROVE ContentOf(x)'
      OBVIOUS
    <3>2. Exists(x) /\ ContentOf(x)
      BY <1>5, <3>1
    <3>3. \A k \in Kinds, b \in Blocks : Points(x, b, k) => heap'[b] = heap[b]
      BY <2>7
    <3> QED  BY <2>5, <3>1, <3>2, <3>3, ContentKept
  <2>9. ContentOf(target)'
    <3>1. heap'[log_list[target]] = Log
      BY <1>5, <1>8, <1>9, <2>1, <2>7 DEF ContentOf
    <3>2. Restricted(target)'
      BY <2>1, <2>3, <2>4 DEF Restricted
    <3> QED  BY <2>3, <2>6, <3>1, <3>2 DEF ContentOf
  <2> QED  BY <2>3, <2>8, <2>9, <2>10 DEF Contents
<1>16. ASSUME NEW t \in Tasks, state' = state, call' = call, heap' = heap, ~fault',
              UNCHANGED <<restrictions_list, restrictions_list_size, log_list, policy, unset>>
       PROVE  Contents'
  BY <1>16 DEF Contents, ContentOf, Restricted, InProgress, Restricting, Exists
<1>17. ASSUME NEW t \in Tasks, NEW target \in Tasks, NEW level \in Levels,
              SetProcRestriction(t, target, level)
       PROVE  Contents'
  BY <1>7, <1>16, <1>17 DEF SetProcRestriction
<1>18. ASSUME NEW t \in Tasks, state' = state, ~fault',
              UNCHANGED <<restrictions_list, restrictions_list_size, log_list, policy, unset>>,
              {call[t].at, call'[t].at} \cap {"list", "log", "copy"} = {},
              \A u \in Tasks \ {t} : call'[u] = call[u],
              \A x \in Tasks, k \in Kinds, b \in Blocks :
                  Points(x, b, k) /\ ~(x = t /\ k = "buffer") => heap'[b] = heap[b]
       PROVE  Contents'
  <2>1. \A x \in Tasks : InProgress(x)' <=> InProgress(x)
    BY <1>18 DEF InProgress, Restricting
  <2>2. \A x \in Tasks : Exists(x)' <=> Exists(x)
    BY <1>18 DEF Exists
  <2>3. \A x \in Tasks : ~InProgress(x) => ~Replacing(x)
    BY DEF InProgress, Replacing, Restricting
  <2>4. \A x \in Tasks : Exists(x) /\ log_list[x] \in Blocks =>
            heap'[log_list[x]] = heap[log_list[x]]
    BY <1>8, <1>9, <1>18
  <2>5. \A x \in Tasks : Exists(x) /\ ~InProgress(x) /\ restrictions_list[x] \in Blocks =>
            heap'[restrictions_list[x]] = heap[restrictions_list[x]]
    BY <1>8, <1>18, <2>3 DEF Points
  <2>6. \A x \in Tasks : Exists(x) /\ ~InProgress(x) => Restricted(x)'
    <3> SUFFICES ASSUME NEW x \in Tasks, Exists(x), ~InProgress(x) PROVE Restricted(x)'
      OBVIOUS
    <3>1. Restricted(x)
      BY <1>5 DEF ContentOf
    <3> QED  BY <1>18, <2>5, <3>1 DEF Restricted
  <2>7. \A x \in Tasks : Exists(x) => ContentOf(x)'
    BY <1>5, <1>18, <2>1, <2>4, <2>6 DEF ContentOf
  <2> QED  BY <1>18, <2>2, <2>7 DEF Contents
<1>19. ASSUME NEW t \in Tasks, NEW target \in Tasks, NEW size \in 0 .. MaxLogged,
              GetProcessLog(t, target, size)
       PROVE  Contents'
  <2>1. /\ call'[t].at = "buffer" /\ call[t].at = "none"
        /\ \A u \in Tasks \ {t} : call'[u] = call[u]
    BY <1>3, <1>19 DEF GetProcessLog, Shapes
  <2> QED  BY <1>7, <1>18, <1>19, <2>1 DEF GetProcessLog, fields
<1>20. ASSUME NEW t \in Tasks, GetProcessLogNoMemory(t)
       PROVE  Contents'
  <2>1. /\ call'[t].at = "none" /\ call[t].at = "buffer"
        /\ \A u \in Tasks \ {t} : call'[u] = call[u]
    BY <1>20 DEF GetProcessLogNoMemory, Shapes, NoCall
  <2> QED  BY <1>7, <1>18, <1>20, <2>1 DEF GetProcessLogNoMemory, fields
<1>21. ASSUME NEW t \in Tasks, GetProcessLogCopy(t)
       PROVE  Contents'
  <2> DEFINE curr == call[t].target
  <2>1. PICK new \in Blocks :
            kmalloc(new) /\ call' = [call EXCEPT ![t] = [at |-> "user", to_usr |-> new]]
    BY <1>21 DEF GetProcessLogCopy
  <2>2. /\ call[t].at = "buffer" /\ call'[t].at = "user"
        /\ \A u \in Tasks \ {t} : call'[u] = call[u]
        /\ UNCHANGED <<restrictions_list, restrictions_list_size, log_list, policy, unset, state>>
    BY <1>21, <2>1 DEF GetProcessLogCopy, fields, Shapes
  <2>3. heap[new] = Unused /\ \A b \in Blocks \ {new} : heap'[b] = heap[b]
    BY <2>1 DEF kmalloc, Shapes
  <2>4. /\ curr \in Tasks /\ Exists(curr) /\ call[t].size \in Nat
        /\ call[t].size <= log_list_size[curr] /\ log_list_size[curr] \in Nat
    BY <1>1, <2>2, CallKinds DEF Places, Shapes
  <2>5. call[t].size > 0 => log_list[curr] \in Blocks /\ heap[log_list[curr]] = Log
    <3>1. call[t].size > 0 => log_list_size[curr] > 0
      BY <2>4
    <3> QED  BY <1>5, <2>4, <3>1 DEF Stages, ContentOf
  <2>6. ~fault'
    BY <1>7, <1>21, <2>4, <2>5 DEF GetProcessLogCopy
  <2>7. \A x \in Tasks, k \in Kinds, b \in Blocks : Points(x, b, k) => heap'[b] = heap[b]
    BY <1>4, <2>3
  <2> QED  BY <1>18, <2>2, <2>6, <2>7
<1>22. ASSUME NEW t \in Tasks, GetProcessLogReturn(t)
       PROVE  Contents'
  <2> DEFINE b0 == call[t].to_usr
  <2>1. call[t].at = "user" /\ b0 \in Blocks /\ heap' = Freed(heap, {b0})
    BY <1>1, <1>22, CallKinds DEF GetProcessLogReturn, Buffer
  <2>2. /\ call'[t].at = "none" /\ \A u \in Tasks \ {t} : call'[u] = call[u]
        /\ UNCHANGED <<restrictions_list, restrictions_list_size, log_list, policy, unset, state>>
    BY <1>22 DEF GetProcessLogReturn, fields, Shapes, NoCall, Buffer
  <2>3. Points(t, b0, "buffer")
    BY <2>1 DEF Points
  <2>4. ~fault'
    <3>1. ~BadFree({b0})
      BY <1>4, <1>8, <2>1, <2>3 DEF BadFree
    <3> QED  BY <1>7, <1>22, <3>1 DEF GetProcessLogReturn, Buffer
  <2> HIDE DEF b0
  <2>5. \A x \in Tasks, k \in Kinds, b \in Blocks :
            Points(x, b, k) /\ ~(x = t /\ k = "buffer") => heap'[b] = heap[b]
    BY <1>6, <1>8, <2>1, <2>3 DEF Freed
  <2> QED  BY <1>18, <2>1, <2>2, <2>4, <2>5
<1>23. ASSUME NEW t \in Tasks, NEW num \in Syscalls, SyscallForbidden(t, num)
       PROVE  Contents'
  <2>1. log_list[t] \in Blocks /\ Exists(t)
    BY <1>3, <1>23 DEF SyscallForbidden, Shapes
  <2>2. heap[log_list[t]] = Log
    BY <1>5, <2>1 DEF ContentOf
  <2> QED  BY <1>7, <1>16, <1>23, <2>2 DEF SyscallForbidden
<1>24. ASSUME NEW p \in Tasks, NEW c \in Tasks, Fork(p, c)
       PROVE  Contents'
  <2>1. /\ ~Exists(c) /\ call' = call /\ heap' = heap
        /\ restrictions_list'[c] = Null /\ log_list'[c] = Null
        /\ restrictions_list_size'[c] = 0 /\ policy'[c] = <<>>
        /\ \A x \in Tasks \ {c} : /\ restrictions_list'[x] = restrictions_list[x]
                                  /\ restrictions_list_size'[x] = restrictions_list_size[x]
                                  /\ policy'[x] = policy[x]
                                  /\ log_list'[x] = log_list[x]
                                  /\ Exists(x)' <=> Exists(x)
        /\ unset' = unset \ {c}
    BY <1>24 DEF Fork, InChild, Shapes, Exists
  <2>2. \A x \in Tasks : InProgress(x)' <=> InProgress(x)
    BY <2>1 DEF InProgress, Restricting
  <2>3. \A x \in Tasks \ {c} : Exists(x)' => ContentOf(x)'
    BY <2>1, <2>2, ContentsKept
  <2>4. ContentOf(c)'
    BY <2>1 DEF ContentOf, Restricted
  <2>5. ~fault'
    BY <1>7, <1>24 DEF Fork
  <2> QED  BY <2>1, <2>3, <2>4, <2>5 DEF Contents
<1>25. ASSUME NEW t \in Tasks, Exit(t)
       PROVE  Contents'
  <2>1. /\ UNCHANGED <<call, heap, restrictions_list, restrictions_list_size,
                       log_list, policy, unset>>
        /\ \A x \in Tasks : Exists(x)' <=> Exists(x)
    BY <1>25 DEF Exit, fields, Shapes, Exists, InUser, Runs
  <2>2. ~fault'
    BY <1>7, <1>25 DEF Exit
  <2> QED  BY <2>1, <2>2 DEF Contents, ContentOf, Restricted, InProgress, Restricting
<1>26. ASSUME NEW t \in Tasks, ReleaseTask(t)
       PROVE  Contents'
  <2>1. /\ UNCHANGED <<call, restrictions_list, restrictions_list_size, log_list, policy, unset>>
        /\ heap' = Freed(heap, OwnBlocks(t))
        /\ state[t] = "zombie" /\ ~InProgress(t)
        /\ ~Exists(t)' /\ \A x \in Tasks \ {t} : Exists(x)' <=> Exists(x)
    BY <1>26 DEF ReleaseTask, fields, Shapes, Exists, Intact
  <2>2. Exists(t) /\ call[t].at = "none"
    BY <1>1, <2>1, CallKinds DEF Places, Callers, Exists
  <2>3. ~Replacing(t)
    BY <2>1 DEF Replacing, InProgress, Restricting
  <2>4. /\ Points(t, restrictions_list[t], "list") /\ Points(t, log_list[t], "log")
        /\ OwnBlocks(t) \subseteq Blocks
        /\ \A b \in Blocks : b \in OwnBlocks(t) <=> b = log_list[t] \/ b = restrictions_list[t]
    BY <2>2, <2>3 DEF Points, OwnBlocks, Shapes
  <2>5. ~fault'
    <3>1. ~BadFree(OwnBlocks(t))
      BY <1>4, <1>8, <2>4 DEF BadFree
    <3> QED  BY <1>7, <1>26, <3>1 DEF ReleaseTask
  <2>6. \A x \in Tasks \ {t}, k \in Kinds, b \in Blocks : Points(x, b, k) => heap'[b] = heap[b]
    BY <1>6, <1>8, <2>1, <2>4 DEF Freed
  <2>7. \A x \in Tasks : InProgress(x)' <=> InProgress(x)
    BY <2>1 DEF InProgress, Restricting
  <2>8. \A x \in Tasks \ {t} : Exists(x)' => ContentOf(x)'
    BY <2>1, <2>6, <2>7, ContentsKept
  <2> QED  BY <2>1, <2>5, <2>8 DEF Contents
<1>27. CASE UNCHANGED vars
  BY <1>27 DEF vars, fields, Contents, ContentOf, Restricted, InProgress, Restricting, Exists
<1> QED
  BY <1>10, <1>11, <1>12, <1>13, <1>14, <1>15, <1>17, <1>19, <1>20, <1>21, <1>22, <1>23,
     <1>24, <1>25, <1>26, <1>27 DEF Next, ScRestrict

------------------------------------------------------------------------------
LEMMA StepCallers ==
    ASSUME Shapes, Callers, [Next]_vars
    PROVE  Callers'
<1> USE DEF Callers
<1>1. ASSUME NEW t \in Tasks, state' = state, state[t] = "running",
             \A u \in Tasks \ {t} : call'[u] = call[u]
      PROVE  Callers'
  BY <1>1
<1>2. ASSUME NEW t \in Tasks,
             \/ ScRestrict(t)
             \/ \E target \in Tasks, size \in 0 .. MaxLogged : GetProcessLog(t, target, size)
             \/ GetProcessLogNoMemory(t) \/ GetProcessLogCopy(t) \/ GetProcessLogReturn(t)
      PROVE  Callers'
  <2>1. state' = state /\ state[t] = "running" /\ \A u \in Tasks \ {t} : call'[u] = call[u]
    BY <1>2 DEF ScRestrict, ScRestrictFree, ScRestrictList, ScRestrictNoList, ScRestrictLog,
       ScRestrictNoLog, ScRestrictCopy, GetProcessLog, GetProcessLogNoMemory,
       GetProcessLogCopy, GetProcessLogReturn, InUser, Runs, Shapes
  <2> QED  BY <1>1, <2>1
<1>3. ASSUME NEW t \in Tasks,
             \/ \E target \in Tasks, level \in Levels : SetProcRestriction(t, target, level)
             \/ \E num \in Syscalls : SyscallForbidden(t, num)
             \/ \E c \in Tasks : Fork(t, c)
             \/ Exit(t) \/ ReleaseTask(t)
      PROVE  Callers'
  BY <1>3 DEF SetProcRestriction, SyscallForbidden, Fork, Exit, ReleaseTask, InUser, Shapes
<1>4. CASE UNCHANGED vars
  BY <1>4 DEF vars
<1> QED  BY <1>2, <1>3, <1>4 DEF Next

(* What memory looks like until a log cannot be allocated or calls meet.   *)
Sound == Intact => Base /\ Owned /\ Contents

LEMMA IntactBefore == [Next]_vars /\ Intact' => Intact
<1> SUFFICES ASSUME [Next]_vars, dangling \/ crossed PROVE dangling' \/ crossed'
  BY DEF Intact
<1>1. ASSUME NEW t \in Tasks, ScRestrict(t) PROVE dangling' \/ crossed'
  BY <1>1 DEF ScRestrict, ScRestrictFree, ScRestrictList, ScRestrictNoList, ScRestrictLog,
              ScRestrictNoLog, ScRestrictCopy
<1>2. CASE UNCHANGED vars
  BY <1>2 DEF vars
<1>3. ASSUME NEW t \in Tasks,
             \/ \E target \in Tasks, level \in Levels : SetProcRestriction(t, target, level)
             \/ \E target \in Tasks, size \in 0 .. MaxLogged : GetProcessLog(t, target, size)
             \/ GetProcessLogNoMemory(t) \/ GetProcessLogCopy(t) \/ GetProcessLogReturn(t)
      PROVE  dangling' \/ crossed'
  BY <1>3 DEF SetProcRestriction, GetProcessLog, GetProcessLogNoMemory, GetProcessLogCopy,
              GetProcessLogReturn
<1>4. ASSUME NEW t \in Tasks,
             \/ \E num \in Syscalls : SyscallForbidden(t, num)
             \/ \E c \in Tasks : Fork(t, c)
             \/ Exit(t) \/ ReleaseTask(t)
      PROVE  dangling' \/ crossed'
  BY <1>4 DEF SyscallForbidden, Fork, Exit, ReleaseTask
<1> QED  BY <1>1, <1>2, <1>3, <1>4 DEF Next

LEMMA InitSound == Init => Sound
<1> SUFFICES ASSUME Init PROVE Base /\ Owned /\ Contents
  BY DEF Sound
<1> USE NullAssumption
<1>1. /\ \A t \in Tasks : /\ restrictions_list[t] = Null /\ log_list[t] = Null
                          /\ restrictions_list_size[t] = 0 /\ policy[t] = <<>>
                          /\ call[t].at = "none"
      /\ \A b \in Blocks : heap[b] = Unused
  BY DEF Init, NoCall
<1>2. \A t \in Tasks, k \in Kinds, b \in Blocks : ~Points(t, b, k)
  BY <1>1 DEF Points
<1>3. Owned
  BY <1>1, <1>2 DEF Owned
<1>4. ~fault
  BY DEF Init
<1>5. Contents
  BY <1>1, <1>4 DEF Contents, ContentOf, Restricted
<1> QED  BY <1>3, <1>5, InitBase

LEMMA Invariant == Spec => [](Shapes /\ Callers /\ Sound)
<1>1. Init => Shapes /\ Callers /\ Sound
  BY InitBase, InitSound DEF Base, Places
<1>2. Shapes /\ Callers /\ Sound /\ [Next]_vars => Shapes' /\ Callers' /\ Sound'
  <2> SUFFICES ASSUME Shapes, Callers, Sound, [Next]_vars
               PROVE  Shapes' /\ Callers' /\ Sound'
    OBVIOUS
  <2>1. ASSUME Intact' PROVE Base' /\ Owned' /\ Contents'
    <3>1. Base /\ Owned /\ Contents /\ ~crossed'
      BY <2>1, IntactBefore DEF Sound, Intact
    <3> QED  BY <2>1, <3>1, StepBase, StepOwned, StepContents
  <2> QED  BY <2>1, StepShapes, StepCallers DEF Sound
<1> QED  BY <1>1, <1>2, PTL DEF Spec

LEMMA ShapesAreTypes == Shapes /\ Callers => TypeOK
<1> SUFFICES ASSUME Shapes, Callers PROVE TypeOK
  OBVIOUS
<1>1. \A t \in Tasks : call[t].at \in {"none", "list", "log", "copy", "buffer", "user"}
  BY CallKinds DEF Shapes
<1> QED  BY <1>1 DEF Callers, Shapes, TypeOK

LEMMA PoliciesAreLists == \A l \in Lists \cup {<<>>} : l \in Seq(Restrictions)
<1>1. <<>> \in Seq(Restrictions)
  OBVIOUS
<1> QED  BY <1>1, ListsAssumption

LEMMA ChecksAreReadable ==
    ASSUME Base, Contents, NEW t \in Tasks \ unset, ~InOthersCall(t)
    PROVE  ~SyscallFault(t)
<1> SUFFICES ASSUME InUser(t), restrictions_list_size[t] >= 1
             PROVE  ListReadable(t)
  BY DEF SyscallFault
<1>1. Restricted(t)
  <2>1. Exists(t) /\ ~InProgress(t)
    BY DEF InUser, Runs, InOthersCall, Restricting, Exists, InProgress
  <2> QED  BY <2>1 DEF Contents, ContentOf
<1>2. policy[t] \in Seq(Restrictions)
  BY PoliciesAreLists DEF Base, Shapes
<1>3. Len(policy[t]) \in Nat /\ restrictions_list_size[t] \in Nat
  BY <1>2 DEF Base, Shapes
<1>4. /\ restrictions_list[t] \in Blocks
      /\ heap[restrictions_list[t]] = Scr(policy[t])
      /\ restrictions_list_size[t] = Len(policy[t])
  BY <1>1 DEF Restricted
<1> QED  BY <1>3, <1>4, BlockKinds, NullAssumption DEF ListReadable

LEMMA PointersPoint ==
    ASSUME Base, NEW b \in Blocks
    PROVE  /\ \A p \in Pointers : p[2] = b =>
                  \E t \in Tasks, k \in Kinds : p = <<t, b, k>> /\ Points(t, b, k)
           /\ \A t \in Tasks, k \in Kinds : Points(t, b, k) => <<t, b, k>> \in Pointers
<1>1. ASSUME NEW p \in Pointers, p[2] = b
      PROVE  \E t \in Tasks, k \in Kinds : p = <<t, b, k>> /\ Points(t, b, k)
  <2>1. CASE p \in {<<t, restrictions_list[t], "list">> : t \in {u \in Live : ~Replacing(u)}}
    BY <1>1, <2>1 DEF Live, Points, Kinds
  <2>2. CASE p \in {<<t, log_list[t], "log">> : t \in Live}
    BY <1>1, <2>2 DEF Live, Points, Kinds
  <2>3. CASE p \in {<<t, call[t].to_usr, "buffer">> : t \in {u \in Live : call[u].at = "user"}}
    BY <1>1, <2>3 DEF Live, Points, Kinds
  <2> QED  BY <1>1, <2>1, <2>2, <2>3 DEF Pointers
<1>2. ASSUME NEW t \in Tasks, NEW k \in Kinds, Points(t, b, k)
      PROVE  <<t, b, k>> \in Pointers
  <2>1. CASE k = "list"
    BY <1>2, <2>1 DEF Points, Pointers, Live
  <2>2. CASE k = "log"
    BY <1>2, <2>2 DEF Points, Pointers, Live
  <2>3. CASE k = "buffer"
    BY <1>2, <2>3 DEF Points, Pointers, Live, Base, Places, Callers, Exists
  <2> QED  BY <2>1, <2>2, <2>3 DEF Kinds
<1> QED  BY <1>1, <1>2

LEMMA PointersCounted ==
    ASSUME Base, Owned, NEW b \in Blocks
    PROVE  Cardinality({p \in Pointers : p[2] = b}) = IF heap[b] = Unused THEN 0 ELSE 1
<1> DEFINE P == {p \in Pointers : p[2] = b}
<1>1. CASE heap[b] = Unused
  <2>1. P = {}
    BY <1>1, PointersPoint DEF Owned
  <2> QED  BY <1>1, <2>1, FS_EmptySet
<1>2. CASE heap[b] # Unused
  <2>1. PICK t \in Tasks, k \in Kinds : Points(t, b, k)
    BY <1>2 DEF Owned
  <2>2. <<t, b, k>> \in P
    BY <2>1, PointersPoint
  <2>3. ASSUME NEW p \in P PROVE p = <<t, b, k>>
    BY <2>1, <2>3, PointersPoint DEF Owned
  <2>4. P = {<<t, b, k>>}
    BY <2>2, <2>3
  <2> QED  BY <1>2, <2>4, FS_Singleton
<1> QED  BY <1>1, <1>2

(* Every list, log and buffer has one owner, and is freed once and used by *)
(* its owner only, over forks, overrides, exits, releases and calls that   *)
(* fail or sleep (hw1_syscalls.c, fork.c:623-627, exit.c:36-42), until     *)
(* sc_restrict() gets no log, or meets another call of it on its target or *)
(* the release of the target.                                              *)
THEOREM MemoryHasOneOwner == Spec => []OneOwner
<1>1. Sound => MemorySafe
  <2> SUFFICES ASSUME Base, Contents
               PROVE  ~fault /\ \A t \in Tasks \ unset : SyscallFault(t) => InOthersCall(t)
    BY DEF MemorySafe, Sound
  <2> QED  BY ChecksAreReadable DEF Contents
<1>2. Shapes /\ Callers /\ Sound => OneOwner
  BY <1>1, ShapesAreTypes, PointersCounted DEF Sound, OneOwner
<1> QED  BY <1>2, Invariant, PTL

LEMMA ForbiddenByPolicy ==
    ASSUME Base, Contents, NEW t \in Live \ unset, NEW num, ~InProgress(t)
    PROVE  (restrictions_list_size[t] >= 1 /\ Forbidden(t, num)) <=> PolicyForbids(t, num)
<1>1. t \in Tasks /\ Restricted(t)
  BY DEF Live, Contents, ContentOf
<1>2. policy[t] \in Seq(Restrictions)
  BY <1>1, PoliciesAreLists DEF Base, Shapes
<1>3. Len(policy[t]) \in Nat
  BY <1>2
<1>4. CASE restrictions_list_size[t] = 0 /\ policy[t] = <<>>
  <2>1. Len(policy[t]) = 0
    BY <1>4
  <2>2. ~PolicyForbids(t, num)
    BY <2>1 DEF PolicyForbids
  <2> QED  BY <1>4, <2>2
<1>5. CASE /\ restrictions_list[t] \in Blocks /\ log_list[t] \in Blocks
           /\ heap[restrictions_list[t]] = Scr(policy[t])
           /\ restrictions_list_size[t] = Len(policy[t])
  <2>1. \A k : Entry(t, k) = policy[t][k]
    BY <1>5, BlockKinds DEF Entry
  <2>2. log_list[t] # Null
    BY <1>5, NullAssumption
  <2>3. Forbidden(t, num) <=> PolicyForbids(t, num)
    BY <1>5, <2>1, <2>2 DEF Forbidden, PolicyForbids
  <2>4. PolicyForbids(t, num) => Len(policy[t]) >= 1
    BY <1>3 DEF PolicyForbids
  <2> QED  BY <1>5, <2>3, <2>4
<1> QED  BY <1>1, <1>4, <1>5 DEF Restricted

(* What the check forbids a task is what the list of the last successful   *)
(* sc_restrict() and its level say: no trace of an overridden list, of a   *)
(* parent's or of an earlier task's (restrict.c:9-28).                     *)
THEOREM PolicyIsEnforced == Spec => []EnforcesPolicy
<1>1. Sound => EnforcesPolicy
  BY ForbiddenByPolicy DEF Sound, EnforcesPolicy
<1> QED  BY <1>1, Invariant, PTL
------------------------------------------------------------------------------
(* What the log of a process holds, for every REST_LIST_SIZE and every     *)
(* number of violations: the ring of ProcessLog holds the last violations, *)
(* and sys_get_process_log() answers with the latest records in the domain *)
(* where its index arithmetic is right.                                    *)

(* Every number is a multiple of the capacity plus its slot. *)
LEMMA SlotDivision ==
    ASSUME NEW v \in Nat
    PROVE  /\ SlotOf(v) \in Slots
           /\ \E q \in Nat : v = q * REST_LIST_SIZE + SlotOf(v)
<1> USE CapacityAssumption DEF SlotOf, Slots
<1>1. SlotOf(v) \in Slots
  OBVIOUS
<1>2. v = (v \div REST_LIST_SIZE) * REST_LIST_SIZE + (v % REST_LIST_SIZE)
      /\ v \div REST_LIST_SIZE \in Nat
  OBVIOUS
<1>3. QED
  BY <1>1, <1>2

LEMMA SlotOfSum ==
    ASSUME NEW q \in Nat, NEW s \in Slots
    PROVE  SlotOf(q * REST_LIST_SIZE + s) = s
<1> USE CapacityAssumption DEF Slots
<1> DEFINE v == q * REST_LIST_SIZE + s
<1>1. v \in Nat /\ s \in Nat /\ s < REST_LIST_SIZE
  OBVIOUS
<1>2. PICK p \in Nat : v = p * REST_LIST_SIZE + SlotOf(v)
  BY <1>1, SlotDivision
<1>3. SlotOf(v) \in Nat /\ SlotOf(v) < REST_LIST_SIZE
  BY <1>1, SlotDivision
<1>4. p = q
  <2>1. ~(p > q)
    BY <1>1, <1>2, <1>3
  <2>2. ~(p < q)
    BY <1>1, <1>2, <1>3
  <2>3. QED
    BY <2>1, <2>2
<1>5. QED
  BY <1>1, <1>2, <1>3, <1>4

(* Two violations less than a lap apart have different slots. *)
LEMMA SlotsDiffer ==
    ASSUME NEW v \in Nat, NEW w \in Nat, v < w, w < v + REST_LIST_SIZE
    PROVE  SlotOf(v) # SlotOf(w)
<1> USE CapacityAssumption
<1>1. PICK p \in Nat : v = p * REST_LIST_SIZE + SlotOf(v)
  BY SlotDivision
<1>2. PICK q \in Nat : w = q * REST_LIST_SIZE + SlotOf(w)
  BY SlotDivision
<1>3. SlotOf(v) \in Nat /\ SlotOf(w) \in Nat
  BY SlotDivision DEF Slots
<1>4. SUFFICES ASSUME SlotOf(v) = SlotOf(w) PROVE FALSE
  OBVIOUS
<1>5. p < q
  BY <1>1, <1>2, <1>3, <1>4
<1>6. q * REST_LIST_SIZE >= p * REST_LIST_SIZE + REST_LIST_SIZE
  BY <1>5
<1>7. QED
  BY <1>1, <1>2, <1>3, <1>4, <1>6

------------------------------------------------------------------------------
(* The record that the ring holds in slot s, for s = v modulo the          *)
(* capacity.                                                               *)
LEMMA ReadRecord ==
    ASSUME Ring, logged \in Nat, NEW q \in Int, NEW s \in Slots,
           NEW v \in Nat, v = q * REST_LIST_SIZE + s,
           v < logged, v >= logged - REST_LIST_SIZE
    PROVE  ReadSlot(s) = v
<1>1. q \in Nat
  BY CapacityAssumption DEF Slots
<1>2. SlotOf(v) = s
  BY <1>1, SlotOfSum
<1>3. QED
  BY <1>2 DEF Ring, ReadSlot

(* The log has not wrapped: the first loop copies everything. *)
LEMMA CopyUnwrapped ==
    ASSUME Ring, logged \in Nat, logged < REST_LIST_SIZE,
           NEW k \in 0 .. logged, NEW j \in 0 .. k - 1
    PROVE  ToUsr(logged, k, j) = logged - k + j
<1> USE CapacityAssumption
<1>1. FirstLoop(logged, k) = k /\ Index(logged, k) = logged - k
  BY DEF FirstLoop, Index, EndOfLog
<1>2. ToUsr(logged, k, j) = ReadSlot(logged - k + j)
  BY <1>1 DEF ToUsr
<1> DEFINE v == logged - k + j
<1>3. /\ v \in Nat /\ v \in Slots /\ v = 0 * REST_LIST_SIZE + v
      /\ v < logged /\ v >= logged - REST_LIST_SIZE
  BY DEF Slots
<1> HIDE DEF v
<1>4. ReadSlot(v) = v
  <2>1. PICK q \in Int : v = q * REST_LIST_SIZE + v
    BY <1>3
  <2>2. QED
    BY <1>3, <2>1, ReadRecord
<1>5. QED
  BY <1>2, <1>4 DEF v

(* The log has wrapped, and the records asked for reach back past the      *)
(* start of the array: the tail of the array, then its start.              *)
LEMMA CopyWrapped ==
    ASSUME Ring, logged \in Nat, logged >= REST_LIST_SIZE,
           NEW k \in 0 .. REST_LIST_SIZE, k >= logged % REST_LIST_SIZE,
           NEW j \in 0 .. k - 1
    PROVE  ToUsr(logged, k, j) = logged - k + j
<1> USE CapacityAssumption
<1> DEFINE r == logged % REST_LIST_SIZE
           v == logged - k + j
<1>1. PICK q \in Nat : logged = q * REST_LIST_SIZE + r
  BY SlotDivision DEF SlotOf
<1>2. r \in Nat /\ r < REST_LIST_SIZE /\ r <= k
  BY SlotDivision DEF SlotOf, Slots
<1> HIDE DEF r
<1>3. FirstLoop(logged, k) = k - r
  BY <1>2 DEF FirstLoop, Index, EndOfLog, r
<1>4. v \in Nat /\ v < logged /\ v >= logged - REST_LIST_SIZE
  OBVIOUS
<1>5. CASE j < k - r
  <2> DEFINE s == REST_LIST_SIZE - (k - r) + j
  <2>1. ToUsr(logged, k, j) = ReadSlot(s)
    BY <1>2, <1>3, <1>5 DEF ToUsr, Index, r
  <2>2. s \in Slots
    BY <1>2, <1>5 DEF Slots
  <2>3. v = (q - 1) * REST_LIST_SIZE + s /\ q - 1 \in Int
    BY <1>1, <1>2
  <2> HIDE DEF s, v
  <2>4. ReadSlot(s) = v
    BY <1>4, <2>2, <2>3, ReadRecord
  <2>5. QED
    BY <2>1, <2>4 DEF v
<1>6. CASE j >= k - r
  <2> DEFINE s == j - (k - r)
  <2>1. r > 0 /\ SecondLoop(logged, k) >= r
    BY <1>2, <1>3, <1>6 DEF SecondLoop
  <2>2. j < FirstLoop(logged, k) + SecondLoop(logged, k)
    BY <1>2, <1>3, <1>6, <2>1 DEF SecondLoop
  <2>3. ToUsr(logged, k, j) = ReadSlot(s)
    BY <1>2, <1>3, <1>6, <2>2 DEF ToUsr
  <2>4. s \in Slots
    BY <1>2, <1>6 DEF Slots
  <2>5. v = q * REST_LIST_SIZE + s
    BY <1>1, <1>2
  <2> HIDE DEF s, v
  <2>6. ReadSlot(s) = v
    BY <1>4, <2>4, <2>5, ReadRecord
  <2>7. QED
    BY <2>3, <2>6 DEF v
<1>7. QED
  BY <1>2, <1>5, <1>6

(* Outside the domain the second loop copies from slot 0: old records, but *)
(* records of the ring.                                                    *)
LEMMA CopyFromStart ==
    ASSUME Ring, logged \in Nat, logged >= REST_LIST_SIZE,
           NEW k \in 0 .. REST_LIST_SIZE, k < logged % REST_LIST_SIZE,
           NEW j \in 0 .. k - 1
    PROVE  \E v \in Nat : /\ ToUsr(logged, k, j) = v
                          /\ v < logged
                          /\ v >= logged - REST_LIST_SIZE
<1> USE CapacityAssumption
<1> DEFINE r == logged % REST_LIST_SIZE
<1>1. PICK q \in Nat : logged = q * REST_LIST_SIZE + r
  BY SlotDivision DEF SlotOf
<1>2. r \in Nat /\ r < REST_LIST_SIZE /\ k < r
  BY SlotDivision DEF SlotOf, Slots
<1> HIDE DEF r
<1>3. FirstLoop(logged, k) = 0
  BY <1>2 DEF FirstLoop, Index, EndOfLog, r
<1>4. SecondLoop(logged, k) > j
  BY <1>2, <1>3 DEF SecondLoop
<1>5. ToUsr(logged, k, j) = ReadSlot(j)
  <2>1. ~(j < 0) /\ j - 0 = j /\ j < 0 + SecondLoop(logged, k)
    BY <1>2, <1>3, <1>4 DEF SecondLoop
  <2>2. QED
    BY <1>3, <2>1 DEF ToUsr
<1>6. j \in Slots
  BY <1>2 DEF Slots
<1> DEFINE v == q * REST_LIST_SIZE + j
<1>7. v \in Nat /\ v < logged /\ v >= logged - REST_LIST_SIZE
  BY <1>1, <1>2
<1>8. ReadSlot(j) = v
  BY <1>6, <1>7, ReadRecord
<1>9. QED
  BY <1>5, <1>7, <1>8

------------------------------------------------------------------------------
LEMMA RingKept ==
    ASSUME LogTypeOK, Ring, LogViolation
    PROVE  Ring'
<1> SUFFICES ASSUME NEW v \in Nat, v < logged',
                    v >= logged' - REST_LIST_SIZE
             PROVE  ring'[SlotOf(v)] = v
  BY DEF Ring, SlotOf
<1>0. logged' = logged + 1
  BY DEF LogViolation
<1> USE CapacityAssumption
<1>1. SlotOf(v) \in Slots /\ SlotOf(logged) \in Slots
  BY SlotDivision DEF LogTypeOK
<1>2. CASE v = logged
  BY <1>1, <1>2 DEF LogViolation, LogTypeOK
<1>3. CASE v < logged
  <2>1. SlotOf(v) # SlotOf(logged)
    BY <1>0, <1>3, SlotsDiffer DEF LogTypeOK
  <2>2. ring[SlotOf(v)] = v
    BY <1>0, <1>3 DEF Ring, LogTypeOK
  <2>3. QED
    BY <1>1, <2>1, <2>2 DEF LogViolation, LogTypeOK
<1>4. QED
  BY <1>0, <1>2, <1>3 DEF LogTypeOK

LEMMA RepliesGood ==
    ASSUME LogTypeOK, Ring, CopyLog
    PROVE  LatestInDomain' /\ RecordsAreInLog'
<1> DEFINE n == logged
           k == asked
<1>1. n \in Nat /\ k \in 0 .. n
  BY DEF LogTypeOK, CopyLog
<1>2. /\ reply'.of = n
      /\ reply'.records = [i \in 1 .. k |-> ToUsr(n, k, i - 1)]
  BY DEF CopyLog, Answer, Copied
<1>3. Size' = k
  BY <1>1, <1>2 DEF Size
<1> HIDE DEF n, k
<1>4. SUFFICES ASSUME k <= REST_LIST_SIZE
               PROVE  LatestInDomain' /\ RecordsAreInLog'
  BY <1>3, <1>1, CapacityAssumption DEF LatestInDomain, RecordsAreInLog
<1>5. CASE n < REST_LIST_SIZE \/ k >= n % REST_LIST_SIZE
  <2>1. \A j \in 0 .. k - 1 : ToUsr(n, k, j) = n - k + j
    BY <1>1, <1>4, <1>5, CopyUnwrapped, CopyWrapped, CapacityAssumption DEF n
  <2>2. \A i \in 1 .. k : reply'.records[i] = n - k + i - 1
    BY <1>1, <1>2, <2>1
  <2>3. reply'.records = Latest(n, k)
    BY <1>1, <1>2, <2>1 DEF Latest
  <2>4. LatestInDomain'
    BY <1>2, <1>3, <2>3 DEF LatestInDomain, Latest
  <2>5. RecordsAreInLog'
    BY <1>1, <1>2, <1>3, <1>4, <2>2, CapacityAssumption DEF RecordsAreInLog
  <2>6. QED
    BY <2>4, <2>5
<1>6. CASE ~(n < REST_LIST_SIZE \/ k >= n % REST_LIST_SIZE)
  <2>1. ~InDomain'
    BY <1>2, <1>3, <1>6 DEF InDomain
  <2>2. n >= REST_LIST_SIZE /\ k < n % REST_LIST_SIZE
    BY <1>1, <1>6, CapacityAssumption
  <2>3. \A j \in 0 .. k - 1 : \E v \in Nat :
            ToUsr(n, k, j) = v /\ v < n /\ v >= n - REST_LIST_SIZE
    BY <1>1, <1>4, <2>2, CopyFromStart, CapacityAssumption DEF n
  <2>4. \A i \in 1 .. k : \E v \in Nat :
            reply'.records[i] = v /\ v < n /\ v >= n - REST_LIST_SIZE
    BY <1>1, <1>2, <2>3
  <2>5. RecordsAreInLog'
    BY <1>2, <1>3, <2>4 DEF RecordsAreInLog
  <2>6. QED
    BY <2>1, <2>5 DEF LatestInDomain
<1>7. QED
  BY <1>5, <1>6

LEMMA CopyTypes ==
    ASSUME LogTypeOK, CopyLog
    PROVE  LogTypeOK'
<1>1. \A j \in 0 .. asked - 1 : ToUsr(logged, asked, j) \in Records
  BY DEF ToUsr, ReadSlot, LogTypeOK, Records
<1>2. Copied(logged, asked) \in Seq(Records)
  <2>1. asked \in Nat
    BY DEF LogTypeOK, CopyLog
  <2>2. Copied(logged, asked) \in [1 .. asked -> Records]
    BY <1>1, <2>1 DEF Copied
  <2>3. QED
    BY <2>1, <2>2
<1>3. QED
  BY <1>2 DEF LogTypeOK, CopyLog, Answer

LEMMA LogNextKeeps == LogIInv /\ [LogNext]_logVars => LogIInv'
<1> SUFFICES ASSUME LogIInv, [LogNext]_logVars PROVE LogIInv'
  OBVIOUS
<1>1. CASE LogViolation
  <2>1. LogTypeOK'
    <3>1. SlotOf(logged) \in Slots /\ logged \in Records
      BY SlotDivision DEF LogIInv, LogTypeOK, Records
    <3>2. ring' \in [Slots -> Records]
      BY <1>1, <3>1 DEF LogIInv, LogTypeOK, LogViolation
    <3>3. QED
      BY <1>1, <3>2 DEF LogIInv, LogTypeOK, LogViolation
  <2>2. Ring'
    BY <1>1, RingKept DEF LogIInv
  <2>3. LatestInDomain' /\ RecordsAreInLog'
    BY <1>1 DEF LogIInv, LogViolation, LatestInDomain, RecordsAreInLog, Size,
                InDomain
  <2>4. QED
    BY <2>1, <2>2, <2>3 DEF LogIInv
<1>2. ASSUME NEW size \in 0 .. MaxViolations, AskForLog(size)
      PROVE  LogIInv'
  <2>1. size \in 0 .. logged
    BY <1>2 DEF LogIInv, LogTypeOK, AskForLog, Accepted
  <2>2. QED
    BY <1>2, <2>1 DEF LogIInv, LogTypeOK, AskForLog, Ring, SlotOf,
                      LatestInDomain, RecordsAreInLog, Size, InDomain
<1>3. CASE CopyLog
  <2>1. Ring'
    BY <1>3 DEF LogIInv, Ring, CopyLog, SlotOf
  <2>2. QED
    BY <1>3, <2>1, CopyTypes, RepliesGood DEF LogIInv
<1>4. CASE NoMemoryForLog \/ UNCHANGED logVars
  BY <1>4 DEF LogIInv, LogTypeOK, NoMemoryForLog, logVars, Ring, SlotOf,
              LatestInDomain, RecordsAreInLog, Size, InDomain
<1>5. QED
  BY <1>1, <1>2, <1>3, <1>4 DEF LogNext

LEMMA LogInitKeeps == LogInit => LogIInv
<1> SUFFICES ASSUME LogInit PROVE LogIInv
  OBVIOUS
<1> USE CapacityAssumption
<1>1. LogTypeOK
  BY DEF LogInit, LogTypeOK, Records, Answer
<1>2. Ring
  BY DEF LogInit, Ring
<1>3. Size = 0
  BY DEF LogInit, Size, Answer
<1>4. LatestInDomain /\ RecordsAreInLog
  BY <1>3 DEF LogInit, Answer, LatestInDomain, RecordsAreInLog, Latest
<1>5. QED
  BY <1>1, <1>2, <1>4 DEF LogIInv

LEMMA LogInvariant == LogSpec => []LogIInv
<1>1. QED
  BY LogInitKeeps, LogNextKeeps, PTL DEF LogSpec

(* The ring, the counter and the answers keep their types.                 *)
THEOREM LogTypes == LogSpec => []LogTypeOK
<1>1. LogIInv => LogTypeOK
  BY DEF LogIInv
<1>2. QED
  BY <1>1, LogInvariant, PTL

(* In the domain of line 96, for every capacity, the answer holds the      *)
(* latest records, oldest first, whatever was logged while kmalloc slept.  *)
THEOREM AnswersAreLatest == LogSpec => []LatestInDomain
<1>1. LogIInv => LatestInDomain
  BY DEF LogIInv
<1>2. QED
  BY <1>1, LogInvariant, PTL

(* An answer of no more records than the ring holds never shows memory     *)
(* that no violation wrote.                                                *)
THEOREM AnswersAreRecords == LogSpec => []RecordsAreInLog
<1>1. LogIInv => RecordsAreInLog
  BY DEF LogIInv
<1>2. QED
  BY <1>1, LogInvariant, PTL
==============================================================================
