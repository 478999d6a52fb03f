---------------------------- MODULE VersionedTasks ----------------------------
(***************************************************************************)
(* What the task store promises: every call takes effect at one instant       *)
(* between its invocation and its answer; a task's version grows by one with   *)
(* every write; its owner never changes; an update that names a version only   *)
(* replaces that version.  A call answered with an error may or may not have   *)
(* taken effect.  Old tasks may disappear.                                     *)
(***************************************************************************)
EXTENDS TaskCalls

VARIABLES tasks,  \* id -> the task stored, or None
          calls   \* caller -> what it has asked, or was answered

absVars == <<tasks, calls>>

AbsInit ==
    /\ tasks = [i \in Ids |-> None]
    /\ calls = [p \in Callers |-> [at |-> "idle"]]

Asked(p, op) == calls[p].at = "asked" /\ calls[p].req.op = op
AnswerTo(p, answer) ==
    calls' = [calls EXCEPT ![p] = [at |-> "answered", req |-> calls[p].req,
                                   answer |-> answer]]

Ask(p, req) ==
    /\ calls[p].at = "idle"
    /\ calls' = [calls EXCEPT ![p] = [at |-> "asked", req |-> req]]
    /\ UNCHANGED tasks

\* The first version of a task that is not there.
DoCreate(p) ==
    LET r == calls[p].req
    IN  /\ Asked(p, "create")
        /\ tasks[r.id] = None
        /\ tasks' = [tasks EXCEPT ![r.id] =
                        [payload |-> r.payload, version |-> 1, user |-> r.user]]
        /\ \/ AnswerTo(p, Ok(1, r.payload))
           \/ AnswerTo(p, Refused("error"))

\* The next version of the task, of the same owner.
DoUpdate(p) ==
    LET r == calls[p].req
        old == tasks[r.id]
    IN  /\ Asked(p, "update")
        /\ old # None
        /\ r.prev \in {Missing, old.version}
        /\ tasks' = [tasks EXCEPT ![r.id] =
                        [payload |-> r.payload, version |-> old.version + 1,
                         user |-> old.user]]
        /\ \/ AnswerTo(p, Ok(old.version + 1, r.payload))
           \/ AnswerTo(p, Refused("error"))

DoGet(p) ==
    LET old == tasks[calls[p].req.id]
    IN  /\ Asked(p, "get")
        /\ old # None
        /\ AnswerTo(p, Ok(old.version, old.payload))
        /\ UNCHANGED tasks

Refuse(p, why) ==
    LET r == calls[p].req
    IN  /\ calls[p].at = "asked"
        /\ \/ why = "exists" /\ r.op = "create" /\ tasks[r.id] # None
           \/ why = "missing" /\ r.op # "create" /\ tasks[r.id] = None
           \/ /\ why = "conflict" /\ r.op = "update"
              /\ tasks[r.id] # None
              /\ r.prev \notin {Missing, tasks[r.id].version}
           \/ why = "error"
        /\ AnswerTo(p, Refused(why))
        /\ UNCHANGED tasks

Return(p) ==
    /\ calls[p].at = "answered"
    /\ calls' = [calls EXCEPT ![p] = [at |-> "idle"]]
    /\ UNCHANGED tasks

Disappear(i) ==
    /\ tasks[i] # None
    /\ tasks' = [tasks EXCEPT ![i] = None]
    /\ UNCHANGED calls

AbsNext ==
    \/ \E p \in Callers :
          \/ \E req \in Request : Ask(p, req)
          \/ DoCreate(p)
          \/ DoUpdate(p)
          \/ DoGet(p)
          \/ \E why \in {"exists", "missing", "conflict", "error"} : Refuse(p, why)
          \/ Return(p)
    \/ \E i \in Ids : Disappear(i)

AbsSpec == AbsInit /\ [][AbsNext]_absVars
==============================================================================
