------------------------------ MODULE PkiLock -------------------------------
(***************************************************************************)
(* withPkiLock(): servers and clients prepare their certificates one after *)
(* another, since node-opcua's initialize() returns at once while another  *)
(* caller is still creating the key pair both are to use                   *)
(* (lib/pki-lock.js).  Operators after "Mutant:" are not used by Spec:     *)
(* they are plausible mistakes the properties must notice.                 *)
(***************************************************************************)
EXTENDS Naturals

CONSTANTS Tasks, None

ASSUME TasksAssumption == None \notin Tasks

VARIABLES tail,     \* the task whose promise the next one is chained to
          task,     \* "new", "queued", "running", "done" or "failed"
          after,    \* what a task has been chained to
          place,    \* history: its place in the queue, from 1
          key,      \* the key pair on disk: "absent", "creating" or "present"
          creator   \* who creates it

lockVars == <<tail, task, after, place, key, creator>>

LockInit ==
  /\ tail = None /\ key = "absent" /\ creator = None
  /\ task = [t \in Tasks |-> "new"]
  /\ after = [t \in Tasks |-> None] /\ place = [t \in Tasks |-> 0]

-----------------------------------------------------------------------------
Settled(t) == IF t = None THEN TRUE ELSE task[t] \in {"done", "failed"}

Length == IF tail = None THEN 0 ELSE place[tail]

(* Mutant: the chain is not extended.                                       *)
FirstOnly(t) == tail

Chained(t) == t

(* withPkiLock(): run is chained to tail, and tail is what the next waits for. *)
WithPkiLock(t) ==
  /\ task[t] = "new" /\ task' = [task EXCEPT ![t] = "queued"]
  /\ after' = [after EXCEPT ![t] = tail] /\ tail' = Chained(t)
  /\ place' = [place EXCEPT ![t] = Length + 1]
  /\ UNCHANGED <<key, creator>>

(* Mutant: tail is the run itself: what is queued after a failure never runs. *)
Succeeded(t) == IF t = None THEN TRUE ELSE task[t] = "done"

(* tail catches what its run throws.                                        *)
Free(t) == Settled(t)

(* initialize() creates the key pair unless it is there, or being created.  *)
Begin(t) ==
  /\ task[t] = "queued" /\ Free(after[t])
  /\ task' = [task EXCEPT ![t] = "running"]
  /\ IF key = "absent" THEN key' = "creating" /\ creator' = t ELSE UNCHANGED <<key, creator>>
  /\ UNCHANGED <<tail, after, place>>

Succeed(t) ==
  /\ task[t] = "running" /\ task' = [task EXCEPT ![t] = "done"]
  /\ IF creator = t THEN key' = "present" /\ creator' = None ELSE UNCHANGED <<key, creator>>
  /\ UNCHANGED <<tail, after, place>>

Fail(t) ==
  /\ task[t] = "running" /\ task' = [task EXCEPT ![t] = "failed"]
  /\ IF creator = t THEN key' = "absent" /\ creator' = None ELSE UNCHANGED <<key, creator>>
  /\ UNCHANGED <<tail, after, place>>

Work(t) == Begin(t) \/ Succeed(t) \/ Fail(t)
LockNext == \E t \in Tasks : WithPkiLock(t) \/ Work(t)
LockSpec == LockInit /\ [][LockNext]_lockVars

-----------------------------------------------------------------------------
(* Properties.                                                              *)

LockTypeOK ==
  /\ tail \in Tasks \cup {None} /\ creator \in Tasks \cup {None}
  /\ task \in [Tasks -> {"new", "queued", "running", "done", "failed"}]
  /\ after \in [Tasks -> Tasks \cup {None}] /\ place \in [Tasks -> Nat]
  /\ key \in {"absent", "creating", "present"}

(* Whoever has prepared its certificate finds the key pair on disk when it  *)
(* goes on to read it: no server fails with "Cannot find private key" on    *)
(* the first deploy.                                                        *)
KeyIsThere == \A t \in Tasks : task[t] = "done" => key = "present"

(* They run in the order in which they asked, and one at a time.            *)
InOrder ==
  \A s, t \in Tasks :
    task[s] # "new" /\ place[s] < place[t] /\ task[t] \in {"running", "done", "failed"} => Settled(s)

=============================================================================
