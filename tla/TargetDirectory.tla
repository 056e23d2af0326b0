--------------------------- MODULE TargetDirectory ---------------------------
(***************************************************************************)
(* prepare_scan_target: how the directory input_root/<scan id> is filled   *)
(* for the scanner.  A repository is cloned anew each time, at the wanted  *)
(* reference or, when that fails twice, at the default branch; a local     *)
(* path is copied once and reused when anything is there.  A task may      *)
(* crash at any step and be delivered again, and a second delivery may     *)
(* overlap the first.                                                      *)
(***************************************************************************)
EXTENDS FiniteSets, Naturals

CONSTANTS Tasks,        \* deliveries of the scan's message
          MaxCrashes    \* bound

VARIABLES source,       \* [kind, ref, exists]: what the scan names
          tree,         \* the directory: [state, ref, by]
          task,         \* per delivery: [pc, failed]
          overlapped,   \* two deliveries were under way at the same time
          torn,         \* a crash interrupted a copy
          crashes
targetVars == <<source, tree, task, overlapped, torn, crashes>>

NoTask == "nobody"
Attempts == {"branch", "checkout", "default"}
TargetInit ==
  /\ source \in [kind : {"git"}, ref : {"wanted", "default"}, exists : {TRUE}]
               \cup [kind : {"local"}, ref : {"default"}, exists : BOOLEAN]
  /\ tree = [state |-> "absent", ref |-> "default", by |-> NoTask]
  /\ task = [t \in Tasks |-> [pc |-> "idle", failed |-> {}]]
  /\ overlapped = FALSE /\ torn = FALSE /\ crashes = 0

Underway(t) == task[t].pc \notin {"idle", "scanned", "raised"}
SetTask(t, pc) == task' = [task EXCEPT ![t].pc = pc]
Start(t) ==
  /\ task[t].pc = "idle"
  /\ task' = [task EXCEPT ![t] = [pc |-> "started", failed |-> {}]]
  /\ overlapped' = (overlapped \/ \E u \in Tasks \ {t} : Underway(u))
  /\ UNCHANGED <<source, tree, torn, crashes>>

(* Mutant: a clone that is there is reused as well. *)
ReusesAny == tree.state \in {"half", "whole"}

Reuses == source.kind = "local" /\ tree.state \in {"half", "whole"}

ReuseTree(t) ==
  /\ task[t].pc = "started" /\ Reuses
  /\ SetTask(t, "ready")
  /\ UNCHANGED <<source, tree, overlapped, torn, crashes>>

Half(t, ref) == tree' = [state |-> "half", ref |-> ref, by |-> t]

(* rmtree, mkdir and the start of git clone. *)
NextAttempt(t) ==
  IF source.ref = "wanted" /\ "branch" \notin task[t].failed THEN "branch"
  ELSE IF source.ref = "wanted" /\ "checkout" \notin task[t].failed THEN "checkout" ELSE "default"
BeginClone(t) ==
  /\ source.kind = "git" /\ ~Reuses
  /\ task[t].pc = "started"
  /\ Half(t, source.ref)
  /\ SetTask(t, NextAttempt(t))
  /\ UNCHANGED <<source, overlapped, torn, crashes>>
FinishClone(t) ==
  /\ task[t].pc \in Attempts
  /\ IF tree.by = t
     THEN tree' = [tree EXCEPT !.state = "whole",
                               !.ref = IF task[t].pc = "default" THEN "default" ELSE source.ref]
     ELSE UNCHANGED tree          \* the other delivery's tree is in its place
  /\ SetTask(t, "ready")
  /\ UNCHANGED <<source, overlapped, torn, crashes>>
(* A missing reference, a network failure, or a directory that is not      *)
(* empty any more: the next attempt, if there is one.  A timeout raises.   *)
CloneFails(t) ==
  /\ task[t].pc \in Attempts
  /\ \E pc \in {"raised"} \cup (IF task[t].pc = "default" THEN {} ELSE {"started"}) :
       task' = [task EXCEPT ![t].failed = @ \cup {task[t].pc}, ![t].pc = pc]
  /\ UNCHANGED <<source, tree, overlapped, torn, crashes>>

BeginCopy(t) ==
  /\ task[t].pc = "started" /\ source.kind = "local" /\ ~Reuses /\ source.exists
  /\ Half(t, "default")
  /\ SetTask(t, "copying")
  /\ UNCHANGED <<source, overlapped, torn, crashes>>
FinishCopy(t) ==
  /\ task[t].pc = "copying"
  /\ tree' = [tree EXCEPT !.state = "whole"]
  /\ SetTask(t, "ready")
  /\ UNCHANGED <<source, overlapped, torn, crashes>>
CannotCopy(t) ==     \* TARGET_NOT_FOUND, or copytree raises half-way
  /\ \/ task[t].pc = "started" /\ source.kind = "local" /\ ~Reuses /\ ~source.exists
     \/ task[t].pc = "copying"
  /\ SetTask(t, "raised")
  /\ UNCHANGED <<source, tree, overlapped, torn, crashes>>

ScannerReads(t) ==
  /\ task[t].pc = "ready"
  /\ SetTask(t, "scanned")
  /\ UNCHANGED <<source, tree, overlapped, torn, crashes>>

(* The worker dies; its message comes back to it or to another one. *)
TaskCrashes(t) ==
  /\ Underway(t) /\ crashes < MaxCrashes
  /\ SetTask(t, "idle")
  /\ torn' = (torn \/ task[t].pc = "copying")
  /\ crashes' = crashes + 1
  /\ UNCHANGED <<source, tree, overlapped>>

TargetNext == \E t \in Tasks :
  \/ Start(t) \/ ReuseTree(t) \/ BeginClone(t) \/ FinishClone(t) \/ CloneFails(t)
  \/ BeginCopy(t) \/ FinishCopy(t) \/ CannotCopy(t) \/ ScannerReads(t) \/ TaskCrashes(t)
TargetSpec == TargetInit /\ [][TargetNext]_targetVars

-----------------------------------------------------------------------------
TargetTypeOK ==
  /\ tree.state \in {"absent", "half", "whole"} /\ tree.by \in Tasks \cup {NoTask}
  /\ \A t \in Tasks : task[t].failed \subseteq Attempts
  /\ overlapped \in BOOLEAN /\ torn \in BOOLEAN

CopyRaised == \E t \in Tasks : task[t].pc = "raised" /\ source.kind = "local" /\ source.exists

(* What the scanner is pointed at is a complete tree, at the wanted        *)
(* reference unless a branch clone and a checkout of it both failed for    *)
(* this very delivery.  It is not so in the three cases the code leaves    *)
(* open: two deliveries overlapped, or a local copy was cut short by a     *)
(* crash or an error and a later delivery reuses it                        *)
(* (scan_orchestrator.py:224, 273).                                        *)
PreparedTreesAreWhole ==
  ~overlapped /\ ~torn /\ ~CopyRaised =>
    \A t \in Tasks : task[t].pc = "ready" =>
      /\ tree.state = "whole"
      /\ tree.ref = source.ref \/ {"branch", "checkout"} \subseteq task[t].failed
=============================================================================
