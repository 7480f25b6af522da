-------------------------- MODULE WorkspaceDirectory --------------------------
(***************************************************************************)
(* The directory workspace driver (internal/drivers/workspace/directory):  *)
(* one writable tree per agent generation beside a durable record of its   *)
(* state.  A workspace is a record                                         *)
(*   state    the persisted state; "absent" when there is no directory and *)
(*            "bare" when the directory is left without its record;        *)
(*   tree     whether the merged tree is whole, partly removed or gone;    *)
(*   content  how often the agent has written to the tree;                 *)
(*   clean    whether a scan of the tree succeeds: it fails when the quota *)
(*            is exceeded or a file is not regular;                        *)
(*   revision, view   the latest preview: its number and the content it    *)
(*            saw.  A seal always repeats the latest preview.              *)
(* Every operation runs under the driver's gate, so each is one step, save *)
(* Release, whose removals a crash or a deadline can cut short.            *)
(***************************************************************************)
EXTENDS Naturals

CONSTANT MaxWrites      \* bound on the writes to one workspace

NoWorkspace == [state |-> "absent", tree |-> "gone", content |-> 0, clean |-> TRUE,
                revision |-> 0, view |-> 0]

Workspaces ==
    [state : {"absent", "ready", "mounted", "sealed", "released", "bare"},
     tree : {"whole", "partial", "gone"}, content : 0..MaxWrites, clean : BOOLEAN,
     revision : 0..(MaxWrites + 1), view : 0..MaxWrites]

Sealed(w) == w.state \in {"sealed", "released"}

\* Prepare stages the directory and publishes it by one rename, after which a
\* replay inspects what is there.
Prepared == [NoWorkspace EXCEPT !.state = "ready", !.tree = "whole"]

\* scanManaged walks the tree twice and refuses one that is too large, holds
\* anything but regular files or changes meanwhile.
Scannable(w) == w.clean

\* verifyBaseline: a workspace that was never mounted holds its inputs.
Baseline(w) == w.content = 0

\* requireUnchanged: a sealed tree still is what its preview saw.
Unchanged(w) == w.tree = "whole" /\ w.content = w.view

\* inspectHandle: the state the driver reports, "not_found" when the merged
\* tree is missing, or "error".
Inspected(w) ==
    CASE w.state = "absent" \/ w.tree = "gone" -> "not_found"
      [] ~Scannable(w)                         -> "error"
      [] Sealed(w) /\ ~Unchanged(w)            -> "error"
      [] w.state = "ready" /\ ~Baseline(w)     -> "error"
      [] OTHER                                 -> w.state

Mountable(w) == w.state \in {"ready", "mounted"} /\ Scannable(w)
Mounted(w) == [w EXCEPT !.state = "mounted"]

\* Preview keeps its revision while the content is what it last saw.
Previewable(w) == w.state = "mounted" /\ Scannable(w)
Previewed(w) ==
    IF w.revision > 0 /\ w.view = w.content
    THEN w ELSE [w EXCEPT !.revision = @ + 1, !.view = w.content]

\* Faulty variant: Seal does not compare the tree with the preview.
SealableUnread(w, r) == w.state \in {"mounted", "sealed"} /\ w.revision = r

\* Seal at the revision r the caller names.
Sealable(w, r) ==
    \/ w.state = "sealed" /\ w.revision = r
    \/ w.state = "mounted" /\ Scannable(w) /\ w.revision = r /\ Unchanged(w)
SealedAs(w) == [w EXCEPT !.state = "sealed"]

\* sealWorkspace of the controller: mount if need be, preview, seal.
Retirable(w) == Inspected(w) \in {"not_found", "ready", "mounted", "sealed", "released"}
SealedForRelease(w) ==
    IF Inspected(w) \in {"ready", "mounted"} THEN SealedAs(Previewed(Mounted(w))) ELSE w

\* removeWorkspaceTree removes the merged tree entry by entry.
TreeRemoved(w) == [w EXCEPT !.tree = IF @ = "whole" THEN "partial" ELSE "gone"]

\* Release marks the record, removes the tree, then the record and last the
\* directory.
ReleaseStep(w) ==
    CASE w.state = "sealed"    -> [w EXCEPT !.state = "released"]
      [] w.tree # "gone"       -> TreeRemoved(w)
      [] w.state = "released"  -> [w EXCEPT !.state = "bare"]
      [] OTHER                 -> NoWorkspace

\* What the agent's processes do to the mounted tree.
Written(w) == {[w EXCEPT !.content = @ + 1], [w EXCEPT !.content = @ + 1, !.clean = FALSE]}

\* loadRecords refuses a root that holds a directory without its record.
Loadable(w) == w.state # "bare"
===============================================================================
