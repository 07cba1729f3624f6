------------------------------ MODULE MlsGroup ------------------------------
(***************************************************************************)
(* A member's MLS group: lockframe-core/src/mls/group.rs and validator.rs   *)
(* over OpenMLS.  The history of a group is the sequence of commits that    *)
(* made it, its creation first.  Two members hold the same epoch secret     *)
(* exactly when their histories are equal, so the history stands for the    *)
(* secret, the tree and the epoch at once.  A key is one signature key pair *)
(* and, unless it created a group, its key package.                         *)
(***************************************************************************)
EXTENDS Naturals, Sequences, FiniteSetsExt

CONSTANTS
  NoCommit           \* Option::None

Commit(by, adds, n) == [by |-> by, adds |-> adds, n |-> n]

Epoch(history) == Len(history) - 1

(* The keys at the leaves: members are only added, each at the next leaf.   *)
Tree(history) ==
  LET leaves[i \in 0 .. Len(history)] ==
        IF i = 0 THEN <<>> ELSE leaves[i - 1] \o history[i].adds
  IN  leaves[Len(history)]

LeafOf(history, key) == CHOOSE i \in DOMAIN Tree(history) : Tree(history)[i] = key

NewGroup(key) ==
  [history |-> << Commit(key, <<key>>, 0) >>, own |-> key,
   pending_commit |-> NoCommit, staged |-> NoCommit]

(* add_members: OpenMLS refuses a second pending commit and a key that is   *)
(* in the tree.                                                             *)
CanAddMembers(g, adds) ==
  /\ g.staged = NoCommit
  /\ adds # <<>>
  /\ \A i \in DOMAIN adds : \A j \in DOMAIN Tree(g.history) : adds[i] # Tree(g.history)[j]

Pending(g, commit) == [g EXCEPT !.pending_commit = commit, !.staged = commit]

(* process_message of a Commit.  OpenMLS refuses a commit made from any     *)
(* other history and a commit of its own member; merging a commit discards  *)
(* the one OpenMLS had staged, not the wrapper's pending_commit.            *)
CanProcess(g, parent, commit) == g.history = parent /\ commit.by # g.own

Merged(g, commit) ==
  [g EXCEPT !.history = Append(@, commit), !.staged = NoCommit]

(* Mutant of ClearPendingCommit: the commit OpenMLS has staged stays. *)
ClearPendingCommit_WrapperOnly(g) == [g EXCEPT !.pending_commit = NoCommit]

ClearPendingCommit(g) ==
  [g EXCEPT !.pending_commit = NoCommit, !.staged = NoCommit]

(* join_from_welcome: the Welcome of a commit opens for the keys it adds.   *)
CanJoin(commit, key) == \E i \in DOMAIN commit.adds : commit.adds[i] = key

Joined(parent, commit, key) ==
  [history |-> Append(parent, commit), own |-> key,
   pending_commit |-> NoCommit, staged |-> NoCommit]

(* export_validation_state and validate_frame: the sender is a member, and  *)
(* its last leaf's key verifies the signature over signing_data.            *)
LeavesOf(history, member) ==
  { i \in DOMAIN Tree(history) : Tree(history)[i].owner = member }

ValidFrame(g, f) ==
  /\ f.epoch = Epoch(g.history)
  /\ LeavesOf(g.history, f.sender) # {}
  /\ f.key = Tree(g.history)[Max(LeavesOf(g.history, f.sender))]
  /\ f.signed = "signing_data"
=============================================================================
