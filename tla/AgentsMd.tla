------------------------------ MODULE AgentsMd -----------------------------
(***************************************************************************)
(* The block that codevira keeps in AGENTS.md and the other managed files:  *)
(* mcp_server/storage/agents_md_generator.py, called after every write to   *)
(* the store and by `codevira sync`.  What stands outside the block belongs *)
(* to the user, who may edit the files, the markers included, at any time   *)
(* but while one is being rewritten.                                       *)
(*                                                                         *)
(* A shared file is a sequence of pieces: the two markers, pieces of the    *)
(* user's, and <<"block", rev>>, what is rendered for revision rev of the   *)
(* store.  An owned file (.mdc) is the whole of what was rendered for it.   *)
(***************************************************************************)
EXTENDS Integers, Sequences, SequencesExt, FiniteSetsExt

CONSTANTS
  Shared, Owned,   \* the managed files; regenerate_all takes them in one order
  UserPieces, MaxPieces, MaxRev,
  Cap, Margin, FixedBytes, LineSizes, MaxLocked, MaxOpen

ManagedFiles == Shared \cup Owned
BeginMarker == <<"begin">>
EndMarker == <<"end">>

VARIABLES
  rev,             \* how many times the store was written
  locked, open,    \* its decisions, oldest first: the bytes of their lines so far
  doc,             \* doc[f]: the pieces of file f
  todo,            \* regenerate_all: the files to go
  own, stale       \* history: the user's pieces, and the files that may be old
avars == <<rev, locked, open, doc, todo, own, stale>>

FirstAt(s, x) == IF \E i \in DOMAIN s : s[i] = x THEN Min({i \in DOMAIN s : s[i] = x}) ELSE 0

HasBlock(s) == FirstAt(s, BeginMarker) # 0 /\ FirstAt(s, EndMarker) > FirstAt(s, BeginMarker)

Above(s) == SubSeq(s, 1, FirstAt(s, BeginMarker) - 1)
Below(s) == SubSeq(s, FirstAt(s, EndMarker) + 1, Len(s))
Outside(s) == IF HasBlock(s) THEN Above(s) \o Below(s) ELSE s

Block(r) == <<BeginMarker, <<"block", r>>, EndMarker>>

(* Mutant: the block is taken to end at the last end marker.                 *)
MergeLast(s, r) ==
  LET last == IF EndMarker \in ToSet(s) THEN Max({i \in DOMAIN s : s[i] = EndMarker}) ELSE 0 IN
  IF FirstAt(s, BeginMarker) # 0 /\ last > FirstAt(s, BeginMarker)
  THEN Above(s) \o Block(r) \o SubSeq(s, last + 1, Len(s))
  ELSE Block(r) \o s

(* _merge_into_file: the first marked block is replaced; without one, the     *)
(* block goes before everything.                                             *)
MergeBlock(s, r) ==
  IF HasBlock(s) THEN Above(s) \o Block(r) \o Below(s) ELSE Block(r) \o s

-----------------------------------------------------------------------------
(* _render_block: every locked decision, then the open ones that fit, in the  *)
(* order of their ids; a line says how many do not.  A line ends in a newline. *)

BytesOf(lines, k) == IF k = 0 THEN 0 ELSE lines[k]
AddLine(lines, n) == Append(lines, BytesOf(lines, Len(lines)) + n + 1)
Base == FixedBytes + BytesOf(locked, Len(locked))

(* Mutant: the budget is what the rest leaves, to the byte.                  *)
RemainingAll == Cap - Base
Remaining == Cap - Base - Margin

(* "### Active conventions" and an empty line, "_None yet._", and the line     *)
(* with the number of dropped decisions, as joined.                          *)
TitleBytes == 24
NoneBytes == 13
DroppedBytes == 68

(* The margin holds at least the title and the line about the dropped ones.     *)
ASSUME AgentsMdAssumption ==
  /\ {Cap, Margin, FixedBytes} \subseteq Nat /\ LineSizes \subseteq Nat
  /\ Margin >= TitleBytes + DroppedBytes + 1

LinesFit(k) == TitleBytes + 1 + BytesOf(open, k) <= Remaining
Fitted == IF open # <<>> /\ LinesFit(1)
          THEN Max({k \in 1 .. Len(open) : LinesFit(k)}) ELSE 0

BlockBytes ==
  IF open = <<>> THEN Base + TitleBytes + NoneBytes
  ELSE Base + TitleBytes + BytesOf(open, Fitted)
       + (IF Fitted > 0 THEN 1 ELSE 0)
       + (IF Fitted < Len(open) THEN DroppedBytes + 1 ELSE 0)

-----------------------------------------------------------------------------
AInit ==
  /\ rev = 0 /\ locked = <<>> /\ open = <<>>
  /\ doc \in [ManagedFiles -> SeqOf(UserPieces \cup {BeginMarker, EndMarker}, MaxPieces)]
  /\ \A f \in Owned : doc[f] = <<>>
  /\ todo = {}
  /\ own = [f \in Shared |-> Outside(doc[f])]
  /\ stale = ManagedFiles

(* A decision is recorded or changed; every write of the store is followed by *)
(* regenerate_all.                                                           *)
Write ==
  /\ todo = {} /\ rev < MaxRev
  /\ rev' = rev + 1
  /\ \E n \in LineSizes :
       \/ Len(locked) < MaxLocked /\ locked' = AddLine(locked, n) /\ UNCHANGED open
       \/ Len(open) < MaxOpen /\ open' = AddLine(open, n) /\ UNCHANGED locked
  /\ todo' = ManagedFiles
  /\ stale' = ManagedFiles
  /\ UNCHANGED <<doc, own>>

Regenerate(f) ==
  /\ f \in todo /\ todo' = todo \ {f}
  /\ doc' = [doc EXCEPT ![f] = IF f \in Shared THEN MergeBlock(@, rev) ELSE Block(rev)]
  /\ stale' = stale \ {f}
  /\ UNCHANGED <<rev, locked, open, own>>

(* One target that fails does not stop the others.                           *)
RegenerateFails(f) ==
  /\ f \in todo /\ todo' = todo \ {f}
  /\ UNCHANGED <<rev, locked, open, doc, own, stale>>

EditsOf(s) ==
  {RemoveAt(s, i) : i \in DOMAIN s}
  \cup {InsertAt(s, i, x) : i \in 1 .. Len(s) + 1, x \in UserPieces \cup {BeginMarker, EndMarker}}

UserEdits(f) ==
  /\ f \in Shared /\ todo = {}
  /\ \E s \in EditsOf(doc[f]) :
       /\ Len(s) <= MaxPieces + 3
       /\ doc' = [doc EXCEPT ![f] = s]
       /\ own' = [own EXCEPT ![f] = Outside(s)]
       /\ stale' = stale \cup {f}
  /\ UNCHANGED <<rev, locked, open, todo>>

ANext == Write \/ \E f \in ManagedFiles : Regenerate(f) \/ RegenerateFails(f) \/ UserEdits(f)
ASpec == AInit /\ [][ANext]_avars

-----------------------------------------------------------------------------
(* The user's pieces stay as the user left them, in order, whatever the       *)
(* markers look like: doubled, orphaned or in the wrong order.               *)
UserTextKept == \A f \in Shared : Outside(doc[f]) = own[f]

(* After a regeneration a file shows one block of ours, of the last revision:  *)
(* earlier ones are not left behind, were they written around broken markers. *)
OneFreshBlock ==
  \A f \in ManagedFiles \ stale :
    /\ Contains(doc[f], <<"block", rev>>)
    /\ f \in Shared => MergeBlock(doc[f], rev) = doc[f]

(* The block stays within the cap as long as its locked part leaves the       *)
(* margin, however many open decisions there are.                            *)
CapIsHard == Base + Margin <= Cap => BlockBytes <= Cap

(* A regenerated file is its user's text with one block in it, of the last     *)
(* revision and within the cap.                                              *)
OneBlockAmongTheirs == UserTextKept /\ OneFreshBlock /\ CapIsHard
=============================================================================
