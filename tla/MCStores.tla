------------------------------ MODULE MCStores ------------------------------
(* The stores of a project and what is derived from them, one part at a time: *)
(* `part` says which, and the others stay as they begin.                      *)
EXTENDS MemoryUndo, DerivedIndexes, SkillLibrary, WorkingMemory, DecisionTools, Reconcile,
        AgentsMd, TLC

CONSTANTS Components, decisions, skills

(* MemoryUndo: the log of decisions takes the first lines, another file the    *)
(* next ...                                                                  *)
MCHome == [l \in Line |-> IF l % 2 = 1 THEN decisions ELSE skills]

VARIABLES
  part,
  about, heldStatus, heldMan, heldDig, wr, asking, shown, heldWrites, heldFails,
  heldBehind, gone, met,
  sessions, event, ind, induced, proposed, verdicts, inductions

(* Reconcile: texts of 3, 4 and 6 words, each the beginning of the next, and one  *)
(* of them with a negation.                                                  *)
MCTexts == {1 .. 3, 1 .. 4, 1 .. 6, (1 .. 4) \cup {9}}
MCCiting == {<<1, 2>>, <<1, 4>>}

(* AgentsMd: the fixed text leaves about 500 bytes; a line takes 60 or 440.     *)
MCUserPieces == {<<"u">>}

(* SkillLibrary: two decisions made in sessions that used the one skill; the    *)
(* second user observes git.                                                 *)
MCSessions == <<{1}, {1}>>

(* DecisionTools: two agents; words 1-4 and 1-3 say the same, just.  One decision *)
(* to begin with.                                                            *)
MCRequest(op, words) == [op |-> op, text |-> words, dnr |-> FALSE, force |-> FALSE]
MCAsked ==
  <<{MCRequest("record", 1 .. 4)},
    {MCRequest(op, 1 .. 3) : op \in {"record", "supersede", "search", "list", "timeline", "brief"}}
      \cup {[MCRequest("record", 1 .. 3) EXCEPT !.force = TRUE]}>>

MCSeeds == {<<[text |-> 1 .. 3, dnr |-> FALSE]>>}

(* Matches by tag, by tag and file, by words alone; one that git saw reverted.   *)
MCProfile(tags, files, words, result, recency, length) ==
  [tags |-> tags, files |-> files, words |-> words, outcome |-> result,
   recency |-> recency, length |-> length]
C == INSTANCE PromptContext
       WITH Decisions <- 1 .. 3,
            Profiles <- {MCProfile(1, 0, TRUE, "none", 99, 1), MCProfile(1, 1, FALSE, "kept", 50, 3),
                         MCProfile(0, 1, FALSE, "reverted", 90, 2),
                         MCProfile(0, 0, TRUE, "kept", 90, 2)},
            Old <- 2, MaxShown <- 2, Budget <- 5, MaxWrites <- 1, MaxFails <- 1,
            status <- heldStatus, man <- heldMan, dig <- heldDig, ask <- asking,
            writes <- heldWrites, fails <- heldFails, behind <- heldBehind

(* Sessions whose one decision was kept.                                      *)
P == INSTANCE Induction
       WITH Tags <- <<{"a"}, {"a", "b"}, {"a", "b", "c"}, {}>>, NoType <- "none", MinCluster <- 3,
            Rows <- {[session |-> "s", type |-> "bug", ids |-> {d}] : d \in 1 .. 4},
            Kept <- {[d \in 1 .. 4 |-> "kept"]}, MaxRows <- 5, MaxEvents <- 1,
            MaxInductions <- 1, events <- verdicts

prompt == <<about, heldStatus, heldMan, heldDig, wr, asking, shown, heldWrites, heldFails,
            heldBehind, gone, met>>
induction == <<sessions, event, ind, induced, proposed, verdicts, inductions>>
allvars == <<part, vars, dvars, rvars, avars, wmvars, skvars, tvars, prompt,
             induction>>

(* A part that is not the one starts in one state only.                       *)
MCInit ==
  /\ part \in Components
  /\ Init /\ (part = "undo" \/ (snaps = Empty /\ "store" \in DOMAIN dirs))
  /\ DInit /\ WMInit
  /\ IF part = "reconcile" THEN TRUE
     ELSE records = [i \in 1 .. 2 |-> [text |-> 1 .. 3, dnr |-> FALSE]] /\ cites = {}
  /\ RInit
  /\ IF part = "agents" THEN TRUE ELSE doc = [f \in ManagedFiles |-> <<>>]
  /\ AInit
  /\ IF part = "skills" THEN TRUE ELSE verdict = <<"kept", "kept">>
  /\ SInit /\ TInit
  /\ IF part = "prompts" THEN TRUE
     ELSE about = [d \in 1 .. 3 |-> MCProfile(1, 0, TRUE, "none", 99, 1)]
  /\ C!PInit /\ P!InInit

Move ==
  \/ /\ part = "undo" /\ Next
     /\ UNCHANGED <<dvars, rvars, avars, wmvars, skvars, tvars, prompt,
                    induction>>
  \/ /\ part = "derived" /\ DNext
     /\ UNCHANGED <<vars, rvars, avars, wmvars, skvars, tvars, prompt,
                    induction>>
  \/ /\ part = "reconcile" /\ RNext
     /\ UNCHANGED <<vars, dvars, avars, wmvars, skvars, tvars, prompt,
                    induction>>
  \/ /\ part = "agents" /\ ANext
     /\ UNCHANGED <<vars, dvars, rvars, wmvars, skvars, tvars, prompt,
                    induction>>
  \/ /\ part = "working" /\ WMNext
     /\ UNCHANGED <<vars, dvars, rvars, avars, skvars, tvars, prompt,
                    induction>>
  \/ /\ part = "skills" /\ SNext
     /\ UNCHANGED <<vars, dvars, rvars, avars, wmvars, tvars, prompt,
                    induction>>
  \/ /\ part = "advice" /\ TNext
     /\ UNCHANGED <<vars, dvars, rvars, avars, wmvars, skvars, prompt,
                    induction>>
  \/ /\ part = "prompts" /\ C!PNext
     /\ UNCHANGED <<vars, dvars, rvars, avars, wmvars, skvars, tvars,
                    induction>>
  \/ /\ part = "induction" /\ P!InNext
     /\ UNCHANGED <<vars, dvars, rvars, avars, wmvars, skvars, tvars, prompt>>

MCNext == Move /\ UNCHANGED part
MCSpec == MCInit /\ [][MCNext]_allvars

(* Two states of one part are the same if that part is: the others never move.  *)
MCView ==
  <<part, CASE part = "undo" -> vars [] part = "derived" -> dvars
            [] part = "reconcile" -> rvars [] part = "agents" -> avars
            [] part = "working" -> wmvars [] part = "skills" -> skvars
            [] part = "advice" -> tvars [] part = "prompts" -> prompt
            [] part = "induction" -> induction>>

-----------------------------------------------------------------------------
(* What is chosen from the decisions.  What a prompt is given stood when it came, *)
(* and nothing with a fair claim to be in it is missing; and sessions become a    *)
(* skill if there are enough of a kind, and only then.                          *)
WellChosen ==
  /\ part = "prompts" => C!InjectedStand /\ C!LeftOutForAReason
  /\ part = "induction" => P!AlikeAreProposed /\ P!InducedHaveEvidence
=============================================================================
