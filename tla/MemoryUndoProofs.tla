-------------------------- MODULE MemoryUndoProofs --------------------------
(***************************************************************************)
(* RestoredIsChosen, NothingDestroyed and GoneComesBack for every value of *)
(* the constants: any number of processes, files, lines, snapshots and     *)
(* kills, also when copies out of a snapshot fail.  The first holds when   *)
(* copies into one fail, too; the others do not: restore() does not look   *)
(* at whether it has its safety snapshot.                                  *)
(*                                                                         *)
(* A call that is still alone has the project's directories and the        *)
(* snapshots to itself, but for appends.  GoalInv says, for each of its    *)
(* control states, where what it was asked to restore is to be found.      *)
(*                                                                         *)
(* The snapshots taken here have names with a positive second, and stay:   *)
(* fewer are taken than are kept, and none is taken with a name that is    *)
(* before another (NamesInv, CountInv).  What a restore moves away is then *)
(* in a snapshot, in its own when it ran alone (AloneSafe), in some one    *)
(* when it did not (StoreSafe).                                            *)
(*                                                                         *)
(* At the end, DerivedAgree of DerivedIndexes: each sidecar is that of the *)
(* store without what is appended and still to be added to it (SidesInv).  *)
(***************************************************************************)
EXTENDS MemoryUndo, DerivedIndexes, SetLemmas

Taking == {"name", "copyin", "prune"}
Restoring == {"stage", "copyout", "aside", "swap", "drop"}
Fields == {"op", "chosen", "name", "todo", "doomed", "goal", "base", "alone"}

ShapeInv ==
  /\ DOMAIN pc = Users /\ pc = [u \in Users |-> pc[u]]
  /\ DOMAIN call = Users
  /\ \A u \in Users : DOMAIN call[u] = Fields
  /\ \A u \in Users : pc[u] \in Restoring => call[u].op = "undo"

AloneInv ==
  \A u \in Users : call[u].alone =>
    Active(u) /\ \A v \in Users \ {u} : ~Active(v)

Intact(u) == Lines(snaps[call[u].chosen]) = call[u].goal

(* What is staged so far is what those files hold in the chosen snapshot.     *)
StagedSoFar(u) ==
  LET chosen == snaps[call[u].chosen] IN
  /\ call[u].chosen \in DOMAIN snaps /\ "restoring" \in DOMAIN dirs
  /\ call[u].todo \subseteq DOMAIN chosen
  /\ DOMAIN dirs["restoring"] = DOMAIN chosen \ call[u].todo
  /\ \A f \in DOMAIN dirs["restoring"] : dirs["restoring"][f] = chosen[f]

Goal(u) ==
  /\ pc[u] \in Taking /\ call[u].op = "undo" => call[u].chosen \in DOMAIN snaps /\ Intact(u)
  /\ /\ pc[u] = "remove" /\ call[u].op = "undo"
     /\ call[u].chosen \in DOMAIN snaps \ call[u].doomed
     => Intact(u)
  /\ pc[u] = "stage" /\ call[u].chosen \in DOMAIN snaps => Intact(u)
  /\ pc[u] = "copyout" => Intact(u) /\ StagedSoFar(u)
  /\ pc[u] \in {"aside", "swap"} =>
       "restoring" \in DOMAIN dirs /\ Lines(dirs["restoring"]) = call[u].goal
  /\ pc[u] = "drop" =>
       "store" \in DOMAIN dirs /\ call[u].goal \subseteq Stored /\ Stored \ call[u].goal \subseteq late

GoalInv == \A u \in Users : call[u].alone => Goal(u)

IInv == ShapeInv /\ AloneInv /\ GoalInv

-----------------------------------------------------------------------------
LEMMA InitHolds == Init => IInv
  BY DEF Init, IInv, ShapeInv, AloneInv, GoalInv, NoCall, Asked, Fields, Restoring

LEMMA ImpliesChosen == IInv => RestoredIsChosen
  BY DEF IInv, GoalInv, Goal, RestoredIsChosen

(* A step of a running call is seen by nobody who is alone: only its own part *)
(* of the invariant needs to be proved.                                       *)
LEMMA OneCaller ==
  ASSUME NEW u \in Users, IInv, Active(u),
         NEW l, Goto(u, l),
         NEW c, Keep(u, c),
         DOMAIN c = Fields,
         l \in Restoring => c.op = "undo",
         c.alone => call[u].alone /\ l # "idle" /\ Goal(u)'
  PROVE  IInv'
<1>1. /\ pc'[u] = l /\ call'[u] = c
      /\ \A w \in Users \ {u} : pc'[w] = pc[w] /\ call'[w] = call[w]
      /\ DOMAIN pc' = Users /\ DOMAIN call' = Users /\ pc' = [w \in Users |-> pc'[w]]
  BY DEF IInv, ShapeInv, Goto, Keep
<1>2. ShapeInv'
  BY <1>1 DEF IInv, ShapeInv
<1>3. \A w \in Users \ {u} : ~call[w].alone
  BY DEF IInv, AloneInv
<1>4. AloneInv'
  BY <1>1, <1>3 DEF IInv, AloneInv, Active
<1>5. GoalInv'
  BY <1>1, <1>3 DEF GoalInv
<1> QED
  BY <1>2, <1>4, <1>5 DEF IInv

(* The same for a step that leaves `call` as it is.                           *)
LEMMA SameCall ==
  ASSUME NEW u \in Users, IInv, Active(u),
         NEW l, Goto(u, l), call' = call,
         l \in Restoring => call[u].op = "undo",
         call[u].alone => l # "idle" /\ Goal(u)'
  PROVE  IInv'
<1>1. /\ pc'[u] = l
      /\ \A w \in Users \ {u} : pc'[w] = pc[w]
      /\ DOMAIN pc' = Users /\ pc' = [w \in Users |-> pc'[w]]
  BY DEF IInv, ShapeInv, Goto
<1>2. \A w \in Users \ {u} : ~call[w].alone
  BY DEF IInv, AloneInv
<1>3. ShapeInv' /\ AloneInv'
  BY <1>1, <1>2 DEF IInv, ShapeInv, AloneInv, Active
<1>4. GoalInv'
  BY <1>1, <1>2 DEF GoalInv
<1> QED
  BY <1>3, <1>4 DEF IInv

LEMMA Returning ==
  ASSUME NEW u \in Users, IInv, Active(u), Return(u)
  PROVE  IInv'
<1>1. Goto(u, "idle") /\ Keep(u, NoCall)
  BY DEF Return
<1>2. DOMAIN NoCall = Fields /\ ~NoCall.alone /\ "idle" \notin Restoring
  BY DEF NoCall, Asked, Fields, Restoring
<1> QED
  BY <1>1, <1>2, OneCaller

(* take() returned to a restore(), or to the caller.                          *)
LEMMA AfterTake ==
  ASSUME NEW u \in Users, IInv, Active(u), Taken(u), snaps' = snaps,
         call[u].alone /\ call[u].op = "undo" =>
           (call[u].chosen \in DOMAIN snaps => Intact(u))
  PROVE  IInv'
<1>1. CASE call[u].op = "undo"
  <2> DEFINE c == [call[u] EXCEPT !.todo = {}, !.doomed = {}]
  <2>1. Goto(u, "stage") /\ Keep(u, c)
    BY <1>1 DEF Taken
  <2>2. DOMAIN c = Fields /\ c.op = call[u].op /\ c.alone = call[u].alone
        /\ c.chosen = call[u].chosen /\ c.goal = call[u].goal
    BY DEF IInv, ShapeInv, Fields
  <2>3. pc'[u] = "stage" /\ call'[u] = c
    BY <2>1 DEF IInv, ShapeInv, Goto, Keep
  <2>4. call[u].alone => Goal(u)'
    BY <1>1, <2>2, <2>3 DEF Goal, Intact, Taking
  <2> HIDE DEF c
  <2> QED
    BY <1>1, <2>1, <2>2, <2>4, OneCaller
<1>2. CASE call[u].op # "undo"
  BY <1>2, Returning DEF Taken
<1> QED
  BY <1>1, <1>2

-----------------------------------------------------------------------------
LEMMA BeginKeeps ==
  ASSUME NEW u \in Users, IInv, Begin(u)
  PROVE  IInv'
<1> DEFINE alone == \A v \in Users : ~Active(v)
<1>1. PICK mine \in {Asked("snapshot", NoName, {}, alone)}
                    \cup {Asked("undo", n, Lines(snaps[n]), alone) : n \in DOMAIN snaps} :
        call' = [v \in Users |-> IF v = u THEN mine ELSE [call[v] EXCEPT !.alone = FALSE]]
  BY DEF Begin
<1> HIDE DEF alone
<1>2. DOMAIN mine = Fields /\ mine.alone = alone
      /\ (mine.op = "undo" => mine.chosen \in DOMAIN snaps /\ mine.goal = Lines(snaps[mine.chosen]))
  <2>1. CASE mine = Asked("snapshot", NoName, {}, alone)
    BY <2>1 DEF Asked, Fields
  <2>2. ASSUME NEW n \in DOMAIN snaps, mine = Asked("undo", n, Lines(snaps[n]), alone)
        PROVE  DOMAIN mine = Fields /\ mine.alone = alone
               /\ mine.chosen = n /\ mine.goal = Lines(snaps[n])
    BY <2>2 DEF Asked, Fields
  <2> QED
    BY <1>1, <2>1, <2>2 DEF Asked
<1>3. /\ pc'[u] = "name" /\ call'[u] = mine
      /\ DOMAIN call' = Users /\ DOMAIN pc' = Users /\ pc' = [w \in Users |-> pc'[w]]
      /\ \A w \in Users \ {u} : pc'[w] = pc[w] /\ call'[w] = [call[w] EXCEPT !.alone = FALSE]
  BY <1>1 DEF IInv, ShapeInv, Begin, Goto
<1>4. \A w \in Users \ {u} :
        DOMAIN call'[w] = Fields /\ ~call'[w].alone /\ call'[w].op = call[w].op
  BY <1>3 DEF IInv, ShapeInv, Fields
<1>5. ShapeInv'
  BY <1>2, <1>3, <1>4 DEF IInv, ShapeInv, Restoring
<1>6. AloneInv'
  <2> SUFFICES ASSUME NEW w \in Users, call'[w].alone
               PROVE  /\ pc'[w] # "idle"
                      /\ \A v \in Users \ {w} : pc'[v] = "idle"
    BY DEF AloneInv, Active
  <2>1. w = u
    BY <1>4
  <2>2. alone
    BY <1>2, <1>3, <2>1
  <2> QED
    BY <1>3, <2>1, <2>2 DEF alone, Active
<1>7. Goal(u)'
  <2>1. snaps' = snaps
    BY DEF Begin
  <2> QED
    BY <1>2, <1>3, <2>1 DEF Goal, Intact
<1>8. GoalInv'
  BY <1>4, <1>7 DEF GoalInv
<1> QED
  BY <1>5, <1>6, <1>8 DEF IInv

LEMMA ChooseNameKeeps ==
  ASSUME NEW u \in Users, IInv, ChooseName(u)
  PROVE  IInv'
<1>1. Active(u) /\ snaps' = snaps /\ pc[u] = "name"
  BY DEF ChooseName, Active
<1>2. call[u].alone /\ call[u].op = "undo" => call[u].chosen \in DOMAIN snaps /\ Intact(u)
  BY <1>1 DEF IInv, GoalInv, Goal, Taking
<1>3. CASE "store" \in DOMAIN dirs
  <2>1. PICK t \in {clock, clock + 1} :
          Goto(u, "copyin")
          /\ Keep(u, [call[u] EXCEPT !.name = <<t, Free(t)>>, !.todo = DOMAIN dirs["store"], !.base = Stored])
    BY <1>3 DEF ChooseName
  <2> DEFINE c == [call[u] EXCEPT !.name = <<t, Free(t)>>, !.todo = DOMAIN dirs["store"], !.base = Stored]
  <2>2. DOMAIN c = Fields /\ c.op = call[u].op /\ c.alone = call[u].alone
        /\ c.chosen = call[u].chosen /\ c.goal = call[u].goal
    BY DEF IInv, ShapeInv, Fields
  <2>5. Goto(u, "copyin") /\ Keep(u, c)
    BY <2>1
  <2> HIDE DEF c
  <2>3. pc'[u] = "copyin" /\ call'[u] = c
    BY <2>5 DEF IInv, ShapeInv, Goto, Keep
  <2>4. call[u].alone => Goal(u)'
    BY <1>1, <1>2, <2>2, <2>3 DEF Goal, Intact
  <2> QED
    BY <1>1, <2>5, <2>2, <2>4, OneCaller DEF Restoring
<1>4. CASE "store" \notin DOMAIN dirs
  BY <1>1, <1>2, <1>4, AfterTake DEF ChooseName
<1> QED
  BY <1>3, <1>4

LEMMA CopyInKeeps ==
  ASSUME NEW u \in Users, IInv, CopyIn(u)
  PROVE  IInv'
<1>1. Active(u) /\ snaps' = snaps /\ pc[u] = "copyin"
  BY DEF CopyIn, Active
<1>2. call[u].alone /\ call[u].op = "undo" => call[u].chosen \in DOMAIN snaps /\ Intact(u)
  BY <1>1 DEF IInv, GoalInv, Goal, Taking
<1>3. PICK f \in call[u].todo :
        (Keep(u, [call[u] EXCEPT !.todo = @ \ {f}]) /\ UNCHANGED pc) \/ Taken(u)
  BY DEF CopyIn
<1>4. CASE Keep(u, [call[u] EXCEPT !.todo = @ \ {f}]) /\ UNCHANGED pc
  <2> DEFINE c == [call[u] EXCEPT !.todo = @ \ {f}]
  <2>1. DOMAIN c = Fields /\ c.op = call[u].op /\ c.alone = call[u].alone
        /\ c.chosen = call[u].chosen /\ c.goal = call[u].goal
    BY DEF IInv, ShapeInv, Fields
  <2>2. Goto(u, "copyin") /\ Keep(u, c)
    BY <1>1, <1>4 DEF Goto, IInv, ShapeInv
  <2> HIDE DEF c
  <2>3. pc'[u] = "copyin" /\ call'[u] = c
    BY <2>2 DEF IInv, ShapeInv, Goto, Keep
  <2>4. call[u].alone => Goal(u)'
    BY <1>1, <1>2, <2>1, <2>3 DEF Goal, Intact
  <2> QED
    BY <1>1, <2>1, <2>2, <2>4, OneCaller DEF Restoring
<1>5. CASE Taken(u)
  BY <1>1, <1>2, <1>5, AfterTake
<1> QED
  BY <1>3, <1>4, <1>5

(* The name that is published is not that of a snapshot.                      *)
LEMMA PublishKeeps ==
  ASSUME NEW u \in Users, IInv, Publish(u)
  PROVE  IInv'
<1>1. Active(u) /\ pc[u] = "copyin"
  BY DEF Publish, Active
<1>2. call[u].alone /\ call[u].op = "undo" => call[u].chosen \in DOMAIN snaps /\ Intact(u)
  BY <1>1 DEF IInv, GoalInv, Goal, Taking
<1> DEFINE name == call[u].name
<1>3. CASE name \in DOMAIN partial /\ name \notin DOMAIN snaps
  <2>1. snaps' = With(snaps, name, partial[name]) /\ Goto(u, "prune") /\ call' = call
    BY <1>3 DEF Publish
  <2>2. \A n \in DOMAIN snaps : n \in DOMAIN snaps' /\ snaps'[n] = snaps[n]
    BY <1>3, <2>1 DEF With
  <2>3. pc'[u] = "prune"
    BY <2>1 DEF IInv, ShapeInv, Goto
  <2>4. call[u].alone => Goal(u)'
    BY <1>2, <2>1, <2>2, <2>3 DEF Goal, Intact
  <2> QED
    BY <1>1, <2>1, <2>4, SameCall DEF Restoring
<1>4. CASE ~(name \in DOMAIN partial /\ name \notin DOMAIN snaps)
  <2>1. Taken(u) /\ snaps' = snaps
    BY <1>4 DEF Publish
  <2> QED
    BY <1>1, <1>2, <2>1, AfterTake
<1> QED
  BY <1>3, <1>4

LEMMA ListOldKeeps ==
  ASSUME NEW u \in Users, IInv, ListOld(u)
  PROVE  IInv'
<1>1. Active(u) /\ snaps' = snaps /\ pc[u] = "prune"
  BY DEF ListOld, Active
<1>2. call[u].alone /\ call[u].op = "undo" => call[u].chosen \in DOMAIN snaps /\ Intact(u)
  BY <1>1 DEF IInv, GoalInv, Goal, Taking
<1> DEFINE c == [call[u] EXCEPT !.doomed = Beyond(DOMAIN snaps)]
<1>3. DOMAIN c = Fields /\ c.op = call[u].op /\ c.alone = call[u].alone
      /\ c.chosen = call[u].chosen /\ c.goal = call[u].goal
  BY DEF IInv, ShapeInv, Fields
<1>4. Goto(u, "remove") /\ Keep(u, c)
  BY DEF ListOld
<1> HIDE DEF c
<1>5. pc'[u] = "remove" /\ call'[u] = c
  BY <1>4 DEF IInv, ShapeInv, Goto, Keep
<1>6. call[u].alone => Goal(u)'
  BY <1>1, <1>2, <1>3, <1>5 DEF Goal, Intact, Taking
<1> QED
  BY <1>1, <1>3, <1>4, <1>6, OneCaller DEF Restoring

(* rmtree touches only what was listed; when the chosen snapshot was, it is    *)
(* gone at the end, and restore() will not find it.                           *)
LEMMA RemoveKeeps ==
  ASSUME NEW u \in Users, IInv, RemoveOld(u)
  PROVE  IInv'
<1>1. Active(u) /\ pc[u] = "remove" /\ pc[u] \notin Restoring
  BY DEF RemoveOld, Active, Restoring
<1> DEFINE chosen == call[u].chosen
<1>2. call[u].alone /\ call[u].op = "undo" =>
        (chosen \in DOMAIN snaps \ call[u].doomed => Intact(u))
  BY <1>1 DEF IInv, GoalInv, Goal
<1>3. CASE call[u].doomed = {}
  BY <1>1, <1>2, <1>3, AfterTake DEF RemoveOld
<1>4. CASE call[u].doomed # {}
  <2>1. PICK n \in call[u].doomed :
          /\ pc' = pc
          /\ \/ /\ \E f \in DOMAIN snaps[n] : snaps' = [snaps EXCEPT ![n] = Without(@, f)]
                /\ call' = call
             \/ /\ snaps' = Without(snaps, n)
                /\ Keep(u, [call[u] EXCEPT !.doomed = @ \ {n}])
    BY <1>4 DEF RemoveOld
  <2>2. Goto(u, "remove")
    BY <1>1, <2>1 DEF Goto, IInv, ShapeInv
  <2>3. pc'[u] = "remove"
    BY <1>1, <2>1
  <2>4. CASE \E f \in DOMAIN snaps[n] : snaps' = [snaps EXCEPT ![n] = Without(@, f)] /\ call' = call
    <3>1. DOMAIN snaps' = DOMAIN snaps /\ \A m \in DOMAIN snaps \ {n} : snaps'[m] = snaps[m]
      BY <2>4
    <3>2. call[u].alone => Goal(u)'
      BY <1>2, <2>3, <2>4, <3>1 DEF Goal, Intact, Taking
    <3> QED
      BY <1>1, <2>2, <2>4, <3>2, SameCall
  <2>5. CASE snaps' = Without(snaps, n) /\ Keep(u, [call[u] EXCEPT !.doomed = @ \ {n}])
    <3> DEFINE c == [call[u] EXCEPT !.doomed = @ \ {n}]
    <3>1. DOMAIN c = Fields /\ c.op = call[u].op /\ c.alone = call[u].alone
          /\ c.chosen = call[u].chosen /\ c.goal = call[u].goal /\ c.doomed = call[u].doomed \ {n}
      BY DEF IInv, ShapeInv, Fields
    <3>2. Keep(u, c)
      BY <2>5
    <3> HIDE DEF c
    <3>3. call'[u] = c
      BY <3>2 DEF IInv, ShapeInv, Keep
    <3>4. DOMAIN snaps' = DOMAIN snaps \ {n} /\ \A m \in DOMAIN snaps \ {n} : snaps'[m] = snaps[m]
      BY <2>5 DEF Without
    <3>5. call[u].alone => Goal(u)'
      BY <1>2, <2>3, <3>1, <3>3, <3>4 DEF Goal, Intact, Taking
    <3> QED
      BY <1>1, <2>2, <3>1, <3>2, <3>5, OneCaller DEF Restoring
  <2> QED
    BY <2>1, <2>4, <2>5
<1> QED
  BY <1>3, <1>4

LEMMA StageKeeps ==
  ASSUME NEW u \in Users, IInv, Stage(u)
  PROVE  IInv'
<1>1. Active(u) /\ pc[u] = "stage" /\ snaps' = snaps /\ call[u].op = "undo"
  BY DEF Stage, Active, IInv, ShapeInv, Restoring
<1> DEFINE chosen == call[u].chosen
<1>2. CASE chosen \in DOMAIN snaps
  <2> DEFINE c == [call[u] EXCEPT !.todo = DOMAIN snaps[chosen]]
  <2>1. DOMAIN c = Fields /\ c.op = call[u].op /\ c.alone = call[u].alone
        /\ c.chosen = chosen /\ c.goal = call[u].goal /\ c.todo = DOMAIN snaps[chosen]
    BY DEF IInv, ShapeInv, Fields
  <2>2. Goto(u, "copyout") /\ Keep(u, c) /\ dirs' = With(dirs, "restoring", Empty)
    BY <1>2 DEF Stage
  <2> HIDE DEF c
  <2>3. pc'[u] = "copyout" /\ call'[u] = c
    BY <2>2 DEF IInv, ShapeInv, Goto, Keep
  <2>4. "restoring" \in DOMAIN dirs' /\ DOMAIN dirs'["restoring"] = {}
    BY <2>2 DEF With, Empty
  <2>5. ASSUME call[u].alone PROVE Goal(u)'
    <3>1. Intact(u)
      BY <1>1, <1>2, <2>5 DEF IInv, GoalInv, Goal
    <3> QED
      BY <1>1, <1>2, <2>1, <2>3, <2>4, <3>1 DEF Goal, Intact, StagedSoFar, Taking
  <2> QED
    BY <1>1, <2>1, <2>2, <2>5, OneCaller
<1>3. CASE chosen \notin DOMAIN snaps
  BY <1>1, <1>3, Returning DEF Stage
<1> QED
  BY <1>2, <1>3

LEMMA CopyOutKeeps ==
  ASSUME NEW u \in Users, IInv, CopyOut(u)
  PROVE  IInv'
<1>1. Active(u) /\ pc[u] = "copyout" /\ snaps' = snaps /\ call[u].op = "undo"
  BY DEF CopyOut, Active, IInv, ShapeInv, Restoring
<1> DEFINE n == call[u].chosen
<1>2. PICK f \in call[u].todo :
        \/ /\ dirs' = [dirs EXCEPT !["restoring"] = With(@, f, snaps[n][f])]
           /\ Keep(u, [call[u] EXCEPT !.todo = @ \ {f}])
           /\ UNCHANGED pc
        \/ Return(u)
  BY DEF CopyOut
<1>3. CASE /\ dirs' = [dirs EXCEPT !["restoring"] = With(@, f, snaps[n][f])]
           /\ Keep(u, [call[u] EXCEPT !.todo = @ \ {f}])
           /\ UNCHANGED pc
  <2> DEFINE c == [call[u] EXCEPT !.todo = @ \ {f}]
  <2>1. DOMAIN c = Fields /\ c.op = call[u].op /\ c.alone = call[u].alone
        /\ c.chosen = n /\ c.goal = call[u].goal /\ c.todo = call[u].todo \ {f}
    BY DEF IInv, ShapeInv, Fields
  <2>2. Goto(u, "copyout") /\ Keep(u, c)
    BY <1>1, <1>3 DEF Goto, IInv, ShapeInv
  <2> HIDE DEF c
  <2>3. pc'[u] = "copyout" /\ call'[u] = c
    BY <2>2 DEF IInv, ShapeInv, Goto, Keep
  <2>4. ASSUME call[u].alone PROVE Goal(u)'
    <3>1. Intact(u) /\ StagedSoFar(u)
      BY <1>1, <2>4 DEF IInv, GoalInv, Goal
    <3>2. /\ "restoring" \in DOMAIN dirs'
          /\ dirs'["restoring"] = With(dirs["restoring"], f, snaps[n][f])
      BY <1>3, <3>1 DEF StagedSoFar
    <3>3. /\ DOMAIN dirs'["restoring"] = DOMAIN dirs["restoring"] \cup {f}
          /\ \A g \in DOMAIN dirs'["restoring"] : dirs'["restoring"][g] = snaps[n][g]
      BY <3>1, <3>2 DEF With, StagedSoFar
    <3>4. StagedSoFar(u)'
      BY <1>1, <2>1, <2>3, <3>1, <3>2, <3>3 DEF StagedSoFar
    <3> QED
      BY <1>1, <2>1, <2>3, <3>1, <3>4 DEF Goal, Intact, Taking
  <2> QED
    BY <1>1, <2>1, <2>2, <2>4, OneCaller
<1>4. CASE Return(u)
  BY <1>1, <1>4, Returning
<1> QED
  BY <1>2, <1>3, <1>4

(* All files are copied: the staging directory is the chosen snapshot.        *)
LEMMA ClearKeeps ==
  ASSUME NEW u \in Users, IInv, Clear(u)
  PROVE  IInv'
<1>1. Active(u) /\ pc[u] = "copyout" /\ call[u].todo = {} /\ call' = call /\ call[u].op = "undo"
      /\ Goto(u, "aside") /\ dirs' = Without(dirs, "previous")
  BY DEF Clear, Active, IInv, ShapeInv, Restoring
<1>2. pc'[u] = "aside"
  BY <1>1 DEF IInv, ShapeInv, Goto
<1>3. ASSUME call[u].alone PROVE Goal(u)'
  <2> DEFINE staged == dirs["restoring"]
             chosen == snaps[call[u].chosen]
  <2>1. /\ Lines(chosen) = call[u].goal /\ "restoring" \in DOMAIN dirs
        /\ DOMAIN staged = DOMAIN chosen /\ \A f \in DOMAIN staged : staged[f] = chosen[f]
    BY <1>1, <1>3 DEF IInv, GoalInv, Goal, Intact, StagedSoFar
  <2>2. Lines(staged) = Lines(chosen)
    BY <2>1 DEF Lines
  <2>3. "restoring" \in DOMAIN dirs' /\ dirs'["restoring"] = staged
    BY <1>1, <2>1 DEF Without
  <2> QED
    BY <1>1, <1>2, <2>1, <2>2, <2>3 DEF Goal, Taking
<1> QED
  BY <1>1, <1>3, SameCall

LEMMA AsideKeeps ==
  ASSUME NEW u \in Users, IInv, Aside(u)
  PROVE  IInv'
<1>1. Active(u) /\ pc[u] = "aside" /\ call[u].op = "undo"
  BY DEF Aside, Active, IInv, ShapeInv, Restoring
<1>2. CASE Goto(u, "swap") /\ call' = call
           /\ (dirs' = dirs \/ dirs' = With(Without(dirs, "store"), "previous", dirs["store"]))
  <2>1. pc'[u] = "swap"
    BY <1>2 DEF IInv, ShapeInv, Goto
  <2>2. ASSUME call[u].alone PROVE Goal(u)'
    <3>1. "restoring" \in DOMAIN dirs /\ Lines(dirs["restoring"]) = call[u].goal
      BY <1>1, <2>2 DEF IInv, GoalInv, Goal
    <3>2. "restoring" \in DOMAIN dirs' /\ dirs'["restoring"] = dirs["restoring"]
      BY <1>2, <3>1 DEF With, Without
    <3> QED
      BY <1>2, <2>1, <3>1, <3>2 DEF Goal, Taking
  <2> QED
    BY <1>1, <1>2, <2>2, SameCall
<1>3. CASE Return(u)
  BY <1>1, <1>3, Returning
<1> QED
  BY <1>2, <1>3 DEF Aside

LEMMA SwapKeeps ==
  ASSUME NEW u \in Users, IInv, Swap(u)
  PROVE  IInv'
<1>1. Active(u) /\ pc[u] = "swap" /\ call[u].op = "undo"
  BY DEF Swap, Active, IInv, ShapeInv, Restoring
<1>2. CASE "restoring" \in DOMAIN dirs /\ ~Occupied("store")
  <2>1. Goto(u, "drop") /\ call' = call
        /\ dirs' = With(Without(dirs, "restoring"), "store", dirs["restoring"])
    BY <1>2 DEF Swap
  <2>2. pc'[u] = "drop"
    BY <2>1 DEF IInv, ShapeInv, Goto
  <2>3. ASSUME call[u].alone PROVE Goal(u)'
    <3>1. Lines(dirs["restoring"]) = call[u].goal
      BY <1>1, <2>3 DEF IInv, GoalInv, Goal
    <3>2. "store" \in DOMAIN dirs' /\ dirs'["store"] = dirs["restoring"]
      BY <2>1 DEF With
    <3>3. Stored' = call[u].goal
      BY <3>1, <3>2 DEF Stored
    <3> QED
      BY <2>1, <2>2, <3>2, <3>3 DEF Goal, Taking
  <2> QED
    BY <1>1, <2>1, <2>3, SameCall
<1>3. CASE ~("restoring" \in DOMAIN dirs /\ ~Occupied("store"))
  BY <1>1, <1>3, Returning DEF Swap
<1> QED
  BY <1>2, <1>3

(* An append adds its line to the store, and to `late` when an undo runs.     *)
LEMMA AppendKeeps ==
  ASSUME IInv, AppendLine
  PROVE  IInv'
<1> DEFINE store == IF "store" \in DOMAIN dirs THEN dirs["store"] ELSE Empty
           old(l) == IF Home[l] \in DOMAIN store THEN store[Home[l]] ELSE {}
<1>1. PICK l \in Line \ acked :
        /\ dirs' = With(dirs, "store", With(store, Home[l], old(l) \cup {l}))
        /\ late' = IF \E u \in Users : call[u].op = "undo" /\ pc[u] \notin {"idle", "name"}
                   THEN late \cup {l} ELSE late
        /\ UNCHANGED <<snaps, pc, call>>
  BY DEF AppendLine
<1>2. \A p \in DOMAIN dirs \ {"store"} : p \in DOMAIN dirs' /\ dirs'[p] = dirs[p]
  BY <1>1 DEF With
<1>3. ASSUME "store" \in DOMAIN dirs
      PROVE  "store" \in DOMAIN dirs' /\ Stored' = Stored \cup {l}
  <2>1. "store" \in DOMAIN dirs' /\ dirs'["store"] = With(dirs["store"], Home[l], old(l) \cup {l})
    BY <1>1, <1>3 DEF With
  <2> DEFINE d == dirs["store"]
             e == With(d, Home[l], old(l) \cup {l})
  <2>2. DOMAIN e = DOMAIN d \cup {Home[l]} /\ e[Home[l]] = old(l) \cup {l}
        /\ \A f \in DOMAIN d \ {Home[l]} : e[f] = d[f]
    BY DEF With
  <2>3. old(l) = IF Home[l] \in DOMAIN d THEN d[Home[l]] ELSE {}
    BY <1>3
  <2> HIDE DEF e, d, old
  <2>4. Lines(e) = Lines(d) \cup {l}
    BY <2>2, <2>3 DEF Lines
  <2> QED
    BY <1>3, <2>1, <2>4 DEF Stored, d, e
<1>4. ASSUME NEW u \in Users, call'[u].alone PROVE Goal(u)'
  <2>1. Goal(u) /\ pc'[u] = pc[u] /\ call'[u] = call[u] /\ snaps' = snaps
    BY <1>1, <1>4 DEF IInv, GoalInv
  <2>2. CASE pc[u] = "drop"
    <3>1. late' = late \cup {l}
      BY <1>1, <2>2 DEF IInv, ShapeInv, Restoring
    <3> QED
      BY <1>3, <2>1, <2>2, <3>1 DEF Goal, Taking
  <2>3. CASE pc[u] # "drop"
    BY <1>2, <2>1, <2>3 DEF Goal, Intact, StagedSoFar
  <2> QED
    BY <2>2, <2>3
<1>5. ShapeInv' /\ AloneInv'
  BY <1>1 DEF IInv, ShapeInv, AloneInv, Active
<1> QED
  BY <1>4, <1>5 DEF IInv, GoalInv

LEMMA NextKeeps ==
  ASSUME IInv, [Next]_vars
  PROVE  IInv'
<1>1. ASSUME NEW u \in Users, Drop(u) \/ Crash(u)
      PROVE  IInv'
  BY <1>1, Returning DEF Drop, Crash, Active
<1>2. CASE UNCHANGED vars
  <2>1. pc' = pc /\ call' = call /\ snaps' = snaps /\ dirs' = dirs /\ late' = late
    BY <1>2 DEF vars, history
  <2>2. ShapeInv' /\ AloneInv'
    BY <2>1 DEF IInv, ShapeInv, AloneInv, Active
  <2>3. GoalInv'
    BY <2>1 DEF IInv, GoalInv, Goal, Intact, StagedSoFar, Stored
  <2> QED
    BY <2>2, <2>3 DEF IInv
<1>3. CASE Next
  BY <1>1, <1>3, BeginKeeps, ChooseNameKeeps, CopyInKeeps, PublishKeeps, ListOldKeeps, RemoveKeeps,
     StageKeeps, CopyOutKeeps, ClearKeeps, AsideKeeps, SwapKeeps, AppendKeeps DEF Next
<1> QED
  BY <1>2, <1>3

(* A restore that succeeds and runs alone makes the store what the chosen     *)
(* snapshot held, but for lines appended meanwhile (restore, lines 277-330).  *)
THEOREM RestoresWhatWasChosen == Spec => []RestoredIsChosen
<1>1. Spec => []IInv
  BY InitHolds, NextKeeps, PTL DEF Spec
<1> QED
  BY <1>1, ImpliesChosen, PTL

-----------------------------------------------------------------------------
(* NothingDestroyed and GoneComesBack.                                        *)

Secured == {"prune", "remove", "stage", "copyout", "aside"}
Staged == {"copyout", "aside", "swap"}
Undoing(u) == call[u].op = "undo"

New == {n \in DOMAIN snaps : n[1] > 0}
Underway == {u \in Users : pc[u] \in {"name", "copyin"}}
Begun(n) == \A k \in 0 .. n[2] - 1 : <<n[1], k>> \in DOMAIN snaps
LatestIs(n) == \A m \in DOMAIN snaps \ {n} : Before(m, n)

NamesInv ==
  /\ clock \in Nat \ {0}
  /\ DOMAIN snaps \subseteq Name /\ IsFiniteSet(DOMAIN snaps)
  /\ \A n \in DOMAIN snaps : n[1] <= clock
  /\ \A n \in New : Begun(n)
  /\ \A u \in Users : pc[u] = "copyin" =>
       call[u].name \in Name /\ call[u].name[1] \in 1 .. clock /\ Begun(call[u].name)
  /\ \A u \in Users : \A n \in call[u].doomed : n[1] = 0

CountInv ==
  /\ IsFiniteSet(Underway)
  /\ calls \in Nat /\ calls <= MaxCalls
  /\ Cardinality(New) + Cardinality(Underway) <= calls

(* A step of u leaves the other calls where they are, and none of them is     *)
(* alone.                                                                     *)
Left(u) ==
  \A w \in Users \ {u} :
    /\ pc'[w] = pc[w]
    /\ call'[w].op = call[w].op /\ call'[w].name = call[w].name
    /\ call'[w].todo = call[w].todo /\ call'[w].doomed = call[w].doomed
    /\ ~call'[w].alone

LEMMA Moved ==
  ASSUME NEW u \in Users, IInv, Active(u), NEW l, Goto(u, l), NEW c, Keep(u, c)
  PROVE  pc'[u] = l /\ call'[u] = c /\ Left(u)
<1>1. pc'[u] = l /\ call'[u] = c /\ \A w \in Users \ {u} : pc'[w] = pc[w] /\ call'[w] = call[w]
  BY DEF IInv, ShapeInv, Goto, Keep
<1>2. \A w \in Users \ {u} : ~call[w].alone
  BY DEF IInv, AloneInv
<1> QED
  BY <1>1, <1>2 DEF Left

LEMMA MovedSameCall ==
  ASSUME NEW u \in Users, IInv, Active(u), NEW l, Goto(u, l), call' = call
  PROVE  pc'[u] = l /\ call'[u] = call[u] /\ Left(u)
<1>1. pc'[u] = l /\ \A w \in Users \ {u} : pc'[w] = pc[w]
  BY DEF IInv, ShapeInv, Goto
<1>2. \A w \in Users \ {u} : ~call[w].alone
  BY DEF IInv, AloneInv
<1> QED
  BY <1>1, <1>2 DEF Left

LEMMA MovedAway ==
  ASSUME NEW u \in Users, IInv, Active(u), Return(u)
  PROVE  /\ pc'[u] = "idle" /\ call'[u] = NoCall /\ Left(u)
         /\ NoCall.doomed = {} /\ ~NoCall.alone /\ NoCall.op = "snapshot"
BY Moved DEF Return, NoCall, Asked

LEMMA MovedTaken ==
  ASSUME NEW u \in Users, IInv, Active(u), Taken(u)
  PROVE  /\ Left(u) /\ call'[u].doomed = {}
         /\ pc'[u] \in {"stage", "idle"}
         /\ pc'[u] = "stage" => /\ call[u].op = "undo" /\ call'[u].name = call[u].name
                                /\ call'[u].alone = call[u].alone /\ call'[u].op = "undo"
         /\ pc'[u] = "idle" => ~call'[u].alone /\ call'[u].op = "snapshot"
<1>1. CASE call[u].op = "undo"
  <2> DEFINE c == [call[u] EXCEPT !.todo = {}, !.doomed = {}]
  <2>1. Goto(u, "stage") /\ Keep(u, c)
    BY <1>1 DEF Taken
  <2>2. c.op = call[u].op /\ c.alone = call[u].alone /\ c.name = call[u].name /\ c.doomed = {}
    BY DEF IInv, ShapeInv, Fields
  <2> HIDE DEF c
  <2>3. pc'[u] = "stage" /\ call'[u] = c /\ Left(u)
    BY <2>1, Moved
  <2> QED
    BY <1>1, <2>2, <2>3
<1>2. CASE call[u].op # "undo"
  BY <1>2, MovedAway DEF Taken
<1> QED
  BY <1>1, <1>2

-----------------------------------------------------------------------------
(* Names.                                                                     *)

(* There is a free suffix, and all before it are taken.                       *)
LEMMA FreeIs ==
  ASSUME IsFiniteSet(DOMAIN snaps), NEW t
  PROVE  /\ Free(t) \in Nat
         /\ <<t, Free(t)>> \notin DOMAIN snaps
         /\ \A k \in 0 .. Free(t) - 1 : <<t, k>> \in DOMAIN snaps
<1> DEFINE S == {k \in Nat : k > 0 /\ <<t, k - 1>> \in DOMAIN snaps}
           f == [k \in S |-> <<t, k - 1>>]
           Fits(n) == <<t, n>> \notin DOMAIN snaps /\ \A k \in 0 .. n - 1 : <<t, k>> \in DOMAIN snaps
<1>1. f \in Injection(S, DOMAIN snaps)
  <2>1. f \in [S -> DOMAIN snaps]
    OBVIOUS
  <2>2. \A a, b \in S : f[a] = f[b] => a = b
    OBVIOUS
  <2> HIDE DEF f, S
  <2> QED
    BY <2>1, <2>2 DEF Injection, IsInjective
<1>2. IsFiniteSet(S) /\ Cardinality(S) <= Cardinality(DOMAIN snaps)
  <2> HIDE DEF f, S
  <2> QED
    BY <1>1, FS_Injection
<1>3. Cardinality(S) \in Nat /\ Cardinality(DOMAIN snaps) \in Nat
  BY <1>2, FS_CardinalityType
<1>4. PICK k \in 1 .. Cardinality(S) + 1 : k \notin S /\ \A j \in 1 .. k - 1 : j \in S
  <2> S \in SUBSET Nat
    OBVIOUS
  <2> HIDE DEF S
  <2> QED
    BY <1>2, FirstGap
<1>5. k - 1 \in 0 .. Cardinality(DOMAIN snaps)
  <2> HIDE DEF S
  <2> QED
    BY <1>2, <1>3, <1>4
<1>6. Fits(k - 1)
  <2> DEFINE m == Cardinality(S)
  <2>1. k \in Nat /\ k > 0
    <3>1. m \in Nat /\ k \in 1 .. m + 1
      BY <1>3, <1>4
    <3> HIDE DEF m
    <3> QED
      BY <3>1
  <2>2. <<t, k - 1>> \notin DOMAIN snaps
    BY <1>4, <2>1
  <2>3. ASSUME NEW j \in 0 .. k - 1 - 1 PROVE <<t, j>> \in DOMAIN snaps
    <3>1. j + 1 \in 1 .. k - 1 /\ (j + 1) - 1 = j
      BY <2>1
    <3>2. j + 1 \in S
      BY <1>4, <3>1
    <3> QED
      BY <3>1, <3>2
  <2> QED
    BY <2>2, <2>3
<1>7. Free(t) \in 0 .. Cardinality(DOMAIN snaps) /\ Fits(Free(t))
  BY <1>5, <1>6 DEF Free
<1> QED
  BY <1>3, <1>7

(* Fewer snapshots are newer than a new one than are kept.                    *)
LEMMA NewAreKept ==
  ASSUME NamesInv, CountInv
  PROVE  \A n \in Beyond(DOMAIN snaps) : n \in DOMAIN snaps /\ n[1] = 0
<1> SUFFICES ASSUME NEW n \in Beyond(DOMAIN snaps)
             PROVE  n \in DOMAIN snaps /\ n[1] = 0
  OBVIOUS
<1> DEFINE Newer == {m \in DOMAIN snaps : Before(n, m)}
<1>1. n \in DOMAIN snaps /\ Cardinality(Newer) >= MaxSnapshots
  BY DEF Beyond
<1>2. n[1] \in Nat /\ n[2] \in Nat /\ \A m \in DOMAIN snaps : m[1] \in Nat /\ m[2] \in Nat
  BY <1>1 DEF NamesInv, Name
<1>3. ASSUME n[1] # 0 PROVE FALSE
  <2>1. n \in New /\ Newer \subseteq New \ {n}
    BY <1>1, <1>2, <1>3 DEF New, Before
  <2>2. IsFiniteSet(New)
    BY FS_Subset DEF NamesInv, New
  <2>3. IsFiniteSet(New \ {n}) /\ Cardinality(New \ {n}) = Cardinality(New) - 1
    BY <2>1, <2>2, FS_RemoveElement
  <2>4. Cardinality(Newer) <= Cardinality(New \ {n}) /\ IsFiniteSet(Newer)
    <3> HIDE DEF Newer
    <3> QED
      BY <2>1, <2>3, FS_Subset
  <2>5. Cardinality(Newer) \in Nat /\ Cardinality(New) \in Nat /\ Cardinality(Underway) \in Nat
    BY <2>2, <2>4, FS_CardinalityType DEF CountInv
  <2> DEFINE a == Cardinality(Newer)
             b == Cardinality(New)
             c == Cardinality(Underway)
  <2>6. a \in Nat /\ b \in Nat /\ c \in Nat /\ a <= b - 1 /\ b + c <= calls /\ a >= MaxSnapshots
        /\ calls \in Nat /\ calls <= MaxCalls
    BY <1>1, <2>3, <2>4, <2>5 DEF CountInv
  <2>7. MaxSnapshots \in Nat /\ MaxCalls \in Nat /\ MaxCalls <= MaxSnapshots
    BY UndoAssumption
  <2> HIDE DEF a, b, c
  <2> QED
    BY <2>6, <2>7
<1> QED
  BY <1>1, <1>3

(* The name that is chosen comes after those of all snapshots.                *)
LEMMA ChosenIsLatest ==
  ASSUME NamesInv, NEW t \in {clock, clock + 1}
  PROVE  LatestIs(<<t, Free(t)>>) /\ <<t, Free(t)>> \notin DOMAIN snaps
<1>1. Free(t) \in Nat /\ <<t, Free(t)>> \notin DOMAIN snaps
  BY FreeIs DEF NamesInv
<1>2. ASSUME NEW m \in DOMAIN snaps PROVE Before(m, <<t, Free(t)>>)
  <2>1. m[1] \in Nat /\ m[2] \in Nat /\ m = <<m[1], m[2]>> /\ m[1] <= clock /\ clock \in Nat \ {0}
    BY DEF NamesInv, Name
  <2>2. CASE m[1] = t
    <3>1. m \in New
      BY <2>1, <2>2 DEF New
    <3>2. \A k \in 0 .. m[2] - 1 : <<t, k>> \in DOMAIN snaps
      BY <2>2, <3>1 DEF NamesInv, Begun
    <3>3. Free(t) \notin 0 .. m[2] - 1 /\ Free(t) # m[2]
      BY <1>1, <2>1, <2>2, <3>2
    <3> QED
      BY <1>1, <2>1, <2>2, <3>3 DEF Before
  <2>3. CASE m[1] # t
    BY <2>1, <2>3 DEF Before
  <2> QED
    BY <2>2, <2>3
<1> QED
  BY <1>1, <1>2 DEF LatestIs

LEMMA NamesInit == Init => NamesInv /\ CountInv
<1> SUFFICES ASSUME Init PROVE NamesInv /\ CountInv
  OBVIOUS
<1>1. PICK old \in 0 .. MaxSnapshots : DOMAIN snaps = {0} \X (1 .. old)
  BY DEF Init
<1>2. old \in Nat
  BY UndoAssumption
<1>3. IsFiniteSet(DOMAIN snaps)
  <2> DEFINE f == [n \in DOMAIN snaps |-> n[2]]
  <2>1. f \in [DOMAIN snaps -> 1 .. old] /\ \A m, n \in DOMAIN snaps : f[m] = f[n] => m = n
    BY <1>1
  <2>2. f \in Injection(DOMAIN snaps, 1 .. old)
    <3> HIDE DEF f
    <3> QED
      BY <2>1 DEF Injection, IsInjective
  <2>3. IsFiniteSet(1 .. old)
    BY <1>2, FS_Interval
  <2> HIDE DEF f
  <2> QED
    BY <2>2, <2>3, FS_Injection
<1>4. \A n \in DOMAIN snaps : n \in Name /\ n[1] = 0
  BY <1>1, <1>2 DEF Name
<1>5. New = {} /\ Underway = {}
  BY <1>4 DEF New, Underway, Init
<1>6. calls = 0 /\ clock = 1 /\ pc = [u \in Users |-> "idle"] /\ call = [u \in Users |-> NoCall]
  BY DEF Init
<1>7. NamesInv
  BY <1>3, <1>4, <1>5, <1>6 DEF NamesInv, NoCall, Asked
<1>8. CountInv
  <2>1. Cardinality({}) = 0 /\ IsFiniteSet({})
    BY FS_EmptySet
  <2> QED
    BY <1>5, <1>6, <2>1, UndoAssumption DEF CountInv
<1> QED
  BY <1>7, <1>8

(* Steps that choose, publish and remove no names.                            *)
LEMMA NamesFrame ==
  ASSUME NEW u \in Users, NamesInv, CountInv, Left(u),
         clock' = clock, calls' = calls, snaps' = snaps,
         pc'[u] = "name" => pc[u] = "name",
         pc'[u] = "copyin" => pc[u] = "copyin" /\ call'[u].name = call[u].name,
         \A n \in call'[u].doomed : n[1] = 0
  PROVE  NamesInv' /\ CountInv'
<1>1. NamesInv'
  BY DEF NamesInv, New, Begun, Left
<1>2. New' = New /\ Underway' \in SUBSET Underway
  BY DEF New, Underway, Left
<1>3. IsFiniteSet(Underway') /\ Cardinality(Underway') <= Cardinality(Underway)
      /\ Cardinality(Underway') \in Nat /\ Cardinality(Underway) \in Nat
  BY <1>2, FS_Subset, FS_CardinalityType DEF CountInv
<1>4. Cardinality(New) \in Nat
  <2>1. IsFiniteSet(New)
    BY FS_Subset DEF NamesInv, New
  <2> QED
    BY <2>1, FS_CardinalityType
<1>5. CountInv'
  <2> DEFINE a == Cardinality(New)
             b == Cardinality(Underway)
             c == Cardinality(Underway')
  <2>1. a \in Nat /\ b \in Nat /\ c \in Nat /\ c <= b /\ a + b <= calls /\ calls \in Nat /\ calls <= MaxCalls
    BY <1>3, <1>4 DEF CountInv
  <2>2. MaxCalls \in Nat
    BY UndoAssumption
  <2>3. a + c <= calls
    <3> HIDE DEF a, b, c
    <3> QED
      BY <2>1, <2>2
  <2> QED
    BY <1>2, <1>3, <2>1, <2>3 DEF CountInv
<1> QED
  BY <1>1, <1>5

LEMMA BeginNames ==
  ASSUME NEW u \in Users, IInv, NamesInv, CountInv, Begin(u)
  PROVE  /\ NamesInv' /\ CountInv' /\ Left(u)
         /\ pc[u] = "idle" /\ pc'[u] = "name"
<1> DEFINE alone == \A v \in Users : ~Active(v)
<1>1. PICK mine \in {Asked("snapshot", NoName, {}, alone)}
                    \cup {Asked("undo", n, Lines(snaps[n]), alone) : n \in DOMAIN snaps} :
        call' = [v \in Users |-> IF v = u THEN mine ELSE [call[v] EXCEPT !.alone = FALSE]]
  BY DEF Begin
<1> HIDE DEF alone
<1>2. mine.doomed = {}
  BY <1>1 DEF Asked
<1>3. /\ pc[u] = "idle" /\ pc'[u] = "name" /\ call'[u] = mine
      /\ \A w \in Users \ {u} : pc'[w] = pc[w] /\ call'[w] = [call[w] EXCEPT !.alone = FALSE]
  BY <1>1 DEF IInv, ShapeInv, Begin, Goto, Active
<1>4. Left(u)
  <2> SUFFICES ASSUME NEW w \in Users \ {u}
               PROVE  /\ pc'[w] = pc[w]
                      /\ \A f \in {"op", "name", "todo", "doomed"} : call'[w][f] = call[w][f]
                      /\ ~call'[w].alone
    BY DEF Left
  <2>1. DOMAIN call[w] = Fields
    BY DEF IInv, ShapeInv
  <2> QED
    BY <1>3, <2>1 DEF Fields
<1>5. snaps' = snaps /\ clock' = clock /\ calls' = calls + 1 /\ calls < MaxCalls
  BY DEF Begin
<1>6. NamesInv'
  BY <1>2, <1>3, <1>4, <1>5 DEF NamesInv, New, Begun, Left
<1>7. New' = New /\ Underway' = Underway \cup {u} /\ u \notin Underway
  BY <1>3, <1>4, <1>5 DEF New, Underway, Left
<1>8. IsFiniteSet(Underway') /\ Cardinality(Underway') = Cardinality(Underway) + 1
  BY <1>7, FS_AddElement DEF CountInv
<1>9. Cardinality(New) \in Nat /\ Cardinality(Underway) \in Nat
  <2>1. IsFiniteSet(New)
    BY FS_Subset DEF NamesInv, New
  <2> QED
    BY <2>1, FS_CardinalityType DEF CountInv
<1>10. CountInv'
  <2> DEFINE a == Cardinality(New)
             b == Cardinality(Underway)
             c == Cardinality(Underway')
  <2>1. a \in Nat /\ b \in Nat /\ c = b + 1 /\ a + b <= calls /\ calls \in Nat /\ calls < MaxCalls
    BY <1>5, <1>8, <1>9 DEF CountInv
  <2>2. MaxCalls \in Nat
    BY UndoAssumption
  <2>3. a + c <= calls + 1 /\ calls + 1 \in Nat /\ calls + 1 <= MaxCalls
    <3> HIDE DEF a, b, c
    <3> QED
      BY <2>1, <2>2
  <2> QED
    BY <1>5, <1>7, <1>8, <2>3 DEF CountInv
<1> QED
  BY <1>3, <1>4, <1>6, <1>10

(* The chosen name may be that of a copy that is running, and never that of a *)
(* snapshot.                                                                  *)
LEMMA ChooseNames ==
  ASSUME NEW u \in Users, IInv, NamesInv, CountInv, ChooseName(u), "store" \in DOMAIN dirs
  PROVE  /\ NamesInv' /\ CountInv' /\ Left(u)
         /\ pc'[u] = "copyin" /\ call'[u].op = call[u].op
         /\ call'[u].todo = DOMAIN dirs["store"]
         /\ call'[u].name \notin DOMAIN snaps /\ LatestIs(call'[u].name)
         /\ partial' = With(partial, call'[u].name, Empty)
         /\ marred' = (marred \/ \E v \in Users \ {u} : pc[v] = "copyin" /\ call[v].name = call'[u].name)
<1>1. PICK t \in {clock, clock + 1} :
        /\ clock' = t
        /\ partial' = With(partial, <<t, Free(t)>>, Empty)
        /\ Keep(u, [call[u] EXCEPT !.name = <<t, Free(t)>>, !.todo = DOMAIN dirs["store"], !.base = Stored])
        /\ Goto(u, "copyin")
        /\ marred' = (marred \/ \E v \in Users \ {u} : pc[v] = "copyin" /\ call[v].name = <<t, Free(t)>>)
  BY DEF ChooseName
<1> DEFINE name == <<t, Free(t)>>
           c == [call[u] EXCEPT !.name = name, !.todo = DOMAIN dirs["store"], !.base = Stored]
<1>2. c.op = call[u].op /\ c.name = name /\ c.todo = DOMAIN dirs["store"] /\ c.doomed = call[u].doomed
  BY DEF IInv, ShapeInv, Fields
<1>3. Keep(u, c) /\ Goto(u, "copyin") /\ Active(u) /\ snaps' = snaps /\ calls' = calls /\ pc[u] = "name"
  BY <1>1 DEF ChooseName, Active
<1> HIDE DEF c
<1>4. pc'[u] = "copyin" /\ call'[u] = c /\ Left(u)
  BY <1>3, Moved
<1>5. Free(t) \in Nat /\ name \notin DOMAIN snaps /\ \A k \in 0 .. Free(t) - 1 : <<t, k>> \in DOMAIN snaps
  BY FreeIs DEF NamesInv
<1>6. LatestIs(name)
  BY ChosenIsLatest
<1>7. t \in Nat \ {0} /\ clock <= t /\ \A n \in DOMAIN snaps : n[1] \in Nat /\ n[1] <= clock
  BY DEF NamesInv, Name
<1>8. NamesInv'
  <2>1. clock' \in Nat \ {0} /\ \A n \in DOMAIN snaps : n[1] <= clock'
    BY <1>1, <1>7 DEF NamesInv
  <2>2. \A w \in Users : \A n \in call'[w].doomed : n[1] = 0
    BY <1>2, <1>4 DEF NamesInv, Left
  <2>3. name \in Name /\ name[1] \in 1 .. t /\ Begun(name)
    BY <1>5, <1>7 DEF Name, Begun
  <2>4. ASSUME NEW w \in Users, pc'[w] = "copyin"
        PROVE  call'[w].name \in Name /\ call'[w].name[1] \in 1 .. t /\ Begun(call'[w].name)
    <3>1. CASE w = u
      BY <1>2, <1>4, <2>3, <3>1
    <3>2. CASE w # u
      <4>1. call[w].name \in Name /\ call[w].name[1] \in 1 .. clock /\ Begun(call[w].name)
            /\ call'[w].name = call[w].name
        BY <1>4, <2>4, <3>2 DEF NamesInv, Left
      <4> QED
        BY <1>7, <4>1 DEF Name, NamesInv
    <3> QED
      BY <3>1, <3>2
  <2> QED
    BY <1>1, <1>3, <2>1, <2>2, <2>4 DEF NamesInv, New, Begun
<1>9. Underway' = Underway /\ New' = New
  BY <1>3, <1>4 DEF Underway, New, Left
<1>10. CountInv'
  BY <1>3, <1>9 DEF CountInv
<1> QED
  BY <1>1, <1>2, <1>4, <1>5, <1>6, <1>8, <1>10

LEMMA PublishNames ==
  ASSUME NEW u \in Users, IInv, NamesInv, CountInv, Publish(u), call[u].name \in DOMAIN partial,
         call[u].name \notin DOMAIN snaps
  PROVE  /\ NamesInv' /\ CountInv' /\ Left(u)
         /\ pc'[u] = "prune" /\ call'[u] = call[u]
         /\ snaps' = With(snaps, call[u].name, partial[call[u].name])
         /\ partial' = Without(partial, call[u].name)
         /\ call[u].name \in New'
<1> DEFINE name == call[u].name
<1>1. /\ pc[u] = "copyin" /\ Active(u) /\ Goto(u, "prune") /\ call' = call
      /\ snaps' = With(snaps, name, partial[name]) /\ partial' = Without(partial, name)
      /\ clock' = clock /\ calls' = calls
  BY DEF Publish, Active
<1>2. pc'[u] = "prune" /\ call'[u] = call[u] /\ Left(u)
  BY <1>1, MovedSameCall
<1>3. name \in Name /\ name[1] \in 1 .. clock /\ Begun(name) /\ clock \in Nat
  BY <1>1 DEF NamesInv
<1>4. DOMAIN snaps' = DOMAIN snaps \cup {name}
  BY <1>1 DEF With
<1>5. New' = New \cup {name} /\ name \notin New /\ Underway' = Underway \ {u} /\ u \in Underway
  BY <1>1, <1>2, <1>3, <1>4 DEF New, Underway, Left
<1>6. NamesInv'
  <2>1. IsFiniteSet(DOMAIN snaps')
    BY <1>4, FS_AddElement DEF NamesInv
  <2>2. \A n : Begun(n) => Begun(n)'
    BY <1>4 DEF Begun
  <2>3. DOMAIN snaps' \subseteq Name /\ \A n \in DOMAIN snaps' : n[1] <= clock
    BY <1>3, <1>4 DEF NamesInv
  <2>4. \A n \in New' : Begun(n)'
    BY <1>3, <1>5, <2>2 DEF NamesInv
  <2>5. \A w \in Users : pc'[w] = "copyin" =>
          call'[w].name \in Name /\ call'[w].name[1] \in 1 .. clock /\ Begun(call[w].name)'
    BY <1>1, <1>2, <1>4 DEF NamesInv, Left, Begun
  <2>6. \A w \in Users : \A n \in call'[w].doomed : n[1] = 0
    BY <1>2 DEF NamesInv, Left
  <2> QED
    BY <1>1, <2>1, <2>3, <2>4, <2>5, <2>6 DEF NamesInv
<1>7. CountInv'
  <2>1. IsFiniteSet(New)
    BY FS_Subset DEF NamesInv, New
  <2>2. Cardinality(New') = Cardinality(New) + 1
    BY <1>5, <2>1, FS_AddElement
  <2>3. IsFiniteSet(Underway') /\ Cardinality(Underway') = Cardinality(Underway) - 1
    BY <1>5, FS_RemoveElement DEF CountInv
  <2>4. Cardinality(New) \in Nat /\ Cardinality(Underway) \in Nat
    BY <2>1, FS_CardinalityType DEF CountInv
  <2> DEFINE a == Cardinality(New)
             b == Cardinality(Underway)
  <2>5. a \in Nat /\ b \in Nat /\ a + b <= calls
    BY <2>4 DEF CountInv
  <2>6. (a + 1) + (b - 1) <= calls
    <3> HIDE DEF a, b
    <3>1. calls \in Nat
      BY DEF CountInv
    <3> QED
      BY <2>5, <3>1
  <2> QED
    BY <1>1, <2>2, <2>3, <2>6 DEF CountInv
<1> QED
  BY <1>1, <1>2, <1>5, <1>6, <1>7

(* What is removed was there before, and no snapshot that was taken here.     *)
LEMMA RemoveNames ==
  ASSUME NEW u \in Users, NamesInv, CountInv, NEW n, n[1] = 0, Left(u),
         DOMAIN snaps' \in {DOMAIN snaps, DOMAIN snaps \ {n}},
         clock' = clock, calls' = calls, pc'[u] = "remove",
         call'[u].doomed \subseteq call[u].doomed
  PROVE  NamesInv' /\ CountInv' /\ New' = New
<1>1. \A m \in DOMAIN snaps : m[1] > 0 => m \in DOMAIN snaps'
  BY DEF NamesInv
<1>2. New' = New
  BY <1>1 DEF New
<1>3. \A m : m[1] > 0 /\ Begun(m) => Begun(m)'
  <2> SUFFICES ASSUME NEW m, m[1] > 0, Begun(m), NEW k \in 0 .. m[2] - 1
               PROVE  <<m[1], k>> \in DOMAIN snaps'
    BY DEF Begun
  <2>1. <<m[1], k>> \in DOMAIN snaps /\ <<m[1], k>>[1] = m[1]
    BY DEF Begun
  <2> QED
    BY <1>1, <2>1
<1>4. NamesInv'
  <2>1. IsFiniteSet(DOMAIN snaps') /\ DOMAIN snaps' \subseteq DOMAIN snaps
    BY FS_RemoveElement DEF NamesInv
  <2>2. \A m \in New' : Begun(m)'
    BY <1>2, <1>3 DEF NamesInv, New
  <2>3. \A w \in Users : pc'[w] = "copyin" =>
          call'[w].name \in Name /\ call'[w].name[1] \in 1 .. clock /\ Begun(call[w].name)'
    <3> SUFFICES ASSUME NEW w \in Users, pc'[w] = "copyin"
                 PROVE  call'[w].name \in Name /\ call'[w].name[1] \in 1 .. clock /\ Begun(call[w].name)'
      OBVIOUS
    <3>1. w # u /\ pc[w] = "copyin" /\ call'[w].name = call[w].name
      BY DEF Left
    <3>2. call[w].name \in Name /\ call[w].name[1] \in 1 .. clock /\ Begun(call[w].name)
      BY <3>1 DEF NamesInv
    <3>3. call[w].name[1] > 0
      BY <3>2 DEF NamesInv
    <3>4. Begun(call[w].name)'
      BY <1>3, <3>1, <3>2, <3>3 DEF Begun
    <3> QED
      BY <3>1, <3>2, <3>4
  <2>4. \A w \in Users : \A m \in call'[w].doomed : m[1] = 0
    BY DEF NamesInv, Left
  <2> QED
    BY <2>1, <2>2, <2>3, <2>4 DEF NamesInv
<1>5. Underway' \in SUBSET Underway
  BY DEF Underway, Left
<1>6. IsFiniteSet(Underway') /\ Cardinality(Underway') <= Cardinality(Underway)
      /\ Cardinality(Underway') \in Nat /\ Cardinality(Underway) \in Nat
  BY <1>5, FS_Subset, FS_CardinalityType DEF CountInv
<1>7. Cardinality(New) \in Nat
  <2>1. IsFiniteSet(New)
    BY FS_Subset DEF NamesInv, New
  <2> QED
    BY <2>1, FS_CardinalityType
<1>8. CountInv'
  <2> DEFINE a == Cardinality(New)
             b == Cardinality(Underway)
             c == Cardinality(Underway')
  <2>1. a \in Nat /\ b \in Nat /\ c \in Nat /\ c <= b /\ a + b <= calls /\ calls \in Nat
    BY <1>6, <1>7 DEF CountInv
  <2>2. a + c <= calls
    <3> HIDE DEF a, b, c
    <3> QED
      BY <2>1
  <2> QED
    BY <1>2, <1>6, <2>2 DEF CountInv
<1> QED
  BY <1>2, <1>4, <1>8

-----------------------------------------------------------------------------
(* What was written, and where it is.                                         *)

(* Lines that NothingDestroyed does not look for in the store.                *)
Kept == Captured \cup late \cup forgotten
Safe(S) == S \subseteq Kept

InStaging(u) == IF call[u].name \in DOMAIN partial THEN Lines(partial[call[u].name]) ELSE {}
Uncopied(u) == UNION {dirs["store"][f] : f \in call[u].todo}
Fresh(u) == call[u].todo \cap DOMAIN partial[call[u].name] = {}
Copying(u) == "store" \in DOMAIN dirs /\ call[u].todo \subseteq DOMAIN dirs["store"]

(* An undo that runs alone finishes its safety snapshot, which is the newest  *)
(* from then on and holds what the store held, but for what was appended.     *)
SecuredAlone(u) ==
  \/ Stored \subseteq late
  \/ /\ call[u].name \in New /\ LatestIs(call[u].name)
     /\ Stored \subseteq Lines(snaps[call[u].name]) \cup late

AloneSafe(u) ==
  /\ pc[u] = "copyin" =>
       /\ call[u].name \in DOMAIN partial /\ call[u].name \notin DOMAIN snaps
       /\ LatestIs(call[u].name)
       /\ Fresh(u) /\ Copying(u)
       /\ Stored \subseteq InStaging(u) \cup Uncopied(u) \cup late
  /\ pc[u] \in Secured => SecuredAlone(u)

AloneSafeInv == \A u \in Users : call[u].alone /\ Undoing(u) => AloneSafe(u)

(* An undo that has company: somebody has what the store holds, although the  *)
(* store may be moved away and another one put in its place while it copies.  *)
StoreSafe(u) ==
  /\ pc[u] = "copyin" =>
       \/ Safe(Stored)
       \/ Copying(u) /\ Safe(Stored \ (InStaging(u) \cup Uncopied(u)))
  /\ pc[u] \in Secured => Safe(Stored)

StoreSafeInv == \A u \in Users : Undoing(u) => StoreSafe(u)

(* Nobody else copies into the directory of a call.                           *)
ApartInv ==
  \A u \in Users : pc[u] = "copyin" =>
    /\ call[u].name \in DOMAIN partial /\ call[u].name \notin DOMAIN snaps
    /\ Fresh(u)
    /\ \A v \in Users \ {u} : pc[v] = "copyin" => call[v].name # call[u].name

(* What is about to become the store.                                         *)
StagedInv ==
  \A u \in Users : pc[u] \in Staged /\ "restoring" \in DOMAIN dirs => Safe(Lines(dirs["restoring"]))

(* While there is no store, no snapshot is taken or removed.                  *)
GoneInv ==
  "store" \notin DOMAIN dirs /\ missing # {} =>
    /\ \A u \in Users : pc[u] \notin {"copyin", "prune", "remove"}
    /\ missing \ late \subseteq Lines(snaps[Newest(DOMAIN snaps)])

DataInv ==
  /\ AloneSafeInv /\ StagedInv /\ GoneInv
  /\ ~marred => ApartInv /\ StoreSafeInv /\ acked \subseteq Stored \cup Kept

SafeInv == NamesInv /\ CountInv /\ DataInv

SameStore ==
  /\ "store" \in DOMAIN dirs' <=> "store" \in DOMAIN dirs
  /\ "store" \in DOMAIN dirs => dirs'["store"] = dirs["store"]

(* A step that leaves the store as it is: what is to be shown besides.        *)
LEMMA Framed ==
  ASSUME NEW u \in Users, DataInv, Left(u), SameStore, acked' = acked, Kept \subseteq Kept',
         ~marred' => ~marred /\ ApartInv',
         ~marred' => \A w \in Users \ {u} : pc[w] = "copyin" =>
           call[w].name \in DOMAIN partial' /\ partial'[call[w].name] = partial[call[w].name],
         "restoring" \in DOMAIN dirs' =>
           \/ /\ "restoring" \in DOMAIN dirs /\ dirs'["restoring"] = dirs["restoring"]
              /\ pc'[u] \in Staged => pc[u] \in Staged
           \/ Lines(dirs'["restoring"]) \subseteq Kept,
         GoneInv',
         ~marred' /\ Undoing(u)' => StoreSafe(u)',
         call'[u].alone /\ Undoing(u)' => AloneSafe(u)'
  PROVE  DataInv'
<1>1. Stored' = Stored
  BY DEF SameStore, Stored
<1>2. AloneSafeInv'
  BY DEF AloneSafeInv, Left
<1>3. StagedInv'
  BY DEF DataInv, StagedInv, Left, Safe
<1>4. ASSUME ~marred', NEW w \in Users \ {u}, Undoing(w)' PROVE StoreSafe(w)'
  <2>1. StoreSafe(w) /\ ApartInv
    BY <1>4 DEF DataInv, StoreSafeInv, Undoing, Left
  <2>2. pc'[w] = pc[w] /\ call'[w].name = call[w].name /\ call'[w].todo = call[w].todo
    BY DEF Left
  <2>3. pc[w] = "copyin" => InStaging(w)' = InStaging(w)
    BY <1>4, <2>1, <2>2 DEF InStaging, ApartInv
  <2>4. Copying(w) => Copying(w)' /\ Uncopied(w)' = Uncopied(w)
    BY <2>2 DEF Copying, Uncopied, SameStore
  <2> QED
    BY <1>1, <2>1, <2>2, <2>3, <2>4 DEF StoreSafe, Safe
<1>5. ~marred' => StoreSafeInv'
  BY <1>4 DEF StoreSafeInv
<1>6. ~marred' => acked' \subseteq Stored' \cup Kept'
  BY <1>1 DEF DataInv
<1> QED
  BY <1>2, <1>3, <1>5, <1>6 DEF DataInv

(* ... when it leaves the snapshots and the staging directories, too.         *)
LEMMA Quiet ==
  ASSUME NEW u \in Users, DataInv, Left(u), SameStore, acked' = acked,
         snaps' = snaps, partial' = partial, late' = late, forgotten' = forgotten,
         missing' = missing, marred' = marred,
         pc'[u] # "copyin",
         pc'[u] \in {"prune", "remove"} => pc[u] \in {"prune", "remove"},
         "restoring" \in DOMAIN dirs' =>
           \/ /\ "restoring" \in DOMAIN dirs /\ dirs'["restoring"] = dirs["restoring"]
              /\ pc'[u] \in Staged => pc[u] \in Staged
           \/ Lines(dirs'["restoring"]) \subseteq Kept,
         ~marred /\ Undoing(u)' /\ pc'[u] \in Secured => Safe(Stored),
         call'[u].alone /\ Undoing(u)' /\ pc'[u] \in Secured => SecuredAlone(u)'
  PROVE  DataInv'
<1>1. Captured' = Captured /\ Kept' = Kept /\ Stored' = Stored
  BY DEF Captured, Kept, SameStore, Stored
<1>2. ~marred' => ~marred /\ ApartInv'
  BY DEF DataInv, ApartInv, Fresh, Left
<1>3. ~marred' => \A w \in Users \ {u} : pc[w] = "copyin" =>
        call[w].name \in DOMAIN partial' /\ partial'[call[w].name] = partial[call[w].name]
  BY DEF DataInv, ApartInv
<1>4. GoneInv'
  <2> SUFFICES ASSUME "store" \notin DOMAIN dirs', missing # {}
               PROVE  /\ \A w \in Users : pc'[w] \notin {"copyin", "prune", "remove"}
                      /\ missing \ late \subseteq Lines(snaps[Newest(DOMAIN snaps)])
    BY DEF GoneInv
  <2>1. /\ \A w \in Users : pc[w] \notin {"copyin", "prune", "remove"}
        /\ missing \ late \subseteq Lines(snaps[Newest(DOMAIN snaps)])
    BY DEF DataInv, GoneInv, SameStore
  <2> QED
    BY <2>1 DEF Left
<1>5. ~marred' /\ Undoing(u)' => StoreSafe(u)'
  BY <1>1 DEF StoreSafe, Safe
<1>6. call'[u].alone /\ Undoing(u)' => AloneSafe(u)'
  BY DEF AloneSafe
<1> QED
  BY <1>1, <1>2, <1>3, <1>4, <1>5, <1>6, Framed

LEMMA DataInit == Init => DataInv
<1> SUFFICES ASSUME Init PROVE DataInv
  OBVIOUS
<1>1. /\ pc = [u \in Users |-> "idle"] /\ call = [u \in Users |-> NoCall]
      /\ acked = Stored \cup Captured /\ missing = {}
  BY DEF Init
<1>2. \A u \in Users : pc[u] = "idle" /\ ~Undoing(u)
  BY <1>1 DEF Undoing, NoCall, Asked
<1> QED
  BY <1>1, <1>2 DEF DataInv, AloneSafeInv, StagedInv, GoneInv, ApartInv, StoreSafeInv, Kept, Staged

LEMMA BeginSafe ==
  ASSUME NEW u \in Users, IInv, NamesInv, CountInv, DataInv, Begin(u)
  PROVE  DataInv'
<1>1. Left(u) /\ pc'[u] = "name"
  BY BeginNames
<1>2. /\ dirs' = dirs /\ snaps' = snaps /\ partial' = partial /\ acked' = acked
      /\ late' = late /\ forgotten' = forgotten /\ missing' = missing /\ marred' = marred
  BY DEF Begin, history
<1>3. SameStore /\ "name" \notin Secured /\ "name" \notin Staged
  BY <1>2 DEF SameStore, Secured, Staged
<1> QED
  BY <1>1, <1>2, <1>3, Quiet

(* A copy starts: nothing is copied, and everything is still to be.           *)
LEMMA ChooseNameSafe ==
  ASSUME NEW u \in Users, IInv, NamesInv, CountInv, DataInv, ChooseName(u)
  PROVE  DataInv'
<1>1. /\ dirs' = dirs /\ snaps' = snaps /\ acked' = acked
      /\ late' = late /\ forgotten' = forgotten /\ missing' = missing
      /\ pc[u] = "name" /\ Active(u)
  BY DEF ChooseName, Active
<1>2. SameStore
  BY <1>1 DEF SameStore
<1>3. CASE "store" \notin DOMAIN dirs
  <2>1. Taken(u) /\ partial' = partial /\ marred' = marred
    BY <1>3 DEF ChooseName
  <2>2. Left(u) /\ pc'[u] \in {"stage", "idle"}
    BY <1>1, <2>1, MovedTaken
  <2>3. Stored = {} /\ Stored' = {}
    BY <1>1, <1>3 DEF Stored
  <2>4. Safe(Stored) /\ SecuredAlone(u)'
    BY <2>3 DEF Safe, SecuredAlone
  <2> QED
    BY <1>1, <1>2, <2>1, <2>2, <2>4, Quiet DEF Staged
<1>4. CASE "store" \in DOMAIN dirs
  <2> DEFINE name == call'[u].name
  <2>1. /\ Left(u) /\ pc'[u] = "copyin" /\ call'[u].todo = DOMAIN dirs["store"]
        /\ name \notin DOMAIN snaps /\ LatestIs(call'[u].name)
        /\ partial' = With(partial, name, Empty)
        /\ marred' = (marred \/ \E v \in Users \ {u} : pc[v] = "copyin" /\ call[v].name = name)
    BY <1>4, ChooseNames
  <2>2. Captured' = Captured /\ Kept' = Kept /\ Stored' = Stored
    BY <1>1 DEF Captured, Kept, Stored
  <2>3. /\ name \in DOMAIN partial' /\ DOMAIN partial'[name] = {}
        /\ \A n \in DOMAIN partial \ {name} : n \in DOMAIN partial' /\ partial'[n] = partial[n]
    BY <2>1 DEF With, Empty
  <2>4. ASSUME ~marred'
        PROVE  /\ ~marred /\ ApartInv'
               /\ \A w \in Users \ {u} : pc[w] = "copyin" =>
                    call[w].name \in DOMAIN partial' /\ partial'[call[w].name] = partial[call[w].name]
    <3>1. ~marred /\ ApartInv /\ \A v \in Users \ {u} : pc[v] = "copyin" => call[v].name # name
      BY <2>1, <2>4 DEF DataInv
    <3>2. \A w \in Users \ {u} : pc'[w] = pc[w] /\ call'[w].name = call[w].name
                                  /\ call'[w].todo = call[w].todo
      BY <2>1 DEF Left
    <3>3. \A w \in Users \ {u} : pc[w] = "copyin" =>
            call[w].name \in DOMAIN partial' /\ partial'[call[w].name] = partial[call[w].name]
      BY <2>3, <3>1 DEF ApartInv
    <3> HIDE DEF name
    <3>4. ApartInv'
      <4>1. ASSUME NEW w \in Users, pc'[w] = "copyin"
            PROVE  /\ call'[w].name \in DOMAIN partial' /\ call'[w].name \notin DOMAIN snaps'
                   /\ call'[w].todo \cap DOMAIN partial'[call'[w].name] = {}
                   /\ \A v \in Users \ {w} : pc'[v] = "copyin" => call'[v].name # call'[w].name
        <5>1. CASE w = u
          BY <1>1, <2>1, <2>3, <3>1, <3>2, <5>1 DEF name
        <5>2. CASE w # u
          BY <1>1, <2>1, <3>1, <3>2, <3>3, <4>1, <5>2 DEF name, ApartInv, Fresh
        <5> QED
          BY <5>1, <5>2
      <4> QED
        BY <4>1 DEF ApartInv, Fresh
    <3> QED
      BY <3>1, <3>3, <3>4
  <2>5. Copying(u)' /\ Stored' \subseteq Uncopied(u)'
    <3>1. Stored = UNION {dirs["store"][f] : f \in DOMAIN dirs["store"]}
      BY <1>4 DEF Stored, Lines
    <3> QED
      BY <1>1, <1>4, <2>1, <2>2, <3>1 DEF Copying, Uncopied
  <2>6. StoreSafe(u)'
    BY <2>1, <2>5 DEF StoreSafe, Safe, Secured
  <2>7. AloneSafe(u)'
    BY <1>1, <2>1, <2>3, <2>5 DEF AloneSafe, Secured, LatestIs, Fresh
  <2>8. GoneInv'
    BY <1>1, <1>4 DEF GoneInv
  <2>9. /\ ~marred' => ~marred /\ ApartInv'
        /\ ~marred' => \A w \in Users \ {u} : pc[w] = "copyin" =>
             call[w].name \in DOMAIN partial' /\ partial'[call[w].name] = partial[call[w].name]
        /\ Kept \subseteq Kept' /\ "copyin" \notin Staged
    BY <2>2, <2>4 DEF Staged
  <2> HIDE DEF name
  <2> QED
    BY <1>1, <1>2, <2>1, <2>6, <2>7, <2>8, <2>9, Framed
<1> QED
  BY <1>3, <1>4

(* A copy that fails has lost its directory to a call of the same name, or    *)
(* the store to another restore, which had it in its own snapshot.            *)
LEMMA TakenSafe ==
  ASSUME NEW u \in Users, IInv, DataInv, Active(u), Taken(u),
         dirs' = dirs, snaps' = snaps, acked' = acked, partial' = partial,
         late' = late, forgotten' = forgotten, missing' = missing, marred' = marred,
         ~marred /\ Undoing(u) => Safe(Stored),
         call[u].alone /\ Undoing(u) => SecuredAlone(u)
  PROVE  DataInv'
<1>1. /\ Left(u) /\ pc'[u] \in {"stage", "idle"}
      /\ pc'[u] = "stage" => /\ Undoing(u) /\ call'[u].name = call[u].name
                             /\ call'[u].alone = call[u].alone
      /\ pc'[u] = "idle" => ~call'[u].alone /\ call'[u].op = "snapshot"
  BY MovedTaken DEF Undoing
<1>2. SameStore
  BY DEF SameStore
<1>3. ASSUME call'[u].alone /\ Undoing(u)' /\ pc'[u] \in Secured PROVE SecuredAlone(u)'
  <2>1. SecuredAlone(u) /\ call'[u].name = call[u].name
    BY <1>1, <1>3
  <2> QED
    BY <2>1 DEF SecuredAlone, Stored, New, LatestIs
<1>4. ~marred /\ Undoing(u)' /\ pc'[u] \in Secured => Safe(Stored)
  BY <1>1 DEF Secured
<1> QED
  BY <1>1, <1>2, <1>3, <1>4, Quiet DEF Staged

LEMMA CopyInSafe ==
  ASSUME NEW u \in Users, IInv, DataInv, CopyIn(u), "in" \notin Faults
  PROVE  DataInv'
<1> DEFINE name == call[u].name
<1>1. /\ dirs' = dirs /\ snaps' = snaps /\ acked' = acked
      /\ late' = late /\ forgotten' = forgotten /\ missing' = missing /\ marred' = marred
      /\ pc[u] = "copyin" /\ Active(u)
  BY DEF CopyIn, Active, history
<1>2. ~marred => name \in DOMAIN partial /\ name \notin DOMAIN snaps /\ Fresh(u)
                 /\ \A v \in Users \ {u} : pc[v] = "copyin" => call[v].name # name
  BY <1>1 DEF DataInv, ApartInv
<1>3. ~marred /\ Undoing(u) =>
        \/ Safe(Stored)
        \/ Copying(u) /\ Safe(Stored \ (InStaging(u) \cup Uncopied(u)))
  BY <1>1 DEF DataInv, StoreSafeInv, StoreSafe
<1>4. call[u].alone /\ Undoing(u) => AloneSafe(u)
  BY DEF DataInv, AloneSafeInv
<1>5. PICK f \in call[u].todo :
        \/ /\ "store" \in DOMAIN dirs /\ f \in DOMAIN dirs["store"] /\ name \in DOMAIN partial
           /\ partial' = [partial EXCEPT ![name] = With(@, f, dirs["store"][f])]
           /\ Keep(u, [call[u] EXCEPT !.todo = @ \ {f}])
           /\ UNCHANGED pc
        \/ /\ ~("store" \in DOMAIN dirs /\ f \in DOMAIN dirs["store"] /\ name \in DOMAIN partial)
           /\ Taken(u)
           /\ UNCHANGED partial
  BY DEF CopyIn
<1>6. CASE /\ ~("store" \in DOMAIN dirs /\ f \in DOMAIN dirs["store"] /\ name \in DOMAIN partial)
           /\ Taken(u)
           /\ UNCHANGED partial
  <2>1. ~marred /\ Undoing(u) => Safe(Stored)
    BY <1>2, <1>3, <1>6 DEF Copying
  <2>2. ~(call[u].alone /\ Undoing(u))
    BY <1>1, <1>4, <1>6 DEF AloneSafe, Copying
  <2> QED
    BY <1>1, <1>6, <2>1, <2>2, TakenSafe
<1>7. CASE /\ "store" \in DOMAIN dirs /\ f \in DOMAIN dirs["store"] /\ name \in DOMAIN partial
           /\ partial' = [partial EXCEPT ![name] = With(@, f, dirs["store"][f])]
           /\ Keep(u, [call[u] EXCEPT !.todo = @ \ {f}])
           /\ UNCHANGED pc
  <2> DEFINE c == [call[u] EXCEPT !.todo = @ \ {f}]
  <2>1. c.op = call[u].op /\ c.alone = call[u].alone /\ c.name = name /\ c.todo = call[u].todo \ {f}
    BY DEF IInv, ShapeInv, Fields
  <2>2. Goto(u, "copyin") /\ Keep(u, c)
    BY <1>1, <1>7 DEF Goto, IInv, ShapeInv
  <2> HIDE DEF c
  <2>3. pc'[u] = "copyin" /\ call'[u] = c /\ Left(u)
    BY <1>1, <2>2, Moved
  <2>4. /\ DOMAIN partial' = DOMAIN partial
        /\ \A n \in DOMAIN partial \ {name} : partial'[n] = partial[n]
        /\ partial'[name] = With(partial[name], f, dirs["store"][f])
    BY <1>7
  <2>5. /\ DOMAIN partial'[name] = DOMAIN partial[name] \cup {f}
        /\ partial'[name][f] = dirs["store"][f]
        /\ \A g \in DOMAIN partial[name] \ {f} : partial'[name][g] = partial[name][g]
    BY <2>4 DEF With
  <2>6. Captured' = Captured /\ Kept' = Kept /\ Stored' = Stored /\ SameStore
    BY <1>1 DEF Captured, Kept, Stored, SameStore
  <2>7. Fresh(u) => Fresh(u)'
    BY <2>1, <2>3, <2>5 DEF Fresh
  <2>8. Copying(u) => Copying(u)'
    BY <1>1, <2>1, <2>3 DEF Copying
  <2>9. Fresh(u) => InStaging(u) \cup Uncopied(u) \subseteq InStaging(u)' \cup Uncopied(u)'
    <3> SUFFICES ASSUME Fresh(u), NEW l \in InStaging(u) \cup Uncopied(u)
                 PROVE  l \in InStaging(u)' \cup Uncopied(u)'
      OBVIOUS
    <3>1. InStaging(u)' = Lines(partial'[name])
      BY <1>7, <2>1, <2>3, <2>4 DEF InStaging
    <3>2. CASE l \in InStaging(u)
      <4>1. PICK g \in DOMAIN partial[name] : l \in partial[name][g]
        BY <1>7, <3>2 DEF InStaging, Lines
      <4>2. g # f
        BY DEF Fresh
      <4>3. l \in Lines(partial'[name])
        BY <2>5, <4>1, <4>2 DEF Lines
      <4> QED
        BY <3>1, <4>3
    <3>3. CASE l \in Uncopied(u)
      <4>1. PICK g \in call[u].todo : l \in dirs["store"][g]
        BY <3>3 DEF Uncopied
      <4>2. CASE g = f
        BY <2>5, <3>1, <4>1, <4>2 DEF Lines
      <4>3. CASE g # f
        BY <1>1, <2>1, <2>3, <4>1, <4>3 DEF Uncopied
      <4> QED
        BY <4>2, <4>3
    <3> QED
      BY <3>2, <3>3
  <2>10. ASSUME ~marred PROVE ApartInv'
    <3>1. ASSUME NEW w \in Users, pc'[w] = "copyin"
          PROVE  /\ call'[w].name \in DOMAIN partial' /\ call'[w].name \notin DOMAIN snaps'
                 /\ call'[w].todo \cap DOMAIN partial'[call'[w].name] = {}
                 /\ \A v \in Users \ {w} : pc'[v] = "copyin" => call'[v].name # call'[w].name
      <4>1. CASE w = u
        BY <1>1, <1>2, <2>1, <2>3, <2>4, <2>7, <2>10, <4>1 DEF Left, Fresh
      <4>2. CASE w # u
        <5>1. pc[w] = "copyin" /\ call'[w].name = call[w].name /\ call'[w].todo = call[w].todo
          BY <2>3, <3>1, <4>2 DEF Left
        <5>2. /\ call[w].name \in DOMAIN partial /\ call[w].name \notin DOMAIN snaps /\ call[w].name # name
              /\ call[w].todo \cap DOMAIN partial[call[w].name] = {}
              /\ \A v \in Users \ {w} : pc[v] = "copyin" => call[v].name # call[w].name
          BY <1>2, <2>10, <4>2, <5>1 DEF DataInv, ApartInv, Fresh
        <5>3. \A v \in Users : pc'[v] = "copyin" => pc[v] = "copyin" /\ call'[v].name = call[v].name
          BY <1>1, <2>1, <2>3 DEF Left
        <5> QED
          BY <1>1, <2>4, <5>1, <5>2, <5>3
      <4> QED
        BY <4>1, <4>2
    <3> QED
      BY <3>1 DEF ApartInv, Fresh
  <2>11. ASSUME ~marred PROVE \A w \in Users \ {u} : pc[w] = "copyin" =>
           call[w].name \in DOMAIN partial' /\ partial'[call[w].name] = partial[call[w].name]
    BY <1>2, <2>4, <2>11 DEF DataInv, ApartInv
  <2>12. ASSUME ~marred, Undoing(u) PROVE StoreSafe(u)'
    BY <1>2, <1>3, <2>3, <2>6, <2>8, <2>9, <2>12 DEF StoreSafe, Safe, Secured
  <2>13. ASSUME call[u].alone, Undoing(u) PROVE AloneSafe(u)'
    <3>1. /\ name \notin DOMAIN snaps /\ LatestIs(name) /\ Fresh(u) /\ Copying(u)
          /\ Stored \subseteq InStaging(u) \cup Uncopied(u) \cup late
      BY <1>1, <1>4, <2>13 DEF AloneSafe
    <3>2. Stored' \subseteq InStaging(u)' \cup Uncopied(u)' \cup late'
      BY <1>1, <2>6, <2>9, <3>1
    <3> QED
      BY <1>1, <1>7, <2>1, <2>3, <2>4, <2>7, <2>8, <3>1, <3>2 DEF AloneSafe, Secured, LatestIs
  <2>14. GoneInv'
    BY <1>1, <1>7 DEF GoneInv
  <2>15. /\ ~marred' => ~marred /\ ApartInv'
         /\ ~marred' => \A w \in Users \ {u} : pc[w] = "copyin" =>
              call[w].name \in DOMAIN partial' /\ partial'[call[w].name] = partial[call[w].name]
         /\ ~marred' /\ Undoing(u)' => StoreSafe(u)'
         /\ call'[u].alone /\ Undoing(u)' => AloneSafe(u)'
         /\ Kept \subseteq Kept' /\ "copyin" \notin Staged
    BY <1>1, <2>1, <2>3, <2>6, <2>10, <2>11, <2>12, <2>13 DEF Staged, Undoing
  <2> HIDE DEF name
  <2> QED
    BY <1>1, <2>3, <2>6, <2>14, <2>15, Framed
<1> QED
  BY <1>5, <1>6, <1>7

(* The copy is complete: from now on it is a snapshot that has those lines.   *)
LEMMA PublishSafe ==
  ASSUME NEW u \in Users, IInv, NamesInv, CountInv, DataInv, Publish(u)
  PROVE  DataInv'
<1> DEFINE name == call[u].name
<1>1. /\ dirs' = dirs /\ acked' = acked
      /\ late' = late /\ forgotten' = forgotten /\ missing' = missing /\ marred' = marred
      /\ pc[u] = "copyin" /\ Active(u) /\ call[u].todo = {}
  BY DEF Publish, Active
<1>2. ~marred => name \in DOMAIN partial /\ name \notin DOMAIN snaps
                 /\ \A v \in Users \ {u} : pc[v] = "copyin" => call[v].name # name
  BY <1>1 DEF DataInv, ApartInv
<1>3. ~marred /\ Undoing(u) => Safe(Stored \ InStaging(u))
  <2>1. Uncopied(u) = {}
    BY <1>1 DEF Uncopied
  <2> QED
    BY <1>1, <2>1 DEF DataInv, StoreSafeInv, StoreSafe, Safe
<1>4. call[u].alone /\ Undoing(u) =>
        /\ name \in DOMAIN partial /\ name \notin DOMAIN snaps /\ LatestIs(name)
        /\ Stored \subseteq InStaging(u) \cup late
  <2>1. Uncopied(u) = {}
    BY <1>1 DEF Uncopied
  <2> QED
    BY <1>1, <2>1 DEF DataInv, AloneSafeInv, AloneSafe
<1>5. CASE name \in DOMAIN partial /\ name \notin DOMAIN snaps
  <2>1. /\ Left(u) /\ pc'[u] = "prune" /\ call'[u] = call[u]
        /\ snaps' = With(snaps, name, partial[name])
        /\ partial' = Without(partial, name)
        /\ name \in New'
    BY <1>5, PublishNames
  <2>2. /\ DOMAIN snaps' = DOMAIN snaps \cup {name}
        /\ \A n \in DOMAIN snaps : snaps'[n] = snaps[n]
        /\ snaps'[name] = partial[name]
        /\ DOMAIN partial' = DOMAIN partial \ {name}
        /\ \A n \in DOMAIN partial' : partial'[n] = partial[n]
    BY <1>5, <2>1 DEF With, Without
  <2>3. InStaging(u) = Lines(snaps'[name])
    BY <1>5, <2>2 DEF InStaging
  <2>4. Captured \cup Lines(snaps'[name]) \subseteq Captured'
    BY <2>2 DEF Captured
  <2>5. Kept \cup InStaging(u) \subseteq Kept' /\ Stored' = Stored /\ SameStore
    BY <1>1, <2>3, <2>4 DEF Kept, Stored, SameStore
  <2>6. ASSUME ~marred PROVE ApartInv'
    <3>1. ASSUME NEW w \in Users, pc'[w] = "copyin"
          PROVE  /\ call'[w].name \in DOMAIN partial' /\ call'[w].name \notin DOMAIN snaps'
                 /\ call'[w].todo \cap DOMAIN partial'[call'[w].name] = {}
                 /\ \A v \in Users \ {w} : pc'[v] = "copyin" => call'[v].name # call'[w].name
      <4>1. w # u /\ pc[w] = "copyin" /\ call'[w].name = call[w].name /\ call'[w].todo = call[w].todo
        BY <2>1, <3>1 DEF Left
      <4>2. /\ call[w].name \in DOMAIN partial /\ call[w].name \notin DOMAIN snaps /\ call[w].name # name
            /\ call[w].todo \cap DOMAIN partial[call[w].name] = {}
            /\ \A v \in Users \ {w} : pc[v] = "copyin" => call[v].name # call[w].name
        BY <1>2, <2>6, <4>1 DEF DataInv, ApartInv, Fresh
      <4>3. \A v \in Users : pc'[v] = "copyin" => pc[v] = "copyin" /\ call'[v].name = call[v].name
        BY <2>1 DEF Left
      <4> QED
        BY <2>2, <4>1, <4>2, <4>3
    <3> QED
      BY <3>1 DEF ApartInv, Fresh
  <2>7. ASSUME ~marred PROVE \A w \in Users \ {u} : pc[w] = "copyin" =>
          call[w].name \in DOMAIN partial' /\ partial'[call[w].name] = partial[call[w].name]
    BY <1>2, <2>2, <2>7 DEF DataInv, ApartInv
  <2>8. ASSUME ~marred, Undoing(u) PROVE StoreSafe(u)'
    BY <1>3, <2>1, <2>5, <2>8 DEF StoreSafe, Safe
  <2>9. ASSUME call[u].alone, Undoing(u) PROVE AloneSafe(u)'
    <3>1. LatestIs(name) /\ Stored' \subseteq Lines(snaps'[name]) \cup late'
      BY <1>1, <1>4, <2>3, <2>5, <2>9
    <3>2. \A m \in DOMAIN snaps' \ {name} : Before(m, name)
      BY <2>2, <3>1 DEF LatestIs
    <3>3. SecuredAlone(u)'
      BY <2>1, <3>1, <3>2 DEF SecuredAlone, LatestIs
    <3> QED
      BY <2>1, <3>3 DEF AloneSafe
  <2>10. GoneInv'
    BY <1>1 DEF DataInv, GoneInv
  <2>11. /\ ~marred' => ~marred /\ ApartInv'
         /\ ~marred' => \A w \in Users \ {u} : pc[w] = "copyin" =>
              call[w].name \in DOMAIN partial' /\ partial'[call[w].name] = partial[call[w].name]
         /\ ~marred' /\ Undoing(u)' => StoreSafe(u)'
         /\ call'[u].alone /\ Undoing(u)' => AloneSafe(u)'
         /\ Kept \subseteq Kept' /\ "prune" \notin Staged
    BY <1>1, <2>1, <2>5, <2>6, <2>7, <2>8, <2>9 DEF Staged, Undoing
  <2> HIDE DEF name
  <2> QED
    BY <1>1, <2>1, <2>5, <2>10, <2>11, Framed
<1>6. CASE ~(name \in DOMAIN partial /\ name \notin DOMAIN snaps)
  <2>1. Taken(u) /\ snaps' = snaps /\ partial' = partial
    BY <1>6 DEF Publish
  <2> QED
    BY <1>1, <1>2, <1>4, <1>6, <2>1, TakenSafe
<1> QED
  BY <1>5, <1>6

LEMMA ListOldSafe ==
  ASSUME NEW u \in Users, IInv, NamesInv, CountInv, DataInv, ListOld(u)
  PROVE  /\ NamesInv' /\ CountInv' /\ DataInv'
<1> DEFINE c == [call[u] EXCEPT !.doomed = Beyond(DOMAIN snaps)]
<1>1. c.op = call[u].op /\ c.alone = call[u].alone /\ c.name = call[u].name /\ c.doomed = Beyond(DOMAIN snaps)
  BY DEF IInv, ShapeInv, Fields
<1>2. /\ dirs' = dirs /\ snaps' = snaps /\ partial' = partial /\ acked' = acked
      /\ late' = late /\ forgotten' = forgotten /\ missing' = missing /\ marred' = marred
      /\ clock' = clock /\ calls' = calls
      /\ pc[u] = "prune" /\ Active(u) /\ Goto(u, "remove") /\ Keep(u, c)
  BY DEF ListOld, Active, history
<1> HIDE DEF c
<1>3. pc'[u] = "remove" /\ call'[u] = c /\ Left(u)
  BY <1>2, Moved
<1>4. NamesInv' /\ CountInv'
  BY <1>1, <1>2, <1>3, NewAreKept, NamesFrame
<1>5. SameStore /\ Stored' = Stored
  BY <1>2 DEF SameStore, Stored
<1>6. ~marred /\ Undoing(u)' => Safe(Stored)
  BY <1>1, <1>2, <1>3 DEF DataInv, StoreSafeInv, StoreSafe, Secured, Undoing
<1>7. ASSUME call'[u].alone /\ Undoing(u)' PROVE SecuredAlone(u)'
  <2>1. SecuredAlone(u)
    BY <1>1, <1>2, <1>3, <1>7 DEF DataInv, AloneSafeInv, AloneSafe, Secured, Undoing
  <2> QED
    BY <1>1, <1>2, <1>3, <1>5, <2>1 DEF SecuredAlone, New, LatestIs
<1> QED
  BY <1>2, <1>3, <1>4, <1>5, <1>6, <1>7, Quiet DEF Staged

(* Who is alone removes no line but those it has in the store, of which its   *)
(* own snapshot holds a copy; what others remove is forgotten, or was         *)
(* somewhere else.                                                            *)
LEMMA RemoveSafe ==
  ASSUME NEW u \in Users, IInv, NamesInv, CountInv, DataInv, RemoveOld(u)
  PROVE  NamesInv' /\ CountInv' /\ DataInv'
<1>1. /\ dirs' = dirs /\ partial' = partial /\ acked' = acked /\ clock' = clock /\ calls' = calls
      /\ late' = late /\ missing' = missing /\ marred' = marred
      /\ pc[u] = "remove" /\ Active(u)
  BY DEF RemoveOld, Active
<1>2. SameStore /\ Stored' = Stored
  BY <1>1 DEF SameStore, Stored
<1>3. ~marred /\ Undoing(u) => Safe(Stored)
  BY <1>1 DEF DataInv, StoreSafeInv, StoreSafe, Secured
<1>4. call[u].alone /\ Undoing(u) => SecuredAlone(u)
  BY <1>1 DEF DataInv, AloneSafeInv, AloneSafe, Secured
<1>5. CASE call[u].doomed = {}
  <2>1. Taken(u) /\ snaps' = snaps /\ forgotten' = forgotten
    BY <1>5 DEF RemoveOld
  <2>2. Left(u) /\ call'[u].doomed = {} /\ pc'[u] \in {"stage", "idle"}
    BY <1>1, <2>1, MovedTaken
  <2>3. NamesInv' /\ CountInv'
    BY <1>1, <2>1, <2>2, NamesFrame
  <2> QED
    BY <1>1, <1>3, <1>4, <2>1, <2>3, TakenSafe
<1>6. CASE call[u].doomed # {}
  <2>1. PICK n \in call[u].doomed :
          /\ \/ /\ n \in DOMAIN snaps
                /\ \E f \in DOMAIN snaps[n] : snaps' = [snaps EXCEPT ![n] = Without(@, f)]
                /\ call' = call
             \/ /\ snaps' = Without(snaps, n)
                /\ Keep(u, [call[u] EXCEPT !.doomed = @ \ {n}])
          /\ forgotten' = forgotten \cup ((Captured \ Captured') \ Elsewhere(u))
          /\ pc' = pc
    BY <1>6 DEF RemoveOld
  <2>2. n[1] = 0
    BY DEF NamesInv
  <2>3. /\ pc'[u] = "remove" /\ Left(u) /\ call'[u].op = call[u].op /\ call'[u].alone = call[u].alone
        /\ call'[u].name = call[u].name /\ call'[u].doomed \subseteq call[u].doomed
    <3>1. Goto(u, "remove")
      BY <1>1, <2>1 DEF Goto, IInv, ShapeInv
    <3>2. CASE call' = call
      BY <1>1, <3>1, <3>2, MovedSameCall
    <3>3. CASE Keep(u, [call[u] EXCEPT !.doomed = @ \ {n}])
      <4> DEFINE c == [call[u] EXCEPT !.doomed = @ \ {n}]
      <4>1. c.op = call[u].op /\ c.alone = call[u].alone /\ c.name = call[u].name
            /\ c.doomed = call[u].doomed \ {n}
        BY DEF IInv, ShapeInv, Fields
      <4>2. Keep(u, c)
        BY <3>3
      <4> HIDE DEF c
      <4>3. pc'[u] = "remove" /\ call'[u] = c /\ Left(u)
        BY <1>1, <3>1, <4>2, Moved
      <4> QED
        BY <4>1, <4>3
    <3> QED
      BY <2>1, <3>2, <3>3
  <2>4. /\ DOMAIN snaps' \in {DOMAIN snaps, DOMAIN snaps \ {n}}
        /\ \A m \in DOMAIN snaps \ {n} : m \in DOMAIN snaps' /\ snaps'[m] = snaps[m]
    BY <2>1 DEF Without
  <2>5. NamesInv' /\ CountInv' /\ New' = New
    BY <1>1, <2>2, <2>3, <2>4, RemoveNames
  <2>6. ASSUME call[u].alone, Undoing(u) PROVE SecuredAlone(u)'
    <3>1. CASE Stored \subseteq late
      BY <1>1, <1>2, <3>1 DEF SecuredAlone
    <3>2. CASE ~(Stored \subseteq late)
      <4>1. /\ call[u].name \in New /\ LatestIs(call[u].name)
            /\ Stored \subseteq Lines(snaps[call[u].name]) \cup late
        BY <1>4, <2>6, <3>2 DEF SecuredAlone
      <4>2. call[u].name \in DOMAIN snaps \ {n}
        BY <2>2, <4>1 DEF New
      <4>3. snaps'[call[u].name] = snaps[call[u].name]
        BY <2>4, <4>2
      <4>4. \A m \in DOMAIN snaps' \ {call[u].name} : Before(m, call[u].name)
        BY <2>4, <4>1 DEF LatestIs
      <4> QED
        BY <1>1, <1>2, <2>3, <2>5, <4>1, <4>3, <4>4 DEF SecuredAlone, LatestIs
    <3> QED
      BY <3>1, <3>2
  <2>7. GoneInv'
    BY <1>1 DEF DataInv, GoneInv
  <2>8. ~marred => ApartInv'
    <3> SUFFICES ASSUME ~marred, NEW w \in Users, pc'[w] = "copyin"
                 PROVE  /\ call'[w].name \in DOMAIN partial' /\ call'[w].name \notin DOMAIN snaps'
                        /\ call'[w].todo \cap DOMAIN partial'[call'[w].name] = {}
                        /\ \A v \in Users \ {w} : pc'[v] = "copyin" => call'[v].name # call'[w].name
      BY DEF ApartInv, Fresh
    <3>1. w # u /\ pc[w] = "copyin" /\ call'[w].name = call[w].name /\ call'[w].todo = call[w].todo
      BY <2>3 DEF Left
    <3>2. /\ call[w].name \in DOMAIN partial /\ call[w].name \notin DOMAIN snaps
          /\ call[w].todo \cap DOMAIN partial[call[w].name] = {}
          /\ \A v \in Users \ {w} : pc[v] = "copyin" => call[v].name # call[w].name
      BY <3>1 DEF DataInv, ApartInv, Fresh
    <3>3. \A v \in Users : pc'[v] = "copyin" => pc[v] = "copyin" /\ call'[v].name = call[v].name
      BY <2>3 DEF Left
    <3> QED
      BY <1>1, <2>4, <3>1, <3>2, <3>3
  <2>9. CASE call[u].alone
    <3>1. \A w \in Users \ {u} : ~Active(w) /\ pc'[w] = "idle" /\ ~call'[w].alone
      BY <2>3, <2>9 DEF IInv, AloneInv, Active, Left
    <3>2. Kept \subseteq Kept' \cup Stored
      BY <1>1, <2>1, <2>9 DEF Kept, Elsewhere
    <3>3. ASSUME Undoing(u)' PROVE AloneSafe(u)' /\ StoreSafe(u)'
      <4>1. SecuredAlone(u)'
        BY <2>3, <2>6, <2>9, <3>3 DEF Undoing
      <4>2. Stored' \subseteq Kept'
        <5>1. \A m \in DOMAIN snaps' : Lines(snaps'[m]) \subseteq Captured'
          BY DEF Captured
        <5> QED
          BY <4>1, <5>1 DEF SecuredAlone, New, Kept
      <4> QED
        BY <2>3, <4>1, <4>2 DEF AloneSafe, StoreSafe, Safe
    <3>4. AloneSafeInv' /\ StagedInv'
      BY <2>3, <3>1, <3>3 DEF AloneSafeInv, StagedInv, Staged
    <3>5. StoreSafeInv'
      <4>1. \A w \in Users \ {u} : StoreSafe(w)'
        BY <3>1 DEF StoreSafe, Secured
      <4> QED
        BY <3>3, <4>1 DEF StoreSafeInv
    <3>6. ~marred => acked \subseteq Stored \cup Kept'
      BY <3>2 DEF DataInv
    <3> QED
      BY <1>1, <1>2, <2>5, <2>7, <2>8, <3>4, <3>5, <3>6 DEF DataInv
  <2>10. CASE ~call[u].alone
    <3>1. Kept \subseteq Kept'
      BY <1>1, <2>1, <2>10 DEF Kept, Elsewhere
    <3>2. ~marred' /\ Undoing(u)' => StoreSafe(u)'
      BY <1>1, <1>2, <1>3, <2>3, <3>1 DEF StoreSafe, Safe, Undoing
    <3>3. ~marred' => \A w \in Users \ {u} : pc[w] = "copyin" =>
            call[w].name \in DOMAIN partial' /\ partial'[call[w].name] = partial[call[w].name]
      BY <1>1 DEF DataInv, ApartInv
    <3>4. ~marred' => ~marred /\ ApartInv'
      BY <1>1, <2>8
    <3> QED
      BY <1>1, <1>2, <2>3, <2>5, <2>7, <2>10, <3>1, <3>2, <3>3, <3>4, Framed DEF Staged
  <2> QED
    BY <2>9, <2>10
<1> QED
  BY <1>5, <1>6

-----------------------------------------------------------------------------
(* restore().                                                                 *)

(* An exception, or the end: the store is there as it was.                    *)
LEMMA ReturnSafe ==
  ASSUME NEW u \in Users, IInv, NamesInv, CountInv, DataInv, Active(u), Return(u), SameStore,
         acked' = acked, snaps' = snaps, partial' = partial, late' = late,
         forgotten' = forgotten, missing' = missing, marred' = marred, clock' = clock, calls' = calls,
         "restoring" \in DOMAIN dirs' =>
           "restoring" \in DOMAIN dirs /\ dirs'["restoring"] = dirs["restoring"]
  PROVE  NamesInv' /\ CountInv' /\ DataInv'
<1>1. pc'[u] = "idle" /\ Left(u) /\ call'[u].doomed = {}
  BY MovedAway
<1>2. NamesInv' /\ CountInv'
  BY <1>1, NamesFrame
<1>3. "idle" \notin Secured /\ "idle" \notin Staged
  BY DEF Secured, Staged
<1> QED
  BY <1>1, <1>2, <1>3, Quiet

LEMMA StageSafe ==
  ASSUME NEW u \in Users, IInv, NamesInv, CountInv, DataInv, Stage(u)
  PROVE  NamesInv' /\ CountInv' /\ DataInv'
<1>1. /\ snaps' = snaps /\ partial' = partial /\ acked' = acked /\ clock' = clock /\ calls' = calls
      /\ late' = late /\ forgotten' = forgotten /\ missing' = missing /\ marred' = marred
      /\ pc[u] = "stage" /\ Active(u)
  BY DEF Stage, Active, history
<1>2. CASE call[u].chosen \in DOMAIN snaps
  <2> DEFINE c == [call[u] EXCEPT !.todo = DOMAIN snaps[call[u].chosen]]
  <2>1. c.op = call[u].op /\ c.alone = call[u].alone /\ c.name = call[u].name /\ c.doomed = call[u].doomed
    BY DEF IInv, ShapeInv, Fields
  <2>2. Goto(u, "copyout") /\ Keep(u, c) /\ dirs' = With(dirs, "restoring", Empty)
    BY <1>2 DEF Stage
  <2> HIDE DEF c
  <2>3. pc'[u] = "copyout" /\ call'[u] = c /\ Left(u)
    BY <1>1, <2>2, Moved
  <2>4. SameStore /\ Stored' = Stored /\ Lines(dirs'["restoring"]) = {}
    BY <2>2 DEF SameStore, Stored, With, Empty, Lines
  <2>5. NamesInv' /\ CountInv'
    <3>1. \A n \in call'[u].doomed : n[1] = 0
      BY <2>1, <2>3 DEF NamesInv
    <3> QED
      BY <1>1, <2>3, <3>1, NamesFrame
  <2>6. ~marred /\ Undoing(u)' => Safe(Stored)
    BY <1>1, <2>1, <2>3 DEF DataInv, StoreSafeInv, StoreSafe, Secured, Undoing
  <2>7. ASSUME call'[u].alone /\ Undoing(u)' PROVE SecuredAlone(u)'
    <3>1. SecuredAlone(u)
      BY <1>1, <2>1, <2>3, <2>7 DEF DataInv, AloneSafeInv, AloneSafe, Secured, Undoing
    <3> QED
      BY <1>1, <2>1, <2>3, <2>4, <3>1 DEF SecuredAlone, New, LatestIs
  <2>8. Lines(dirs'["restoring"]) \subseteq Kept
    BY <2>4
  <2> QED
    BY <1>1, <2>3, <2>4, <2>5, <2>6, <2>7, <2>8, Quiet
<1>3. CASE call[u].chosen \notin DOMAIN snaps
  <2>1. dirs' = Without(dirs, "restoring") /\ Return(u)
    BY <1>3 DEF Stage
  <2>2. SameStore /\ "restoring" \notin DOMAIN dirs'
    BY <2>1 DEF SameStore, Without
  <2> QED
    BY <1>1, <2>1, <2>2, ReturnSafe
<1> QED
  BY <1>2, <1>3

(* A line that is staged is in a snapshot.                                    *)
LEMMA CopyOutSafe ==
  ASSUME NEW u \in Users, IInv, NamesInv, CountInv, DataInv, CopyOut(u)
  PROVE  NamesInv' /\ CountInv' /\ DataInv'
<1>1. /\ snaps' = snaps /\ partial' = partial /\ acked' = acked /\ clock' = clock /\ calls' = calls
      /\ late' = late /\ forgotten' = forgotten /\ missing' = missing /\ marred' = marred
      /\ pc[u] = "copyout" /\ Active(u)
  BY DEF CopyOut, Active, history
<1> DEFINE n == call[u].chosen
<1>2. PICK f \in call[u].todo :
        \/ /\ n \in DOMAIN snaps /\ f \in DOMAIN snaps[n] /\ "restoring" \in DOMAIN dirs
           /\ dirs' = [dirs EXCEPT !["restoring"] = With(@, f, snaps[n][f])]
           /\ Keep(u, [call[u] EXCEPT !.todo = @ \ {f}])
           /\ pc' = pc
        \/ Return(u) /\ dirs' = dirs
  BY DEF CopyOut
<1>3. CASE /\ n \in DOMAIN snaps /\ f \in DOMAIN snaps[n] /\ "restoring" \in DOMAIN dirs
           /\ dirs' = [dirs EXCEPT !["restoring"] = With(@, f, snaps[n][f])]
           /\ Keep(u, [call[u] EXCEPT !.todo = @ \ {f}])
           /\ pc' = pc
  <2> DEFINE c == [call[u] EXCEPT !.todo = @ \ {f}]
  <2>1. c.op = call[u].op /\ c.alone = call[u].alone /\ c.name = call[u].name /\ c.doomed = call[u].doomed
    BY DEF IInv, ShapeInv, Fields
  <2>2. Goto(u, "copyout") /\ Keep(u, c)
    BY <1>1, <1>3 DEF Goto, IInv, ShapeInv
  <2> HIDE DEF c
  <2>3. pc'[u] = "copyout" /\ call'[u] = c /\ Left(u)
    BY <1>1, <2>2, Moved
  <2>4. /\ DOMAIN dirs' = DOMAIN dirs
        /\ \A p \in DOMAIN dirs \ {"restoring"} : dirs'[p] = dirs[p]
        /\ dirs'["restoring"] = With(dirs["restoring"], f, snaps[n][f])
    BY <1>3
  <2>5. SameStore /\ Stored' = Stored
    BY <2>4 DEF SameStore, Stored
  <2>6. Lines(dirs'["restoring"]) \subseteq Kept
    <3> DEFINE d == dirs["restoring"]
               e == With(d, f, snaps[n][f])
    <3>1. Lines(d) \subseteq Kept
      BY <1>1, <1>3 DEF DataInv, StagedInv, Staged, Safe
    <3>2. snaps[n][f] \subseteq Kept
      BY <1>3 DEF Kept, Captured, Lines
    <3>3. DOMAIN e = DOMAIN d \cup {f} /\ e[f] = snaps[n][f] /\ \A g \in DOMAIN d \ {f} : e[g] = d[g]
      BY DEF With
    <3>4. dirs'["restoring"] = e
      BY <2>4
    <3> HIDE DEF d, e
    <3>5. Lines(e) \subseteq Kept
      BY <3>1, <3>2, <3>3 DEF Lines
    <3> QED
      BY <3>4, <3>5
  <2>7. NamesInv' /\ CountInv'
    <3>1. \A m \in call'[u].doomed : m[1] = 0
      BY <2>1, <2>3 DEF NamesInv
    <3> QED
      BY <1>1, <2>3, <3>1, NamesFrame
  <2>8. ~marred /\ Undoing(u)' => Safe(Stored)
    BY <1>1, <2>1, <2>3 DEF DataInv, StoreSafeInv, StoreSafe, Secured, Undoing
  <2>9. ASSUME call'[u].alone /\ Undoing(u)' PROVE SecuredAlone(u)'
    <3>1. SecuredAlone(u)
      BY <1>1, <2>1, <2>3, <2>9 DEF DataInv, AloneSafeInv, AloneSafe, Secured, Undoing
    <3> QED
      BY <1>1, <2>1, <2>3, <2>5, <3>1 DEF SecuredAlone, New, LatestIs
  <2> QED
    BY <1>1, <2>3, <2>5, <2>6, <2>7, <2>8, <2>9, Quiet
<1>4. CASE Return(u) /\ dirs' = dirs
  <2>1. SameStore
    BY <1>4 DEF SameStore
  <2> QED
    BY <1>1, <1>4, <2>1, ReturnSafe
<1> QED
  BY <1>2, <1>3, <1>4

LEMMA ClearSafe ==
  ASSUME NEW u \in Users, IInv, NamesInv, CountInv, DataInv, Clear(u)
  PROVE  NamesInv' /\ CountInv' /\ DataInv'
<1>1. /\ snaps' = snaps /\ partial' = partial /\ acked' = acked /\ clock' = clock /\ calls' = calls
      /\ late' = late /\ forgotten' = forgotten /\ missing' = missing /\ marred' = marred
      /\ pc[u] = "copyout" /\ Active(u) /\ Goto(u, "aside") /\ call' = call
      /\ dirs' = Without(dirs, "previous")
  BY DEF Clear, Active, history
<1>2. pc'[u] = "aside" /\ call'[u] = call[u] /\ Left(u)
  BY <1>1, MovedSameCall
<1>3. /\ SameStore /\ Stored' = Stored
      /\ "restoring" \in DOMAIN dirs' =>
           "restoring" \in DOMAIN dirs /\ dirs'["restoring"] = dirs["restoring"]
  BY <1>1 DEF SameStore, Stored, Without
<1>4. NamesInv' /\ CountInv'
  <2>1. \A n \in call'[u].doomed : n[1] = 0
    BY <1>2 DEF NamesInv
  <2> QED
    BY <1>1, <1>2, <2>1, NamesFrame
<1>5. ~marred /\ Undoing(u)' => Safe(Stored)
  BY <1>1, <1>2 DEF DataInv, StoreSafeInv, StoreSafe, Secured, Undoing
<1>6. ASSUME call'[u].alone /\ Undoing(u)' PROVE SecuredAlone(u)'
  <2>1. SecuredAlone(u)
    BY <1>1, <1>2, <1>6 DEF DataInv, AloneSafeInv, AloneSafe, Secured, Undoing
  <2> QED
    BY <1>1, <1>2, <1>3, <2>1 DEF SecuredAlone, New, LatestIs
<1> QED
  BY <1>1, <1>2, <1>3, <1>4, <1>5, <1>6, Quiet DEF Staged

LEMMA NewestIsLatest ==
  ASSUME NamesInv, NEW n \in DOMAIN snaps, LatestIs(n)
  PROVE  Newest(DOMAIN snaps) = n
<1>1. \A m \in DOMAIN snaps : m[1] \in Nat /\ m[2] \in Nat
  BY DEF NamesInv, Name
<1>2. \A m \in DOMAIN snaps \ {n} : Before(m, n) /\ ~Before(n, m)
  BY <1>1 DEF LatestIs, Before
<1>3. \A m \in DOMAIN snaps : (\A k \in DOMAIN snaps \ {m} : Before(k, m)) => m = n
  BY <1>2
<1> QED
  BY <1>2, <1>3 DEF Newest

(* The store is moved away: what it held is in a snapshot, in the newest when *)
(* the restore runs alone.                                                    *)
LEMMA AsideSafe ==
  ASSUME NEW u \in Users, IInv, NamesInv, CountInv, DataInv, Aside(u)
  PROVE  NamesInv' /\ CountInv' /\ DataInv'
<1>1. /\ snaps' = snaps /\ partial' = partial /\ acked' = acked /\ clock' = clock /\ calls' = calls
      /\ late' = late /\ forgotten' = forgotten /\ marred' = marred
      /\ pc[u] = "aside" /\ Active(u) /\ Undoing(u)
  BY DEF Aside, Active, IInv, ShapeInv, Restoring, Undoing
<1>2. ASSUME Goto(u, "swap"), call' = call
      PROVE  pc'[u] = "swap" /\ call'[u] = call[u] /\ Left(u) /\ NamesInv' /\ CountInv'
  <2>1. pc'[u] = "swap" /\ call'[u] = call[u] /\ Left(u)
    BY <1>1, <1>2, MovedSameCall
  <2>2. \A n \in call'[u].doomed : n[1] = 0
    BY <2>1 DEF NamesInv
  <2> QED
    BY <1>1, <2>1, <2>2, NamesFrame
<1>3. CASE "store" \notin DOMAIN dirs /\ Goto(u, "swap") /\ UNCHANGED <<dirs, call, missing>>
  <2>1. SameStore /\ "swap" \notin Secured /\ "aside" \in Staged
    BY <1>3 DEF SameStore, Secured, Staged
  <2> QED
    BY <1>1, <1>2, <1>3, <2>1, Quiet
<1>4. CASE /\ "store" \in DOMAIN dirs
           /\ dirs' = With(Without(dirs, "store"), "previous", dirs["store"])
           /\ missing' = IF call[u].alone THEN Stored ELSE {}
           /\ Goto(u, "swap") /\ call' = call
  <2>1. pc'[u] = "swap" /\ call'[u] = call[u] /\ Left(u) /\ NamesInv' /\ CountInv'
    BY <1>2, <1>4
  <2>2. /\ "store" \notin DOMAIN dirs'
        /\ "restoring" \in DOMAIN dirs' =>
             "restoring" \in DOMAIN dirs /\ dirs'["restoring"] = dirs["restoring"]
    BY <1>4 DEF With, Without
  <2>3. Stored' = {} /\ Captured' = Captured /\ Kept' = Kept
    BY <1>1, <2>2 DEF Stored, Captured, Kept
  <2>4. AloneSafeInv'
    BY <2>1 DEF AloneSafeInv, AloneSafe, Left, Secured
  <2>5. StagedInv'
    BY <1>1, <2>1, <2>2, <2>3 DEF DataInv, StagedInv, Staged, Safe, Left
  <2>6. GoneInv'
    <3> SUFFICES ASSUME missing' # {}
                 PROVE  /\ \A w \in Users : pc'[w] \notin {"copyin", "prune", "remove"}
                        /\ missing' \ late \subseteq Lines(snaps[Newest(DOMAIN snaps)])
      BY <1>1 DEF GoneInv
    <3>1. call[u].alone /\ missing' = Stored
      BY <1>4
    <3>2. \A w \in Users : pc'[w] \notin {"copyin", "prune", "remove"}
      BY <2>1, <3>1 DEF IInv, AloneInv, Active, Left
    <3>3. SecuredAlone(u)
      BY <1>1, <3>1 DEF DataInv, AloneSafeInv, AloneSafe, Secured
    <3>4. CASE Stored \subseteq late
      BY <3>1, <3>2, <3>4
    <3>5. CASE ~(Stored \subseteq late)
      <4>1. /\ call[u].name \in DOMAIN snaps /\ LatestIs(call[u].name)
            /\ Stored \subseteq Lines(snaps[call[u].name]) \cup late
        BY <3>3, <3>5 DEF SecuredAlone, New
      <4>2. Newest(DOMAIN snaps) = call[u].name
        BY <4>1, NewestIsLatest
      <4> QED
        BY <3>1, <3>2, <4>1, <4>2
    <3> QED
      BY <3>4, <3>5
  <2>7. ASSUME ~marred PROVE ApartInv'
    BY <1>1, <2>1, <2>7 DEF DataInv, ApartInv, Fresh, Left
  <2>8. StoreSafeInv'
    BY <2>3 DEF StoreSafeInv, StoreSafe, Safe
  <2>9. ASSUME ~marred PROVE acked \subseteq Kept
    <3>1. Safe(Stored)
      BY <1>1, <2>9 DEF DataInv, StoreSafeInv, StoreSafe, Secured
    <3> QED
      BY <2>9, <3>1 DEF DataInv, Safe
  <2> QED
    BY <1>1, <2>1, <2>3, <2>4, <2>5, <2>6, <2>7, <2>8, <2>9 DEF DataInv
<1>5. CASE Return(u) /\ UNCHANGED <<dirs, missing>>
  <2>1. SameStore
    BY <1>5 DEF SameStore
  <2> QED
    BY <1>1, <1>5, <2>1, ReturnSafe
<1> QED
  BY <1>3, <1>4, <1>5 DEF Aside

(* A rename succeeds where there is no store, or an empty one.                *)
LEMMA SwapSafe ==
  ASSUME NEW u \in Users, IInv, NamesInv, CountInv, DataInv, Swap(u)
  PROVE  NamesInv' /\ CountInv' /\ DataInv'
<1>1. /\ snaps' = snaps /\ partial' = partial /\ acked' = acked /\ clock' = clock /\ calls' = calls
      /\ late' = late /\ forgotten' = forgotten /\ marred' = marred
      /\ pc[u] = "swap" /\ Active(u)
  BY DEF Swap, Active
<1>2. CASE "restoring" \in DOMAIN dirs /\ ~Occupied("store")
  <2>1. /\ dirs' = With(Without(dirs, "restoring"), "store", dirs["restoring"])
        /\ missing' = {} /\ Goto(u, "drop") /\ call' = call
    BY <1>2 DEF Swap
  <2>2. pc'[u] = "drop" /\ call'[u] = call[u] /\ Left(u)
    BY <1>1, <2>1, MovedSameCall
  <2>3. NamesInv' /\ CountInv'
    <3>1. \A n \in call'[u].doomed : n[1] = 0
      BY <2>2 DEF NamesInv
    <3> QED
      BY <1>1, <2>2, <3>1, NamesFrame
  <2>4. /\ "store" \in DOMAIN dirs' /\ dirs'["store"] = dirs["restoring"]
        /\ "restoring" \notin DOMAIN dirs'
    BY <2>1 DEF With, Without
  <2>5. Captured' = Captured /\ Kept' = Kept /\ Stored' \subseteq Kept
    <3>1. Lines(dirs["restoring"]) \subseteq Kept
      BY <1>1, <1>2 DEF DataInv, StagedInv, Staged, Safe
    <3> QED
      BY <1>1, <2>4, <3>1 DEF Captured, Kept, Stored
  <2>6. Stored = {}
    BY <1>2 DEF Stored, Occupied, Lines
  <2>7. AloneSafeInv'
    BY <2>2 DEF AloneSafeInv, AloneSafe, Left, Secured
  <2>8. StagedInv' /\ GoneInv'
    BY <2>1, <2>4 DEF StagedInv, GoneInv
  <2>9. ASSUME ~marred PROVE ApartInv'
    BY <1>1, <2>2, <2>9 DEF DataInv, ApartInv, Fresh, Left
  <2>10. StoreSafeInv'
    BY <2>5 DEF StoreSafeInv, StoreSafe, Safe
  <2>11. ASSUME ~marred PROVE acked' \subseteq Stored' \cup Kept'
    BY <1>1, <2>5, <2>6, <2>11 DEF DataInv
  <2> QED
    BY <1>1, <2>3, <2>7, <2>8, <2>9, <2>10, <2>11 DEF DataInv
<1>3. CASE ~("restoring" \in DOMAIN dirs /\ ~Occupied("store"))
  <2>1. Return(u) /\ dirs' = dirs /\ missing' = missing
    BY <1>3 DEF Swap
  <2>2. SameStore
    BY <2>1 DEF SameStore
  <2> QED
    BY <1>1, <2>1, <2>2, ReturnSafe
<1> QED
  BY <1>2, <1>3

LEMMA DropSafe ==
  ASSUME NEW u \in Users, IInv, NamesInv, CountInv, DataInv, Drop(u)
  PROVE  NamesInv' /\ CountInv' /\ DataInv'
<1>1. /\ snaps' = snaps /\ partial' = partial /\ acked' = acked /\ clock' = clock /\ calls' = calls
      /\ late' = late /\ forgotten' = forgotten /\ missing' = missing /\ marred' = marred
      /\ Active(u) /\ Return(u) /\ dirs' = Without(dirs, "previous")
  BY DEF Drop, Active, history
<1>2. /\ SameStore
      /\ "restoring" \in DOMAIN dirs' =>
           "restoring" \in DOMAIN dirs /\ dirs'["restoring"] = dirs["restoring"]
  BY <1>1 DEF SameStore, Without
<1> QED
  BY <1>1, <1>2, ReturnSafe

LEMMA CrashSafe ==
  ASSUME NEW u \in Users, IInv, NamesInv, CountInv, DataInv, Crash(u)
  PROVE  NamesInv' /\ CountInv' /\ DataInv'
<1>1. /\ snaps' = snaps /\ partial' = partial /\ acked' = acked /\ clock' = clock /\ calls' = calls
      /\ late' = late /\ forgotten' = forgotten /\ missing' = missing /\ marred' = marred
      /\ Active(u) /\ Return(u) /\ dirs' = dirs
  BY DEF Crash, history
<1>2. SameStore
  BY <1>1 DEF SameStore
<1> QED
  BY <1>1, <1>2, ReturnSafe

(* A line that is appended is in the store; while an undo is past the choice  *)
(* of its name, it is one of those that the undo may miss.                    *)
LEMMA AppendSafe ==
  ASSUME IInv, NamesInv, CountInv, DataInv, AppendLine
  PROVE  NamesInv' /\ CountInv' /\ DataInv'
<1> DEFINE store == IF "store" \in DOMAIN dirs THEN dirs["store"] ELSE Empty
           old(l) == IF Home[l] \in DOMAIN store THEN store[Home[l]] ELSE {}
<1>1. PICK l \in Line \ acked :
        /\ dirs' = With(dirs, "store", With(store, Home[l], old(l) \cup {l}))
        /\ acked' = acked \cup {l}
        /\ late' = IF \E u \in Users : call[u].op = "undo" /\ pc[u] \notin {"idle", "name"}
                   THEN late \cup {l} ELSE late
        /\ missing' = {}
        /\ snaps' = snaps /\ partial' = partial /\ clock' = clock /\ pc' = pc /\ call' = call
        /\ calls' = calls /\ forgotten' = forgotten /\ marred' = marred
  BY DEF AppendLine
<1>2. /\ "store" \in DOMAIN dirs'
      /\ "restoring" \in DOMAIN dirs' =>
           "restoring" \in DOMAIN dirs /\ dirs'["restoring"] = dirs["restoring"]
      /\ dirs'["store"] = With(store, Home[l], old(l) \cup {l})
  BY <1>1 DEF With
<1>3. /\ DOMAIN store \subseteq DOMAIN dirs'["store"]
      /\ \A f \in DOMAIN store : store[f] \subseteq dirs'["store"][f]
      /\ Lines(dirs'["store"]) = Lines(store) \cup {l}
  <2> DEFINE e == With(store, Home[l], old(l) \cup {l})
  <2>1. DOMAIN e = DOMAIN store \cup {Home[l]} /\ e[Home[l]] = old(l) \cup {l}
        /\ \A f \in DOMAIN store \ {Home[l]} : e[f] = store[f]
    BY DEF With
  <2>2. old(l) = IF Home[l] \in DOMAIN store THEN store[Home[l]] ELSE {}
    OBVIOUS
  <2>3. dirs'["store"] = e
    BY <1>2
  <2> HIDE DEF e, old, store
  <2>4. Lines(e) = Lines(store) \cup {l}
    BY <2>1, <2>2 DEF Lines
  <2>5. DOMAIN store \subseteq DOMAIN e /\ \A f \in DOMAIN store : store[f] \subseteq e[f]
    BY <2>1, <2>2
  <2> QED
    BY <2>3, <2>4, <2>5
<1>4. Lines(store) = Stored
  BY DEF Stored, Lines, Empty
<1>5. Stored' = Stored \cup {l}
  BY <1>2, <1>3, <1>4 DEF Stored
<1>6. "store" \in DOMAIN dirs => store = dirs["store"]
  OBVIOUS
<1> HIDE DEF store, old
<1>7. Captured' = Captured /\ late \subseteq late' /\ Kept \subseteq Kept'
  BY <1>1 DEF Captured, Kept
<1>8. \A u \in Users : Undoing(u) /\ pc[u] \notin {"idle", "name"} => l \in late' /\ l \in Kept'
  BY <1>1 DEF Undoing, Kept
<1>9. \A u \in Users : (Copying(u) => Copying(u)' /\ Uncopied(u) \subseteq Uncopied(u)')
                       /\ InStaging(u)' = InStaging(u)
  <2> TAKE u \in Users
  <2>1. InStaging(u)' = InStaging(u)
    BY <1>1 DEF InStaging
  <2>2. ASSUME Copying(u) PROVE Copying(u)' /\ Uncopied(u) \subseteq Uncopied(u)'
    <3>1. "store" \in DOMAIN dirs /\ call[u].todo \subseteq DOMAIN dirs["store"] /\ store = dirs["store"]
      BY <1>6, <2>2 DEF Copying
    <3>2. Copying(u)'
      BY <1>1, <1>2, <1>3, <3>1 DEF Copying
    <3>3. Uncopied(u) \subseteq Uncopied(u)'
      BY <1>1, <1>3, <3>1 DEF Uncopied
    <3> QED
      BY <3>2, <3>3
  <2> QED
    BY <2>1, <2>2
<1>10. NamesInv' /\ CountInv'
  BY <1>1 DEF NamesInv, CountInv, New, Underway, Begun
<1>11. ASSUME NEW u \in Users, call[u].alone, Undoing(u) PROVE AloneSafe(u)'
  <2>1. AloneSafe(u)
    BY <1>11 DEF DataInv, AloneSafeInv
  <2>2. ASSUME pc[u] = "copyin"
        PROVE  /\ call[u].name \in DOMAIN partial /\ call[u].name \notin DOMAIN snaps
               /\ LatestIs(call[u].name) /\ Fresh(u) /\ Copying(u)'
               /\ Stored' \subseteq InStaging(u)' \cup Uncopied(u)' \cup late'
    BY <1>5, <1>7, <1>8, <1>9, <1>11, <2>1, <2>2 DEF AloneSafe
  <2>3. ASSUME pc[u] \in Secured PROVE SecuredAlone(u)'
    <3>1. l \in late'
      BY <1>8, <1>11, <2>3 DEF Secured
    <3> QED
      BY <1>1, <1>5, <1>7, <2>1, <2>3, <3>1 DEF AloneSafe, SecuredAlone, New, LatestIs
  <2> QED
    BY <1>1, <2>2, <2>3 DEF AloneSafe, LatestIs, Fresh
<1>12. AloneSafeInv'
  BY <1>1, <1>11 DEF AloneSafeInv, Undoing
<1>13. StagedInv'
  BY <1>1, <1>2, <1>7 DEF DataInv, StagedInv, Safe
<1>14. GoneInv'
  BY <1>1 DEF GoneInv
<1>15. ASSUME ~marred PROVE ApartInv'
  BY <1>1, <1>15 DEF DataInv, ApartInv, Fresh
<1>16. ASSUME ~marred, NEW u \in Users, Undoing(u) PROVE StoreSafe(u)'
  <2>1. StoreSafe(u)
    BY <1>16 DEF DataInv, StoreSafeInv
  <2>2. CASE pc[u] = "copyin"
    <3>1. l \in Kept'
      BY <1>8, <1>16, <2>2
    <3> QED
      BY <1>1, <1>5, <1>7, <1>9, <2>1, <2>2, <3>1 DEF StoreSafe, Safe, Secured
  <2>3. CASE pc[u] # "copyin"
    <3>1. pc[u] \in Secured => l \in Kept'
      BY <1>8, <1>16 DEF Secured
    <3> QED
      BY <1>1, <1>5, <1>7, <2>1, <2>3, <3>1 DEF StoreSafe, Safe
  <2> QED
    BY <2>2, <2>3
<1>17. ~marred => StoreSafeInv'
  BY <1>1, <1>16 DEF StoreSafeInv, Undoing
<1>18. ~marred => acked' \subseteq Stored' \cup Kept'
  BY <1>1, <1>5, <1>7 DEF DataInv
<1> QED
  BY <1>1, <1>10, <1>12, <1>13, <1>14, <1>15, <1>17, <1>18 DEF DataInv

-----------------------------------------------------------------------------
LEMMA StutterSafe ==
  ASSUME NamesInv, CountInv, DataInv, UNCHANGED vars
  PROVE  NamesInv' /\ CountInv' /\ DataInv'
<1>1. /\ dirs' = dirs /\ snaps' = snaps /\ partial' = partial /\ clock' = clock /\ pc' = pc
      /\ call' = call /\ acked' = acked /\ calls' = calls
      /\ late' = late /\ forgotten' = forgotten /\ missing' = missing /\ marred' = marred
  BY DEF vars, history
<1>2. NamesInv' /\ CountInv'
  BY <1>1 DEF NamesInv, CountInv, New, Underway, Begun
<1>3. Captured' = Captured /\ Stored' = Stored /\ Kept' = Kept
  BY <1>1 DEF Captured, Stored, Kept
<1>4. AloneSafeInv'
  BY <1>1, <1>3 DEF DataInv, AloneSafeInv, AloneSafe, SecuredAlone, Undoing, New, LatestIs, Fresh,
                    Copying, InStaging, Uncopied
<1>5. StagedInv' /\ GoneInv'
  BY <1>1, <1>3 DEF DataInv, StagedInv, GoneInv, Safe
<1>6. ~marred => ApartInv' /\ StoreSafeInv' /\ acked' \subseteq Stored' \cup Kept'
  BY <1>1, <1>3 DEF DataInv, ApartInv, StoreSafeInv, StoreSafe, Undoing, Safe, Fresh,
                    Copying, InStaging, Uncopied
<1> QED
  BY <1>1, <1>2, <1>4, <1>5, <1>6 DEF DataInv

LEMMA SafeKept ==
  ASSUME "in" \notin Faults, IInv, SafeInv, [Next]_vars
  PROVE  SafeInv'
<1>1. NamesInv /\ CountInv /\ DataInv
  BY DEF SafeInv
<1>2. ASSUME NEW u \in Users, ChooseName(u) \/ CopyIn(u) \/ Publish(u)
      PROVE  NamesInv' /\ CountInv'
  <2>1. Active(u) /\ pc[u] \in {"name", "copyin"}
    BY <1>2 DEF ChooseName, CopyIn, Publish, Active
  <2>2. ASSUME Taken(u), clock' = clock, calls' = calls, snaps' = snaps
        PROVE  NamesInv' /\ CountInv'
    <3>1. Left(u) /\ call'[u].doomed = {} /\ pc'[u] \in {"stage", "idle"}
      BY <2>1, <2>2, MovedTaken
    <3> QED
      BY <1>1, <2>2, <3>1, NamesFrame
  <2>3. CASE ChooseName(u)
    <3>1. CASE "store" \in DOMAIN dirs
      BY <1>1, <2>3, <3>1, ChooseNames
    <3>2. CASE "store" \notin DOMAIN dirs
      BY <2>2, <2>3, <3>2 DEF ChooseName
    <3> QED
      BY <3>1, <3>2
  <2>4. CASE CopyIn(u)
    <3>1. clock' = clock /\ calls' = calls /\ snaps' = snaps /\ pc[u] = "copyin"
      BY <2>4 DEF CopyIn
    <3>2. PICK f \in call[u].todo :
            (Keep(u, [call[u] EXCEPT !.todo = @ \ {f}]) /\ UNCHANGED pc) \/ Taken(u)
      BY <2>4 DEF CopyIn
    <3>3. CASE Keep(u, [call[u] EXCEPT !.todo = @ \ {f}]) /\ UNCHANGED pc
      <4> DEFINE c == [call[u] EXCEPT !.todo = @ \ {f}]
      <4>1. c.name = call[u].name /\ c.doomed = call[u].doomed
        BY DEF IInv, ShapeInv, Fields
      <4>2. Goto(u, "copyin") /\ Keep(u, c)
        BY <3>1, <3>3 DEF Goto, IInv, ShapeInv
      <4> HIDE DEF c
      <4>3. pc'[u] = "copyin" /\ call'[u] = c /\ Left(u)
        BY <2>1, <4>2, Moved
      <4>4. \A n \in call'[u].doomed : n[1] = 0
        BY <1>1, <4>1, <4>3 DEF NamesInv
      <4> QED
        BY <1>1, <3>1, <4>1, <4>3, <4>4, NamesFrame
    <3>4. CASE Taken(u)
      BY <2>2, <3>1, <3>4
    <3> QED
      BY <3>2, <3>3, <3>4
  <2>5. CASE Publish(u)
    <3>1. CASE call[u].name \in DOMAIN partial /\ call[u].name \notin DOMAIN snaps
      BY <1>1, <2>5, <3>1, PublishNames
    <3>2. CASE ~(call[u].name \in DOMAIN partial /\ call[u].name \notin DOMAIN snaps)
      BY <2>2, <2>5, <3>2 DEF Publish
    <3> QED
      BY <3>1, <3>2
  <2> QED
    BY <1>2, <2>3, <2>4, <2>5
<1>3. ASSUME NEW u \in Users, Begin(u) \/ ChooseName(u) \/ CopyIn(u) \/ Publish(u)
      PROVE  NamesInv' /\ CountInv' /\ DataInv'
  BY <1>1, <1>2, <1>3, BeginNames, BeginSafe, ChooseNameSafe, CopyInSafe, PublishSafe
<1>4. ASSUME NEW u \in Users,
             ListOld(u) \/ RemoveOld(u) \/ Stage(u) \/ CopyOut(u) \/ Clear(u) \/ Aside(u) \/ Swap(u)
             \/ Drop(u) \/ Crash(u)
      PROVE  NamesInv' /\ CountInv' /\ DataInv'
  BY <1>1, <1>4, ListOldSafe, RemoveSafe, StageSafe, CopyOutSafe, ClearSafe, AsideSafe, SwapSafe,
     DropSafe, CrashSafe
<1>5. CASE AppendLine
  BY <1>1, <1>5, AppendSafe DEF SafeInv
<1>6. CASE UNCHANGED vars
  BY <1>1, <1>6, StutterSafe DEF SafeInv
<1> QED
  BY <1>3, <1>4, <1>5, <1>6 DEF Next, SafeInv

LEMMA AlwaysSafe ==
  ASSUME "in" \notin Faults
  PROVE  Spec => []SafeInv
<1>1. Init => IInv /\ SafeInv
  BY InitHolds, NamesInit, DataInit DEF SafeInv
<1>2. (IInv /\ SafeInv) /\ [Next]_vars => (IInv /\ SafeInv)'
  BY NextKeeps, SafeKept
<1> QED
  BY <1>1, <1>2, PTL DEF Spec

(* Unless a copy into a snapshot can fail, whatever was written is in the     *)
(* store or in a snapshot, through any interleaving of snapshots, undos,      *)
(* appends and kills (take, lines 129-206; restore, lines 251-330).           *)
THEOREM NothingIsDestroyed ==
  ASSUME "in" \notin Faults
  PROVE  Spec => []NothingDestroyed
<1>1. SafeInv => NothingDestroyed
  BY DEF SafeInv, DataInv, NothingDestroyed, Kept
<1> QED
  BY <1>1, AlwaysSafe, PTL

(* When an undo that ran alone was killed between its two renames, the newest *)
(* snapshot has what the store held (restore, lines 292-314).                 *)
THEOREM WhatIsGoneComesBack ==
  ASSUME "in" \notin Faults
  PROVE  Spec => []GoneComesBack
<1>1. SafeInv => GoneComesBack
  BY DEF SafeInv, DataInv, GoneInv, GoneComesBack
<1> QED
  BY <1>1, AlwaysSafe, PTL

(* UndoRestores: a restore that succeeds and ran alone leaves what was chosen,   *)
(* and the snapshot that is picked first brings back what a killed one left   *)
(* without a place, unless copies into a snapshot fail.                      *)
THEOREM UndoDoesRestore ==
  ASSUME "in" \notin Faults
  PROVE  Spec => []UndoRestores
<1>1. Spec => []RestoredIsChosen
  BY RestoresWhatWasChosen
<1>2. Spec => []GoneComesBack
  BY WhatIsGoneComesBack
<1>3. RestoredIsChosen /\ GoneComesBack => UndoRestores
  BY DEF UndoRestores
<1> QED
  BY <1>1, <1>2, <1>3, PTL

-----------------------------------------------------------------------------
(* What is derived of the store (DerivedIndexes).                             *)

StatusOf == [Decisions -> {"none", "active", "retired"}]
Adding == {"manifest", "fts", "flag", "digest"}
Refiling == {"rebuild", "manifestRead", "manifestReplace"}
Redigesting == Refiling \cup {"digestRead", "digestReplace"}
DerivedLabels ==
  {"idle", "append", "indexRead", "indexReplace", "query"} \cup Adding \cup Redigesting

SidesType ==
  /\ status \in StatusOf /\ snap \in [Procs -> StatusOf]
  /\ lines \in Nat /\ mtime \in Nat /\ storeClock \in Nat
  /\ memo \in [Procs -> Int \X Int] /\ \A p \in Procs : memo[p][2] <= lines
  /\ at \in [Procs -> DerivedLabels]
  /\ cur \in [Procs -> Decisions \cup {0}]

(* A rebuild has read no later store than the one there is; and no two          *)
(* processes add the same decision.                                          *)
OrderInv ==
  /\ \A p \in Procs, d \in Decisions : snap[p][d] = "retired" => status[d] = "retired"
  /\ \A p \in Procs : at[p] \in Adding => cur[p] \in Decisions /\ status[cur[p]] # "none"
  /\ \A p, q \in Procs : at[p] \in Adding /\ at[q] \in Adding /\ cur[p] = cur[q] => p = q

(* What the index lacks is lost, or still to be added, as far as it is trusted.  *)
Covered == ActiveIn(status) \ (lost \cup Unindexed) \subseteq fts
CoverInv ==
  /\ idxMtime = Absent \/ Covered
  /\ \A p \in Procs : memo[p] = Stamp => Covered

(* The manifest and the digest are the store's, but for what is still to be      *)
(* added, unless they are being rebuilt.                                     *)
Filed == Unfiled \subseteq ActiveIn(status) /\ man = Recount(Barring(status, Unfiled))
Digested == Undigested \subseteq ActiveIn(status) /\ dig = DigestOf(Barring(status, Undigested))
FiledInv == "manifest" \in behind \/ (\E p \in Procs : at[p] \in Refiling) \/ Filed
DigestInv == "digest" \in behind \/ (\E p \in Procs : at[p] \in Redigesting) \/ Digested

SidesInv == SidesType /\ OrderInv /\ CoverInv /\ FiledInv /\ DigestInv

LEMMA PendingStays ==
  ASSUME SidesType, NEW p \in Procs, NEW labels, NEW l, at' = [at EXCEPT ![p] = l],
         l \in labels <=> at[p] \in labels,
         \A q \in Procs : at[q] \in labels => cur'[q] = cur[q]
  PROVE  Pending(labels)' = Pending(labels)
<1>1. \A q \in Procs : at'[q] \in labels <=> at[q] \in labels
  BY DEF SidesType
<1> QED BY <1>1 DEF Pending

LEMMA PendingGains ==
  ASSUME SidesType, NEW p \in Procs, NEW labels, NEW l, at' = [at EXCEPT ![p] = l],
         l \in labels, at[p] \notin labels, NEW d, cur' = [cur EXCEPT ![p] = d]
  PROVE  Pending(labels)' = Pending(labels) \cup {d}
<1>1. at'[p] \in labels /\ cur'[p] = d
      /\ \A q \in Procs \ {p} : cur'[q] = cur[q] /\ at'[q] = at[q]
  BY DEF SidesType
<1> QED BY <1>1 DEF Pending

LEMMA PendingLoses ==
  ASSUME SidesType, OrderInv, NEW p \in Procs, NEW labels \in SUBSET Adding, NEW l,
         at' = [at EXCEPT ![p] = l], l \notin labels, at[p] \in labels,
         \A q \in Procs \ {p} : cur'[q] = cur[q]
  PROVE  Pending(labels)' = Pending(labels) \ {cur[p]}
<1>1. at'[p] \notin labels /\ \A q \in Procs \ {p} : cur'[q] = cur[q] /\ at'[q] = at[q]
  BY DEF SidesType
<1>2. \A q \in Procs \ {p} : at[q] \in labels => cur[q] # cur[p]
  BY DEF OrderInv
<1> QED BY <1>1, <1>2 DEF Pending

LEMMA PendingIsRecorded ==
  ASSUME OrderInv, NEW labels \in SUBSET Adding
  PROVE  /\ Pending(labels) \subseteq Decisions
         /\ \A d \in Pending(labels) : status[d] # "none"
BY DEF OrderInv, Pending

LEMMA PartsOfAdding ==
  {"manifest"} \in SUBSET Adding /\ {"manifest", "fts", "flag"} \in SUBSET Adding
  /\ {"manifest", "fts", "flag", "digest"} = Adding
BY DEF Adding

(* An added decision counts once.                                            *)
LEMMA CountsOne ==
  ASSUME NEW st \in StatusOf, NEW ds \in SUBSET Decisions, NEW d \in ds, st[d] = "active"
  PROVE  LET old == Recount(Barring(st, ds)) new == Recount(Barring(st, ds \ {d})) IN
         /\ d \notin old.tags
         /\ new = [total |-> old.total + 1, active |-> old.active + 1,
                   tags |-> old.tags \cup ({d} \cap Tagged)]
<1> DEFINE a == Barring(st, ds)
           b == Barring(st, ds \ {d})
<1>1. RecordedIn(b) = RecordedIn(a) \cup {d} /\ d \notin RecordedIn(a)
      /\ ActiveIn(b) = ActiveIn(a) \cup {d} /\ d \notin ActiveIn(a)
  BY DEF Barring, RecordedIn, ActiveIn, StatusOf
<1>2. IsFiniteSet(RecordedIn(a)) /\ IsFiniteSet(ActiveIn(a))
  <2>1. RecordedIn(a) \subseteq Decisions /\ ActiveIn(a) \subseteq Decisions
    BY DEF RecordedIn, ActiveIn
  <2> QED BY <2>1, DerivedIndexesAssumption, FS_Subset
<1>3. Cardinality(RecordedIn(b)) = Cardinality(RecordedIn(a)) + 1
      /\ Cardinality(ActiveIn(b)) = Cardinality(ActiveIn(a)) + 1
  BY <1>1, <1>2, FS_AddElement
<1> HIDE DEF a, b
<1>4. Recount(a) = [total |-> Cardinality(RecordedIn(a)), active |-> Cardinality(ActiveIn(a)),
                    tags |-> ActiveIn(a) \cap Tagged]
      /\ Recount(b) = [total |-> Cardinality(RecordedIn(b)), active |-> Cardinality(ActiveIn(b)),
                       tags |-> ActiveIn(b) \cap Tagged]
  BY DEF Recount
<1>5. ActiveIn(b) \cap Tagged = (ActiveIn(a) \cap Tagged) \cup ({d} \cap Tagged)
  BY <1>1
<1>6. d \notin Recount(a).tags
  BY <1>1, <1>4
<1>7. Recount(b) = [total |-> Recount(a).total + 1, active |-> Recount(a).active + 1,
                    tags |-> Recount(a).tags \cup ({d} \cap Tagged)]
  BY <1>3, <1>4, <1>5
<1> QED BY <1>6, <1>7 DEF a, b

LEMMA DigestsOne ==
  ASSUME NEW st \in StatusOf, NEW ds \in SUBSET Decisions, NEW d \in ds, st[d] = "active",
         NEW m, m = DigestOf(Barring(st, ds))
  PROVE  DigestOf(Barring(st, ds \ {d})) = [m EXCEPT ![d] = @ + 1]
<1> DEFINE a == Barring(st, ds)
           b == Barring(st, ds \ {d})
<1>1. \A e \in Decisions : (e \in ActiveIn(b) <=> e \in ActiveIn(a) \/ e = d)
      /\ d \notin ActiveIn(a)
  BY DEF Barring, ActiveIn, StatusOf
<1> HIDE DEF a, b
<1>2. DigestOf(a) = [e \in Decisions |-> IF e \in ActiveIn(a) THEN 1 ELSE 0]
      /\ DigestOf(b) = [e \in Decisions |-> IF e \in ActiveIn(b) THEN 1 ELSE 0]
  BY DEF DigestOf
<1>3. m = DigestOf(a)
  BY DEF a
<1>4. DigestOf(b) = [m EXCEPT ![d] = @ + 1]
  BY <1>1, <1>2, <1>3
<1> QED BY <1>4 DEF b

(* What is appended is still to be added.                                     *)
LEMMA BarringNew ==
  ASSUME NEW st \in StatusOf, NEW ds \in SUBSET Decisions, NEW d \in Decisions, st[d] = "none"
  PROVE  Barring([st EXCEPT ![d] = "active"], ds \cup {d}) = Barring(st, ds)
<1>1. \A e \in Decisions : [st EXCEPT ![d] = "active"][e] = IF e = d THEN "active" ELSE st[e]
  BY DEF StatusOf
<1> QED BY <1>1 DEF Barring

(* What a step leaves as it is.                                              *)
HoldsStore == UNCHANGED <<status, lines, mtime, storeClock>>
HoldsSides == UNCHANGED <<man, dig, fts, idxMtime>>

LEMMA SidesBegin == DInit => SidesInv
<1> SUFFICES ASSUME DInit PROVE SidesInv
  OBVIOUS
<1> USE DEF DInit
<1>1. SidesType
  BY DEF SidesType, StatusOf, DerivedLabels, Unread, Never
<1>2. \A labels : labels \in SUBSET Adding => Pending(labels) = {}
  BY DEF Pending, Adding
<1>3. OrderInv
  BY DEF OrderInv, Adding, Unread
<1>4. ActiveIn(status) = {}
  BY DEF ActiveIn
<1>5. CoverInv
  BY <1>4 DEF CoverInv, Covered, Absent
<1>6. Unfiled = {} /\ Undigested = {}
  BY <1>2, PartsOfAdding DEF Unfiled, Undigested
<1>7. Barring(status, {}) = status
  BY DEF Barring
<1>8. FiledInv /\ DigestInv
  BY <1>6, <1>7 DEF FiledInv, DigestInv, Filed, Digested
<1> QED BY <1>1, <1>3, <1>5, <1>8 DEF SidesInv

(* A step of p that neither changes the store nor what is still to be added.      *)
LEMMA StaysPut ==
  ASSUME SidesInv, NEW p \in Procs, NEW l \in DerivedLabels, at' = [at EXCEPT ![p] = l],
         l \notin Adding, at[p] \notin Adding,
         cur' \in [Procs -> Decisions \cup {0}], \A q \in Procs \ {p} : cur'[q] = cur[q]
  PROVE  /\ Unfiled' = Unfiled /\ Unindexed' = Unindexed /\ Undigested' = Undigested
         /\ at' \in [Procs -> DerivedLabels]
         /\ \A q \in Procs : at'[q] \in Adding <=> at[q] \in Adding
         /\ \A q \in Procs : at'[q] \in Adding => cur'[q] = cur[q]
<1>1. SidesType
  BY DEF SidesInv
<1>2. \A q \in Procs : (at'[q] \in Adding <=> at[q] \in Adding)
                      /\ (at'[q] \in Adding => cur'[q] = cur[q])
  BY <1>1 DEF SidesType
<1>3. ASSUME NEW labels \in SUBSET Adding PROVE Pending(labels)' = Pending(labels)
  <2>1. l \notin labels /\ at[p] \notin labels
    OBVIOUS
  <2>2. \A q \in Procs : at[q] \in labels => cur'[q] = cur[q]
    BY <2>1
  <2> QED BY <1>1, <2>1, <2>2, PendingStays
<1>4. Unfiled' = Unfiled
  BY <1>3, PartsOfAdding DEF Unfiled
<1>5. Unindexed' = Unindexed
  BY <1>3, PartsOfAdding DEF Unindexed
<1>6. Undigested' = Undigested
  BY <1>3, PartsOfAdding DEF Undigested
<1> QED BY <1>1, <1>2, <1>4, <1>5, <1>6 DEF SidesType

(* One that changes no file either, and trusts the index if its row says so.      *)
LEMMA LooksOnly ==
  ASSUME SidesInv, NEW p \in Procs, NEW l \in DerivedLabels, at' = [at EXCEPT ![p] = l],
         l \notin Adding, at[p] \notin Adding,
         cur' \in [Procs -> Decisions \cup {0}], \A q \in Procs \ {p} : cur'[q] = cur[q],
         HoldsStore, HoldsSides, UNCHANGED <<behind, lost>>,
         at[p] \in Refiling => l \in Refiling, at[p] \in Redigesting => l \in Redigesting,
         snap' \in [Procs -> StatusOf],
         \A q \in Procs, d \in Decisions : snap'[q][d] = "retired" => status[d] = "retired",
         memo' \in [Procs -> Int \X Int], \A q \in Procs : memo'[q][2] <= lines,
         \A q \in Procs : memo'[q] = Stamp => memo[q] = Stamp \/ idxMtime # Absent
  PROVE  SidesInv'
<1> USE DEF HoldsStore, HoldsSides
<1>1. /\ Unfiled' = Unfiled /\ Unindexed' = Unindexed /\ Undigested' = Undigested
      /\ at' \in [Procs -> DerivedLabels]
      /\ \A q \in Procs : at'[q] \in Adding <=> at[q] \in Adding
      /\ \A q \in Procs : at'[q] \in Adding => cur'[q] = cur[q]
  BY StaysPut
<1>2. SidesType'
  BY <1>1 DEF SidesInv, SidesType
<1>3. OrderInv'
  BY <1>1 DEF SidesInv, OrderInv
<1>4. Covered' = Covered /\ Stamp' = Stamp
  BY <1>1 DEF Covered, ActiveIn, Stamp
<1>5. CoverInv'
  BY <1>4 DEF SidesInv, CoverInv
<1>6. at \in [Procs -> DerivedLabels] /\ at'[p] = l /\ \A q \in Procs \ {p} : at'[q] = at[q]
  BY DEF SidesInv, SidesType
<1>7. Filed' = Filed /\ Digested' = Digested
  BY <1>1 DEF Filed, Digested, ActiveIn, Recount, RecordedIn, DigestOf, Barring
<1>8. FiledInv'
  BY <1>6, <1>7 DEF SidesInv, FiledInv
<1>9. DigestInv'
  BY <1>6, <1>7 DEF SidesInv, DigestInv
<1> QED BY <1>2, <1>3, <1>5, <1>8, <1>9 DEF SidesInv

LEMMA Unchanging ==
  ASSUME SidesInv
  PROVE  /\ cur \in [Procs -> Decisions \cup {0}] /\ snap \in [Procs -> StatusOf]
         /\ memo \in [Procs -> Int \X Int] /\ \A q \in Procs : memo[q][2] <= lines
         /\ \A q \in Procs, d \in Decisions : snap[q][d] = "retired" => status[d] = "retired"
         /\ lines \in Nat /\ mtime \in Nat
BY DEF SidesInv, SidesType, OrderInv

LEMMA PlainLabels ==
  /\ \A l \in {"idle", "append", "query", "indexRead", "indexReplace"} :
       l \in DerivedLabels /\ l \notin Adding /\ l \notin Refiling /\ l \notin Redigesting
  /\ \A l \in {"rebuild", "manifestRead", "manifestReplace"} :
       l \in DerivedLabels /\ l \notin Adding /\ l \in Refiling /\ l \in Redigesting
  /\ \A l \in {"digestRead", "digestReplace"} :
       l \in DerivedLabels /\ l \notin Adding /\ l \notin Refiling /\ l \in Redigesting
BY DEF DerivedLabels, Adding, Refiling, Redigesting

LEMMA RecordSomeKeeps ==
  ASSUME SidesInv, NEW p \in Procs, RecordSome(p) PROVE SidesInv'
<1>1. /\ at' = [at EXCEPT ![p] = "append"] /\ at[p] = "idle"
      /\ UNCHANGED <<status, lines, mtime, storeClock, man, dig, fts, idxMtime, memo, cur, snap,
                     behind, lost>>
  BY DEF RecordSome, MoveOn, storeVars, sidecars
<1>2. at[p] \notin Adding /\ at[p] \notin Refiling /\ at[p] \notin Redigesting
  BY <1>1, PlainLabels
<1>3. HoldsStore /\ HoldsSides
  BY <1>1 DEF HoldsStore, HoldsSides
<1> QED BY <1>1, <1>2, <1>3, PlainLabels, Unchanging, LooksOnly

LEMMA ClearVerdictsKeeps ==
  ASSUME SidesInv, NEW p \in Procs, ClearVerdicts(p) PROVE SidesInv'
<1>1. /\ at' = [at EXCEPT ![p] = "manifestRead"] /\ at[p] = "rebuild"
      /\ memo' = [memo EXCEPT ![p] = <<-1, -1>>]
      /\ UNCHANGED <<status, lines, mtime, storeClock, man, dig, fts, idxMtime, cur, snap,
                     behind, lost>>
  BY DEF ClearVerdicts, MoveOn, storeVars, sidecars, Never
<1>2. memo \in [Procs -> Int \X Int] /\ lines \in Nat /\ mtime \in Nat /\ \A q \in Procs : memo[q][2] <= lines
  BY Unchanging
<1>3. memo' \in [Procs -> Int \X Int] /\ memo'[p] = <<-1, -1>> /\ \A q \in Procs \ {p} : memo'[q] = memo[q]
  BY <1>1, <1>2
<1>4. \A q \in Procs : memo'[q][2] <= lines /\ (memo'[q] = Stamp => memo[q] = Stamp)
  BY <1>2, <1>3 DEF Stamp
<1>5. HoldsStore /\ HoldsSides
  BY <1>1 DEF HoldsStore, HoldsSides
<1>6. /\ "manifestRead" \in DerivedLabels /\ "manifestRead" \notin Adding /\ at[p] \notin Adding
      /\ "manifestRead" \in Refiling /\ "manifestRead" \in Redigesting
  BY <1>1, PlainLabels
<1>7. cur' = cur /\ snap' = snap /\ UNCHANGED <<behind, lost>> /\ at' = [at EXCEPT ![p] = "manifestRead"]
  BY <1>1
<1> QED BY <1>3, <1>4, <1>5, <1>6, <1>7, Unchanging, LooksOnly

LEMMA SearchIndexKeeps ==
  ASSUME SidesInv, NEW p \in Procs, SearchIndex(p) PROVE SidesInv'
<1>1. PICK l \in {"indexRead", "query"} : at' = [at EXCEPT ![p] = l]
  BY DEF SearchIndex, MoveOn
<1>2. /\ at[p] = "idle" /\ cur' = [cur EXCEPT ![p] = 0]
      /\ memo' = memo \/ (memo' = [memo EXCEPT ![p] = Stamp] /\ ~Stale(p))
      /\ UNCHANGED <<status, lines, mtime, storeClock, man, dig, fts, idxMtime, snap,
                     behind, lost>>
  BY DEF SearchIndex, MoveOn, storeVars, sidecars
<1>3. memo \in [Procs -> Int \X Int] /\ lines \in Nat /\ mtime \in Nat /\ \A q \in Procs : memo[q][2] <= lines
  BY DEF SidesInv, SidesType
<1>4. Stamp \in Int \X Int /\ Stamp[2] = lines
  BY <1>3 DEF Stamp
<1>5. ~Stale(p) => memo[p] = Stamp \/ idxMtime # Absent
  BY DEF Stale
<1>6. /\ memo' \in [Procs -> Int \X Int] /\ \A q \in Procs : memo'[q][2] <= lines
      /\ \A q \in Procs : memo'[q] = Stamp => memo[q] = Stamp \/ idxMtime # Absent
  <2>1. CASE memo' = memo
    BY <1>3, <2>1
  <2>2. CASE memo' = [memo EXCEPT ![p] = Stamp] /\ ~Stale(p)
    <3>1. memo' \in [Procs -> Int \X Int] /\ memo'[p] = Stamp /\ \A q \in Procs \ {p} : memo'[q] = memo[q]
      BY <1>3, <1>4, <2>2
    <3> QED BY <1>3, <1>4, <1>5, <2>2, <3>1
  <2> QED BY <1>2, <2>1, <2>2
<1>7. cur' \in [Procs -> Decisions \cup {0}] /\ \A q \in Procs \ {p} : cur'[q] = cur[q]
  BY <1>2 DEF SidesInv, SidesType
<1>8. HoldsStore /\ HoldsSides
  BY <1>2 DEF HoldsStore, HoldsSides
<1>9. at[p] \notin Adding /\ at[p] \notin Refiling /\ at[p] \notin Redigesting
      /\ l \in DerivedLabels /\ l \notin Adding
  BY <1>1, <1>2, PlainLabels
<1>10. snap' = snap /\ UNCHANGED <<behind, lost>>
  BY <1>2
<1> HIDE DEF HoldsStore, HoldsSides
<1> QED BY <1>1, <1>6, <1>7, <1>8, <1>9, <1>10, Unchanging, LooksOnly

LEMMA QueryKeeps ==
  ASSUME SidesInv, NEW p \in Procs, Query(p) PROVE SidesInv'
<1>1. /\ at' = [at EXCEPT ![p] = "idle"] /\ at[p] = "query"
      /\ UNCHANGED <<status, lines, mtime, storeClock, man, dig, fts, idxMtime, memo, cur, snap,
                     behind, lost>>
  BY DEF Query, MoveOn, storeVars, sidecars
<1>2. at[p] \notin Adding /\ at[p] \notin Refiling /\ at[p] \notin Redigesting
  BY <1>1, PlainLabels
<1>3. HoldsStore /\ HoldsSides
  BY <1>1 DEF HoldsStore, HoldsSides
<1> QED BY <1>1, <1>2, <1>3, PlainLabels, Unchanging, LooksOnly

LEMMA ReadStoreKeeps ==
  ASSUME SidesInv, NEW p \in Procs, ReadStore(p) PROVE SidesInv'
<1>1. PICK l : /\ at' = [at EXCEPT ![p] = l]
               /\ <<at[p], l>> \in {<<"manifestRead", "manifestReplace">>,
                                   <<"digestRead", "digestReplace">>, <<"indexRead", "indexReplace">>}
  <2> DEFINE replaces == [manifestRead |-> "manifestReplace", digestRead |-> "digestReplace",
                          indexRead |-> "indexReplace"]
  <2>1. at[p] \in DOMAIN replaces /\ at' = [at EXCEPT ![p] = replaces[at[p]]]
    BY Zenon DEF ReadStore, MoveOn
  <2>2. DOMAIN replaces = {"manifestRead", "digestRead", "indexRead"}
        /\ replaces["manifestRead"] = "manifestReplace" /\ replaces["digestRead"] = "digestReplace"
        /\ replaces["indexRead"] = "indexReplace"
    OBVIOUS
  <2>3. <<at[p], replaces[at[p]]>> \in {<<"manifestRead", "manifestReplace">>,
                <<"digestRead", "digestReplace">>, <<"indexRead", "indexReplace">>}
    <3> HIDE DEF replaces
    <3> QED BY <2>1, <2>2
  <2> HIDE DEF replaces
  <2> QED BY <2>1, <2>3
<1>2. /\ snap' = [snap EXCEPT ![p] = status]
      /\ UNCHANGED <<status, lines, mtime, storeClock, man, dig, fts, idxMtime, memo, cur,
                     behind, lost>>
  BY DEF ReadStore, MoveOn, storeVars, sidecars
<1>3. snap' \in [Procs -> StatusOf]
      /\ \A q \in Procs, d \in Decisions : snap'[q][d] = "retired" => status[d] = "retired"
  BY <1>2 DEF SidesInv, SidesType, OrderInv
<1>4. l \in DerivedLabels /\ l \notin Adding /\ at[p] \notin Adding
      /\ (at[p] \in Refiling => l \in Refiling) /\ (at[p] \in Redigesting => l \in Redigesting)
  BY <1>1 DEF DerivedLabels, Adding, Refiling, Redigesting
<1>5. HoldsStore /\ HoldsSides
  BY <1>2 DEF HoldsStore, HoldsSides
<1>6. memo' = memo /\ cur' = cur /\ UNCHANGED <<behind, lost>>
  BY <1>2
<1> QED BY <1>1, <1>3, <1>4, <1>5, <1>6, Unchanging, LooksOnly

(* A row is appended: nobody's memo is of the store as it is now.               *)
LEMMA RowRevealed ==
  ASSUME SidesInv, lines' = lines + 1, mtime' = storeClock, memo' = memo
  PROVE  /\ lines' \in Nat /\ mtime' \in Nat
         /\ \A q \in Procs : memo[q][2] <= lines' /\ memo[q] # Stamp'
<1>1. lines \in Nat /\ storeClock \in Nat /\ \A q \in Procs : memo[q] \in Int \X Int /\ memo[q][2] <= lines
  BY DEF SidesInv, SidesType
<1>2. Stamp' = <<mtime', lines + 1>>
  BY DEF Stamp
<1> QED BY <1>1, <1>2

LEMMA AppendDecisionKeeps ==
  ASSUME SidesInv, NEW p \in Procs, AppendDecision(p) PROVE SidesInv'
<1>1. PICK d \in Decisions : /\ status[d] = "none" /\ status' = [status EXCEPT ![d] = "active"]
                             /\ cur' = [cur EXCEPT ![p] = d]
                             /\ lines' = lines + 1 /\ mtime' = storeClock
  BY DEF AppendDecision, AppendRow
<1>2. /\ at[p] = "append" /\ at' = [at EXCEPT ![p] = "manifest"]
      /\ UNCHANGED <<storeClock, man, dig, fts, idxMtime, memo, snap, behind, lost>>
  BY DEF AppendDecision, MoveOn, sidecars
<1>3. SidesType /\ OrderInv
  BY DEF SidesInv
<1>4. status' \in StatusOf /\ status'[d] = "active" /\ \A e \in Decisions \ {d} : status'[e] = status[e]
  BY <1>1, <1>3 DEF SidesType, StatusOf
<1>5. at'[p] = "manifest" /\ cur'[p] = d
      /\ \A q \in Procs \ {p} : at'[q] = at[q] /\ cur'[q] = cur[q]
  BY <1>1, <1>2, <1>3 DEF SidesType
<1>6. lines' \in Nat /\ mtime' \in Nat /\ \A q \in Procs : memo[q][2] <= lines' /\ memo[q] # Stamp'
  BY <1>1, <1>2, RowRevealed
<1>7. SidesType'
  BY <1>1, <1>2, <1>3, <1>4, <1>6 DEF SidesType, DerivedLabels, Adding
<1>8. OrderInv'
  <2>1. \A q \in Procs \ {p} : at[q] \in Adding => cur[q] \in Decisions \ {d}
    BY <1>1, <1>3 DEF OrderInv
  <2> QED BY <1>1, <1>2, <1>3, <1>4, <1>5, <2>1 DEF OrderInv
<1>9. /\ Unfiled' = Unfiled \cup {d} /\ Unindexed' = Unindexed \cup {d}
      /\ Undigested' = Undigested \cup {d}
  <2>1. ASSUME NEW labels, "manifest" \in labels, "append" \notin labels
        PROVE  Pending(labels)' = Pending(labels) \cup {d}
    <3>1. at' = [at EXCEPT ![p] = "manifest"] /\ "manifest" \in labels /\ at[p] \notin labels
          /\ cur' = [cur EXCEPT ![p] = d]
      BY <1>1, <1>2, <2>1
    <3> QED BY <1>3, <3>1, PendingGains
  <2>2. Unfiled' = Unfiled \cup {d}
    BY <2>1 DEF Unfiled
  <2>3. Unindexed' = Unindexed \cup {d}
    BY <2>1 DEF Unindexed
  <2>4. Undigested' = Undigested \cup {d}
    BY <2>1 DEF Undigested
  <2> QED BY <2>2, <2>3, <2>4
<1>10. ActiveIn(status') = ActiveIn(status) \cup {d}
  BY <1>1, <1>4 DEF ActiveIn
<1>11. CoverInv'
  <2>1. Covered => Covered'
    BY <1>2, <1>9, <1>10 DEF Covered
  <2> QED BY <1>2, <1>6, <2>1 DEF CoverInv, SidesInv
<1>12. Unfiled \subseteq Decisions /\ Undigested \subseteq Decisions
  BY <1>3, PartsOfAdding, PendingIsRecorded DEF Unfiled, Undigested
<1>13. status \in StatusOf
  BY <1>3 DEF SidesType
<1>14. \A q \in Procs : /\ at[q] \in Refiling => at'[q] \in Refiling
                        /\ at[q] \in Redigesting => at'[q] \in Redigesting
  BY <1>2, <1>5, PlainLabels
<1>15. FiledInv'
  <2>1. Barring(status', Unfiled') = Barring(status, Unfiled)
    BY <1>1, <1>9, <1>12, <1>13, BarringNew
  <2>2. Filed => Filed'
    BY <1>2, <1>9, <1>10, <2>1 DEF Filed
  <2> QED BY <1>2, <1>14, <2>2 DEF SidesInv, FiledInv
<1>16. DigestInv'
  <2>1. Barring(status', Undigested') = Barring(status, Undigested)
    BY <1>1, <1>9, <1>12, <1>13, BarringNew
  <2>2. Digested => Digested'
    BY <1>2, <1>9, <1>10, <2>1 DEF Digested
  <2> QED BY <1>2, <1>14, <2>2 DEF SidesInv, DigestInv
<1> QED BY <1>7, <1>8, <1>11, <1>15, <1>16 DEF SidesInv

LEMMA AmendStoreKeeps ==
  ASSUME SidesInv, NEW p \in Procs, AmendStore(p) PROVE SidesInv'
<1>1. PICK d \in ActiveIn(status), st \in {"active", "retired"} :
        status' = [status EXCEPT ![d] = st] /\ cur' = [cur EXCEPT ![p] = d]
        /\ lines' = lines + 1 /\ mtime' = storeClock
  BY DEF AmendStore, AppendRow
<1>2. /\ at[p] = "idle" /\ at' = [at EXCEPT ![p] = "rebuild"]
      /\ UNCHANGED <<storeClock, man, dig, fts, idxMtime, memo, snap, behind, lost>>
  BY DEF AmendStore, MoveOn, sidecars
<1>3. SidesType /\ OrderInv
  BY DEF SidesInv
<1>4. d \in Decisions /\ status[d] = "active"
  BY DEF ActiveIn
<1>5. status' \in StatusOf /\ status'[d] = st /\ \A e \in Decisions \ {d} : status'[e] = status[e]
  BY <1>1, <1>3, <1>4 DEF SidesType, StatusOf
<1>6. lines' \in Nat /\ mtime' \in Nat /\ \A q \in Procs : memo[q][2] <= lines' /\ memo[q] # Stamp'
  BY <1>1, <1>2, RowRevealed
<1>7. cur' \in [Procs -> Decisions \cup {0}] /\ \A q \in Procs \ {p} : cur'[q] = cur[q]
  BY <1>1, <1>3, <1>4 DEF SidesType
<1>8. /\ Unindexed' = Unindexed
      /\ at' \in [Procs -> DerivedLabels]
      /\ \A q \in Procs : at'[q] \in Adding <=> at[q] \in Adding
      /\ \A q \in Procs : at'[q] \in Adding => cur'[q] = cur[q]
  BY <1>2, <1>7, PlainLabels, StaysPut
<1>9. SidesType'
  BY <1>2, <1>3, <1>5, <1>6, <1>7, <1>8 DEF SidesType
<1>10. \A e \in Decisions : (status[e] # "none" => status'[e] # "none")
                           /\ (status[e] = "retired" => status'[e] = "retired")
  BY <1>4, <1>5
<1>11. OrderInv'
  BY <1>2, <1>3, <1>8, <1>10 DEF OrderInv
<1>12. ActiveIn(status') \subseteq ActiveIn(status)
  BY <1>4, <1>5 DEF ActiveIn
<1>13. CoverInv'
  <2>1. Covered => Covered'
    BY <1>2, <1>8, <1>12 DEF Covered
  <2> QED BY <1>2, <1>6, <2>1 DEF CoverInv, SidesInv
<1>14. at'[p] \in Refiling /\ at'[p] \in Redigesting
  BY <1>2, <1>3, PlainLabels DEF SidesType
<1>15. FiledInv' /\ DigestInv'
  BY <1>14 DEF FiledInv, DigestInv
<1> QED BY <1>9, <1>11, <1>13, <1>15 DEF SidesInv

LEMMA TickKeeps == ASSUME SidesInv, Tick PROVE SidesInv'
<1>1. storeClock' \in Nat
      /\ UNCHANGED <<status, lines, mtime, man, dig, fts, idxMtime, memo, at, cur, snap, behind, lost>>
  BY DEF Tick, SidesInv, SidesType, storeVars, sidecars
<1>2. SidesType' /\ OrderInv'
  BY <1>1 DEF SidesInv, SidesType, OrderInv
<1>3. Covered' = Covered /\ Stamp' = Stamp /\ Filed' = Filed /\ Digested' = Digested
  BY <1>1 DEF Covered, Stamp, Filed, Digested, Unfiled, Unindexed, Undigested, Pending, ActiveIn,
              Recount, RecordedIn, DigestOf, Barring
<1>4. CoverInv' /\ FiledInv' /\ DigestInv'
  BY <1>1, <1>3 DEF SidesInv, CoverInv, FiledInv, DigestInv
<1> QED BY <1>2, <1>4 DEF SidesInv

(* What an addition's step does to what is still to be added.                   *)
LEMMA AddingGoesOn ==
  ASSUME SidesInv, NEW p \in Procs, NEW l \in DerivedLabels, at[p] \in Adding,
         at' = [at EXCEPT ![p] = l],
         cur' \in [Procs -> Decisions \cup {0}], \A q \in Procs \ {p} : cur'[q] = cur[q],
         l \in Adding => cur' = cur, HoldsStore, snap' = snap
  PROVE  /\ status' \in StatusOf /\ snap' \in [Procs -> StatusOf] /\ lines' \in Nat /\ mtime' \in Nat
         /\ storeClock' \in Nat /\ at' \in [Procs -> DerivedLabels] /\ Stamp' = Stamp
         /\ OrderInv'
         /\ cur[p] \in Decisions /\ status[cur[p]] # "none"
         /\ \A labels \in SUBSET Adding :
              Pending(labels)' = IF at[p] \in labels /\ l \notin labels THEN Pending(labels) \ {cur[p]}
                                 ELSE IF at[p] \in labels <=> l \in labels THEN Pending(labels)
                                 ELSE Pending(labels)'
         /\ \A q \in Procs : /\ at[q] \in Refiling => at'[q] \in Refiling
                             /\ at[q] \in Redigesting => at'[q] \in Redigesting
<1>1. SidesType /\ OrderInv
  BY DEF SidesInv
<1>2. UNCHANGED <<status, lines, mtime, storeClock>>
  BY DEF HoldsStore
<1>3. at'[p] = l /\ \A q \in Procs \ {p} : at'[q] = at[q]
  BY <1>1 DEF SidesType
<1>4. /\ status' \in StatusOf /\ snap' \in [Procs -> StatusOf] /\ lines' \in Nat /\ mtime' \in Nat
      /\ storeClock' \in Nat /\ at' \in [Procs -> DerivedLabels] /\ Stamp' = Stamp
  BY <1>1, <1>2 DEF SidesType, Stamp
<1>5. \A q \in Procs : at'[q] \in Adding => at[q] \in Adding /\ cur'[q] = cur[q]
  BY <1>3
<1>6. OrderInv'
  BY <1>1, <1>2, <1>5 DEF OrderInv
<1>7. cur[p] \in Decisions /\ status[cur[p]] # "none"
  BY <1>1 DEF OrderInv
<1>8. ASSUME NEW labels \in SUBSET Adding, at[p] \in labels, l \notin labels
      PROVE  Pending(labels)' = Pending(labels) \ {cur[p]}
  BY <1>1, <1>8, PendingLoses
<1>9. ASSUME NEW labels \in SUBSET Adding, at[p] \in labels <=> l \in labels
      PROVE  Pending(labels)' = Pending(labels)
  <2>1. \A q \in Procs : at[q] \in labels => cur'[q] = cur[q]
    BY <1>3, <1>9
  <2> QED BY <1>1, <1>9, <2>1, PendingStays
<1>10. \A q \in Procs : /\ at[q] \in Refiling => at'[q] \in Refiling
                        /\ at[q] \in Redigesting => at'[q] \in Redigesting
  <2>1. at[p] \notin Refiling /\ at[p] \notin Redigesting
    BY DEF Adding, Refiling, Redigesting
  <2> QED BY <1>3, <2>1
<1> QED BY <1>4, <1>6, <1>7, <1>8, <1>9, <1>10

LEMMA ManifestAddKeeps ==
  ASSUME SidesInv, NEW p \in Procs, ManifestAdd(p) PROVE SidesInv'
<1> DEFINE c == cur[p]
           added == IF c \in man.tags THEN man
                    ELSE [total |-> man.total + 1, active |-> man.active + 1,
                          tags |-> man.tags \cup ({c} \cap Tagged)]
<1>1. /\ at[p] = "manifest" /\ at' = [at EXCEPT ![p] = "fts"]
      /\ UNCHANGED <<status, lines, mtime, storeClock, memo, cur, snap>>
  BY DEF ManifestAdd, MoveOn, storeVars
<1>2. \/ man' = added /\ UNCHANGED <<dig, fts, idxMtime, behind, lost>>
      \/ UNCHANGED <<man, dig, fts, idxMtime, lost>> /\ behind' = behind \cup {"manifest"}
  BY DEF ManifestAdd, Fails, sidecars
<1>3. SidesType /\ OrderInv
  BY DEF SidesInv
<1>4. HoldsStore /\ at[p] \in Adding /\ "fts" \in Adding /\ "fts" \in DerivedLabels
      /\ cur \in [Procs -> Decisions \cup {0}] /\ cur' = cur /\ snap' = snap
  BY <1>1, <1>3 DEF HoldsStore, Adding, DerivedLabels, SidesType
<1>5. /\ status' \in StatusOf /\ snap' \in [Procs -> StatusOf] /\ lines' \in Nat /\ mtime' \in Nat
      /\ storeClock' \in Nat /\ at' \in [Procs -> DerivedLabels] /\ Stamp' = Stamp
      /\ OrderInv'
      /\ c \in Decisions /\ status[c] # "none"
      /\ \A q \in Procs : /\ at[q] \in Refiling => at'[q] \in Refiling
                          /\ at[q] \in Redigesting => at'[q] \in Redigesting
  BY <1>1, <1>4, AddingGoesOn
<1>6. /\ Unfiled' = Unfiled \ {c} /\ Unindexed' = Unindexed /\ Undigested' = Undigested
      /\ c \in Unfiled
  <2>1. \A labels \in SUBSET Adding :
              Pending(labels)' = IF at[p] \in labels /\ "fts" \notin labels THEN Pending(labels) \ {cur[p]}
                                 ELSE IF at[p] \in labels <=> "fts" \in labels THEN Pending(labels)
                                 ELSE Pending(labels)'
    BY <1>1, <1>4, AddingGoesOn
  <2>2. Unfiled' = Unfiled \ {c}
    BY <1>1, <2>1, PartsOfAdding DEF Unfiled
  <2>3. Unindexed' = Unindexed
    BY <1>1, <2>1, PartsOfAdding DEF Unindexed
  <2>4. Undigested' = Undigested
    BY <1>1, <2>1, PartsOfAdding DEF Undigested, Adding
  <2>5. c \in Unfiled
    BY <1>1 DEF Unfiled, Pending
  <2> QED BY <2>2, <2>3, <2>4, <2>5
<1>7. SidesType'
  BY <1>1, <1>3, <1>5 DEF SidesType
<1>8. CoverInv'
  BY <1>1, <1>2, <1>5, <1>6 DEF SidesInv, CoverInv, Covered, ActiveIn
<1>9. FiledInv'
  <2>1. CASE behind' = behind \cup {"manifest"}
    BY <2>1 DEF FiledInv
  <2>2. CASE man' = added /\ behind' = behind
    <3>1. CASE Filed
      <4>1. Unfiled \subseteq Decisions /\ status \in StatusOf
        BY <1>3, PartsOfAdding, PendingIsRecorded DEF Unfiled, SidesType
      <4>2. status[c] = "active"
        BY <1>6, <3>1 DEF Filed, ActiveIn
      <4>3. /\ man = Recount(Barring(status, Unfiled)) /\ c \notin man.tags
            /\ Recount(Barring(status, Unfiled \ {c})) =
                 [total |-> man.total + 1, active |-> man.active + 1,
                  tags |-> man.tags \cup ({c} \cap Tagged)]
        BY <1>6, <3>1, <4>1, <4>2, CountsOne DEF Filed
      <4>4. man' = Recount(Barring(status, Unfiled \ {c}))
        BY <2>2, <4>3
      <4>5. Filed'
        BY <1>1, <1>6, <3>1, <4>4 DEF Filed, ActiveIn, Recount, RecordedIn, Barring
      <4> QED BY <4>5 DEF FiledInv
    <3>2. CASE ~Filed
      BY <1>5, <2>2, <3>2 DEF SidesInv, FiledInv
    <3> QED BY <3>1, <3>2
  <2> QED BY <1>2, <2>1, <2>2
<1>10. DigestInv'
  <2>1. Digested' = Digested
    BY <1>1, <1>2, <1>6 DEF Digested, ActiveIn, DigestOf, Barring
  <2> QED BY <1>2, <1>5, <2>1 DEF SidesInv, DigestInv
<1> QED BY <1>5, <1>7, <1>8, <1>9, <1>10 DEF SidesInv

LEMMA FtsAddKeeps ==
  ASSUME SidesInv, NEW p \in Procs, FtsAdd(p) PROVE SidesInv'
<1> DEFINE c == cur[p]
<1>1. /\ at[p] = "fts"
      /\ UNCHANGED <<status, lines, mtime, storeClock, memo, cur, snap, man, dig, idxMtime, behind, lost>>
  BY DEF FtsAdd, MoveOn, storeVars, Fails, sidecars
<1>2. PICK l \in {"digest", "flag"} :
        /\ at' = [at EXCEPT ![p] = l]
        /\ fts' = IF l = "digest" THEN fts \cup {c} ELSE fts
  BY DEF FtsAdd, MoveOn, Fails, sidecars
<1>3. SidesType /\ OrderInv
  BY DEF SidesInv
<1>4. HoldsStore /\ at[p] \in Adding /\ l \in Adding /\ l \in DerivedLabels
      /\ cur \in [Procs -> Decisions \cup {0}] /\ cur' = cur /\ snap' = snap
  BY <1>1, <1>3 DEF HoldsStore, Adding, DerivedLabels, SidesType
<1>5. /\ status' \in StatusOf /\ snap' \in [Procs -> StatusOf] /\ lines' \in Nat /\ mtime' \in Nat
      /\ storeClock' \in Nat /\ at' \in [Procs -> DerivedLabels] /\ Stamp' = Stamp
      /\ OrderInv'
      /\ \A q \in Procs : /\ at[q] \in Refiling => at'[q] \in Refiling
                          /\ at[q] \in Redigesting => at'[q] \in Redigesting
  BY <1>2, <1>4, AddingGoesOn
<1>6. /\ Unfiled' = Unfiled /\ Undigested' = Undigested
      /\ Unindexed' = IF l = "digest" THEN Unindexed \ {c} ELSE Unindexed
  <2>1. \A labels \in SUBSET Adding :
              Pending(labels)' = IF at[p] \in labels /\ l \notin labels THEN Pending(labels) \ {cur[p]}
                                 ELSE IF at[p] \in labels <=> l \in labels THEN Pending(labels)
                                 ELSE Pending(labels)'
    BY <1>2, <1>4, AddingGoesOn
  <2>2. Unfiled' = Unfiled
    BY <1>1, <2>1, PartsOfAdding DEF Unfiled
  <2>3. Unindexed' = IF l = "digest" THEN Unindexed \ {c} ELSE Unindexed
    BY <1>1, <2>1, PartsOfAdding DEF Unindexed
  <2>4. Undigested' = Undigested
    BY <1>1, <2>1, PartsOfAdding DEF Undigested, Adding
  <2> QED BY <2>2, <2>3, <2>4
<1>7. SidesType'
  BY <1>1, <1>3, <1>5 DEF SidesType
<1>8. CoverInv'
  <2>1. Covered => Covered'
    BY <1>1, <1>2, <1>6 DEF Covered, ActiveIn
  <2> QED BY <1>1, <1>5, <2>1 DEF SidesInv, CoverInv
<1>9. Filed' = Filed /\ Digested' = Digested
  BY <1>1, <1>6 DEF Filed, Digested, ActiveIn, DigestOf, Barring, Recount, RecordedIn
<1>10. FiledInv' /\ DigestInv'
  BY <1>1, <1>5, <1>9 DEF SidesInv, FiledInv, DigestInv
<1> QED BY <1>5, <1>7, <1>8, <1>10 DEF SidesInv

LEMMA MarkStaleKeeps ==
  ASSUME SidesInv, NEW p \in Procs, MarkStale(p) PROVE SidesInv'
<1> DEFINE c == cur[p]
<1>1. /\ at[p] = "flag" /\ at' = [at EXCEPT ![p] = "digest"] /\ memo' = [memo EXCEPT ![p] = Never]
      /\ UNCHANGED <<status, lines, mtime, storeClock, cur, snap, man, dig, fts, behind>>
  BY DEF MarkStale, MoveOn, storeVars, Fails, sidecars
<1>2. \/ /\ idxMtime' = Absent
         /\ lost' = IF \E q \in Procs \ {p} : memo[q] = Stamp THEN lost \cup {c} ELSE lost
      \/ idxMtime' = idxMtime /\ lost' = lost \cup {c}
  BY DEF MarkStale, Fails, sidecars
<1>3. SidesType /\ OrderInv
  BY DEF SidesInv
<1>4. HoldsStore /\ at[p] \in Adding /\ "digest" \in Adding /\ "digest" \in DerivedLabels
      /\ cur \in [Procs -> Decisions \cup {0}] /\ cur' = cur /\ snap' = snap
  BY <1>1, <1>3 DEF HoldsStore, Adding, DerivedLabels, SidesType
<1>5. /\ status' \in StatusOf /\ snap' \in [Procs -> StatusOf] /\ lines' \in Nat /\ mtime' \in Nat
      /\ storeClock' \in Nat /\ at' \in [Procs -> DerivedLabels] /\ Stamp' = Stamp
      /\ OrderInv'
      /\ \A q \in Procs : /\ at[q] \in Refiling => at'[q] \in Refiling
                          /\ at[q] \in Redigesting => at'[q] \in Redigesting
  BY <1>1, <1>4, AddingGoesOn
<1>6. /\ Unfiled' = Unfiled /\ Undigested' = Undigested /\ Unindexed' = Unindexed \ {c}
  <2>1. \A labels \in SUBSET Adding :
              Pending(labels)' = IF at[p] \in labels /\ "digest" \notin labels THEN Pending(labels) \ {cur[p]}
                                 ELSE IF at[p] \in labels <=> "digest" \in labels THEN Pending(labels)
                                 ELSE Pending(labels)'
    BY <1>1, <1>4, AddingGoesOn
  <2>2. Unfiled' = Unfiled
    BY <1>1, <2>1, PartsOfAdding DEF Unfiled
  <2>3. Unindexed' = Unindexed \ {c}
    BY <1>1, <2>1, PartsOfAdding DEF Unindexed
  <2>4. Undigested' = Undigested
    BY <1>1, <2>1, PartsOfAdding DEF Undigested, Adding
  <2> QED BY <2>2, <2>3, <2>4
<1>7. /\ memo' \in [Procs -> Int \X Int]
      /\ \A q \in Procs : memo'[q][2] <= lines
      /\ memo'[p] # Stamp
      /\ \A q \in Procs \ {p} : memo'[q] = memo[q]
  <2>1. memo \in [Procs -> Int \X Int] /\ lines \in Nat /\ mtime \in Nat /\ \A q \in Procs : memo[q][2] <= lines
    BY Unchanging
  <2>2. memo' = [memo EXCEPT ![p] = <<-1, -1>>]
    BY <1>1 DEF Never
  <2>3. memo' \in [Procs -> Int \X Int] /\ memo'[p] = <<-1, -1>> /\ \A q \in Procs \ {p} : memo'[q] = memo[q]
    BY <2>1, <2>2
  <2> QED BY <2>1, <2>3 DEF Stamp
<1>8. SidesType'
  BY <1>1, <1>3, <1>5, <1>7 DEF SidesType
<1>9. CoverInv'
  <2>1. Covered /\ lost' = lost \cup {c} => Covered'
    BY <1>1, <1>6 DEF Covered, ActiveIn
  <2>2. CASE lost' = lost \cup {c} /\ (idxMtime' = Absent \/ idxMtime' = idxMtime)
    BY <1>5, <1>7, <2>1, <2>2 DEF SidesInv, CoverInv
  <2>3. CASE idxMtime' = Absent /\ ~\E q \in Procs \ {p} : memo[q] = Stamp
    BY <1>5, <1>7, <2>3 DEF CoverInv
  <2> QED BY <1>2, <2>2, <2>3
<1>10. Filed' = Filed /\ Digested' = Digested
  BY <1>1, <1>6 DEF Filed, Digested, ActiveIn, DigestOf, Barring, Recount, RecordedIn
<1>11. FiledInv' /\ DigestInv'
  BY <1>1, <1>5, <1>10 DEF SidesInv, FiledInv, DigestInv
<1> QED BY <1>5, <1>8, <1>9, <1>11 DEF SidesInv

LEMMA DigestAddKeeps ==
  ASSUME SidesInv, NEW p \in Procs, DigestAdd(p) PROVE SidesInv'
<1> DEFINE c == cur[p]
<1>1. /\ at[p] = "digest" /\ cur' = [cur EXCEPT ![p] = 0]
      /\ UNCHANGED <<status, lines, mtime, storeClock, memo, snap, man, fts, idxMtime, lost>>
  BY DEF DigestAdd, MoveOn, storeVars, Fails, sidecars
<1>2. PICK l \in {"append", "idle"} : at' = [at EXCEPT ![p] = l]
  BY DEF DigestAdd, MoveOn
<1>3. SidesType /\ OrderInv
  BY DEF SidesInv
<1>4. \/ dig' = [dig EXCEPT ![c] = @ + 1] /\ behind' = behind
      \/ dig' = dig /\ behind' = behind \cup {"digest"}
  BY DEF DigestAdd, Fails, sidecars
<1>5. HoldsStore /\ at[p] \in Adding /\ l \notin Adding /\ l \in DerivedLabels
      /\ cur' \in [Procs -> Decisions \cup {0}] /\ (\A q \in Procs \ {p} : cur'[q] = cur[q]) /\ snap' = snap
  BY <1>1, <1>3 DEF HoldsStore, Adding, DerivedLabels, SidesType
<1>6. /\ status' \in StatusOf /\ snap' \in [Procs -> StatusOf] /\ lines' \in Nat /\ mtime' \in Nat
      /\ storeClock' \in Nat /\ at' \in [Procs -> DerivedLabels] /\ Stamp' = Stamp
      /\ OrderInv'
      /\ c \in Decisions
      /\ \A q \in Procs : /\ at[q] \in Refiling => at'[q] \in Refiling
                          /\ at[q] \in Redigesting => at'[q] \in Redigesting
  BY <1>2, <1>5, AddingGoesOn
<1>7. /\ Unfiled' = Unfiled /\ Unindexed' = Unindexed /\ Undigested' = Undigested \ {c}
      /\ c \in Undigested
  <2>1. \A labels \in SUBSET Adding :
              Pending(labels)' = IF at[p] \in labels /\ l \notin labels THEN Pending(labels) \ {cur[p]}
                                 ELSE IF at[p] \in labels <=> l \in labels THEN Pending(labels)
                                 ELSE Pending(labels)'
    BY <1>2, <1>5, AddingGoesOn
  <2>2. Unfiled' = Unfiled
    BY <1>1, <2>1, PartsOfAdding DEF Unfiled
  <2>3. Unindexed' = Unindexed
    BY <1>1, <2>1, PartsOfAdding DEF Unindexed
  <2>4. Undigested' = Undigested \ {c}
    BY <1>1, <2>1, PartsOfAdding DEF Undigested, Adding
  <2>5. c \in Undigested
    BY <1>1 DEF Undigested, Pending
  <2> QED BY <2>2, <2>3, <2>4, <2>5
<1>8. SidesType'
  BY <1>1, <1>3, <1>5, <1>6 DEF SidesType
<1>9. CoverInv'
  BY <1>1, <1>6, <1>7 DEF SidesInv, CoverInv, Covered, ActiveIn
<1>10. FiledInv'
  <2>1. Filed' = Filed
    BY <1>1, <1>7 DEF Filed, ActiveIn, Recount, RecordedIn, Barring
  <2>2. "manifest" \in behind => "manifest" \in behind'
    BY <1>4
  <2> QED BY <1>6, <2>1, <2>2 DEF SidesInv, FiledInv
<1>11. DigestInv'
  <2>1. CASE behind' = behind \cup {"digest"}
    BY <2>1 DEF DigestInv
  <2>2. CASE dig' = [dig EXCEPT ![c] = @ + 1] /\ behind' = behind
    <3>1. CASE Digested
      <4>1. Undigested \subseteq Decisions /\ status \in StatusOf
        BY <1>3, PartsOfAdding, PendingIsRecorded DEF Undigested, SidesType
      <4>2. status[c] = "active"
        BY <1>7, <3>1 DEF Digested, ActiveIn
      <4>3. dig = DigestOf(Barring(status, Undigested))
        BY <3>1 DEF Digested
      <4>4. dig' = DigestOf(Barring(status, Undigested \ {c}))
        <5>1. PICK d : d = c
          OBVIOUS
        <5>2. PICK ds : ds = Undigested
          OBVIOUS
        <5>3. ds \in SUBSET Decisions /\ d \in ds /\ status[d] = "active" /\ status \in StatusOf
          BY <1>7, <4>1, <4>2, <5>1, <5>2
        <5>4. dig = DigestOf(Barring(status, ds))
          BY <4>3, <5>2
        <5>5. DigestOf(Barring(status, ds \ {d})) = [dig EXCEPT ![d] = @ + 1]
          BY <5>3, <5>4, DigestsOne
        <5> QED BY <2>2, <5>1, <5>2, <5>5
      <4>5. Digested'
        BY <1>1, <1>7, <3>1, <4>4 DEF Digested, ActiveIn, DigestOf, Barring
      <4> QED BY <4>5 DEF DigestInv
    <3>2. CASE ~Digested
      BY <1>6, <2>2, <3>2 DEF SidesInv, DigestInv
    <3> QED BY <3>1, <3>2
  <2> QED BY <1>4, <2>1, <2>2
<1> QED BY <1>6, <1>8, <1>9, <1>10, <1>11 DEF SidesInv

(* A rebuild forgets what it has read.                                        *)
LEMMA Forgets ==
  ASSUME SidesInv, NEW p \in Procs, snap' = [snap EXCEPT ![p] = Unread], UNCHANGED status
  PROVE  /\ snap' \in [Procs -> StatusOf]
         /\ \A q \in Procs, d \in Decisions : snap'[q][d] = "retired" => status[d] = "retired"
<1>1. Unread \in StatusOf /\ \A d \in Decisions : Unread[d] = "none"
  BY DEF Unread, StatusOf
<1>2. snap' \in [Procs -> StatusOf] /\ snap'[p] = Unread /\ \A q \in Procs \ {p} : snap'[q] = snap[q]
  BY <1>1, Unchanging
<1> QED BY <1>1, <1>2, Unchanging

LEMMA ManifestReplaceKeeps ==
  ASSUME SidesInv, NEW p \in Procs, ManifestReplace(p) PROVE SidesInv'
<1>1. /\ at[p] = "manifestReplace" /\ at' = [at EXCEPT ![p] = "digestRead"]
      /\ snap' = [snap EXCEPT ![p] = Unread]
      /\ UNCHANGED <<status, lines, mtime, storeClock, memo, cur, dig, fts, idxMtime, lost>>
  BY DEF ManifestReplace, MoveOn, storeVars, Fails, sidecars
<1>2. \/ man' = Recount(snap[p])
         /\ behind' = IF Undisturbed(p, Unfiled) THEN behind \ {"manifest"} ELSE behind \cup {"manifest"}
      \/ behind' = behind \cup {"manifest"}
  BY DEF ManifestReplace, Fails
<1>3. SidesType /\ OrderInv
  BY DEF SidesInv
<1>4. /\ "digestRead" \in DerivedLabels /\ "digestRead" \notin Adding /\ at[p] \notin Adding
      /\ "digestRead" \in Redigesting
  BY <1>1, PlainLabels
<1>5. cur' \in [Procs -> Decisions \cup {0}] /\ \A q \in Procs \ {p} : cur'[q] = cur[q]
  BY <1>1, Unchanging
<1>6. /\ Unfiled' = Unfiled /\ Unindexed' = Unindexed /\ Undigested' = Undigested
      /\ at' \in [Procs -> DerivedLabels]
      /\ \A q \in Procs : at'[q] \in Adding <=> at[q] \in Adding
      /\ \A q \in Procs : at'[q] \in Adding => cur'[q] = cur[q]
  BY <1>1, <1>4, <1>5, StaysPut
<1>7. /\ snap' \in [Procs -> StatusOf]
      /\ \A q \in Procs, d \in Decisions : snap'[q][d] = "retired" => status[d] = "retired"
  BY <1>1, Forgets
<1>8. SidesType'
  BY <1>1, <1>3, <1>5, <1>6, <1>7 DEF SidesType
<1>9. OrderInv'
  BY <1>1, <1>3, <1>6, <1>7 DEF OrderInv
<1>10. CoverInv'
  BY <1>1, <1>6 DEF SidesInv, CoverInv, Covered, ActiveIn, Stamp
<1>11. FiledInv'
  <2>1. CASE "manifest" \in behind'
    BY <2>1 DEF FiledInv
  <2>2. CASE "manifest" \notin behind'
    <3>1. man' = Recount(snap[p]) /\ Undisturbed(p, Unfiled)
      BY <1>2, <2>2
    <3>2. man' = Recount(Barring(status, Unfiled)) /\ Unfiled \subseteq ActiveIn(status)
      BY <3>1 DEF Undisturbed
    <3>3. Filed'
      BY <1>1, <1>6, <3>2 DEF Filed, ActiveIn, Recount, RecordedIn, Barring
    <3> QED BY <3>3 DEF FiledInv
  <2> QED BY <2>1, <2>2
<1>12. DigestInv'
  <2>1. at'[p] \in Redigesting
    BY <1>1, <1>3, <1>4 DEF SidesType
  <2> QED BY <2>1 DEF DigestInv
<1> QED BY <1>8, <1>9, <1>10, <1>11, <1>12 DEF SidesInv

LEMMA DigestReplaceKeeps ==
  ASSUME SidesInv, NEW p \in Procs, DigestReplace(p) PROVE SidesInv'
<1>1. /\ at[p] = "digestReplace" /\ at' = [at EXCEPT ![p] = "indexRead"]
      /\ snap' = [snap EXCEPT ![p] = Unread]
      /\ UNCHANGED <<status, lines, mtime, storeClock, memo, cur, man, fts, idxMtime, lost>>
  BY DEF DigestReplace, MoveOn, storeVars, Fails, sidecars
<1>2. \/ dig' = DigestOf(snap[p])
         /\ behind' = IF Undisturbed(p, Undigested) THEN behind \ {"digest"} ELSE behind \cup {"digest"}
      \/ behind' = behind \cup {"digest"}
  BY DEF DigestReplace, Fails
<1>3. SidesType /\ OrderInv
  BY DEF SidesInv
<1>4. /\ "indexRead" \in DerivedLabels /\ "indexRead" \notin Adding /\ at[p] \notin Adding
      /\ at[p] \notin Refiling
  BY <1>1, PlainLabels
<1>5. cur' \in [Procs -> Decisions \cup {0}] /\ \A q \in Procs \ {p} : cur'[q] = cur[q]
  BY <1>1, Unchanging
<1>6. /\ Unfiled' = Unfiled /\ Unindexed' = Unindexed /\ Undigested' = Undigested
      /\ at' \in [Procs -> DerivedLabels]
      /\ \A q \in Procs : at'[q] \in Adding <=> at[q] \in Adding
      /\ \A q \in Procs : at'[q] \in Adding => cur'[q] = cur[q]
  BY <1>1, <1>4, <1>5, StaysPut
<1>7. /\ snap' \in [Procs -> StatusOf]
      /\ \A q \in Procs, d \in Decisions : snap'[q][d] = "retired" => status[d] = "retired"
  BY <1>1, Forgets
<1>8. SidesType'
  BY <1>1, <1>3, <1>5, <1>6, <1>7 DEF SidesType
<1>9. OrderInv'
  BY <1>1, <1>3, <1>6, <1>7 DEF OrderInv
<1>10. CoverInv'
  BY <1>1, <1>6 DEF SidesInv, CoverInv, Covered, ActiveIn, Stamp
<1>11. FiledInv'
  <2>1. Filed' = Filed
    BY <1>1, <1>6 DEF Filed, ActiveIn, Recount, RecordedIn, Barring
  <2>2. \A q \in Procs : at[q] \in Refiling => at'[q] \in Refiling
    BY <1>1, <1>3, <1>4 DEF SidesType
  <2>3. "manifest" \in behind => "manifest" \in behind'
    BY <1>2
  <2> QED BY <2>1, <2>2, <2>3 DEF SidesInv, FiledInv
<1>12. DigestInv'
  <2>1. CASE "digest" \in behind'
    BY <2>1 DEF DigestInv
  <2>2. CASE "digest" \notin behind'
    <3>1. dig' = DigestOf(snap[p]) /\ Undisturbed(p, Undigested)
      BY <1>2, <2>2
    <3>2. dig' = DigestOf(Barring(status, Undigested)) /\ Undigested \subseteq ActiveIn(status)
      BY <3>1 DEF Undisturbed
    <3>3. Digested'
      BY <1>1, <1>6, <3>2 DEF Digested, ActiveIn, DigestOf, Barring
    <3> QED BY <3>3 DEF DigestInv
  <2> QED BY <2>1, <2>2
<1> QED BY <1>8, <1>9, <1>10, <1>11, <1>12 DEF SidesInv

LEMMA IndexReplaceKeeps ==
  ASSUME SidesInv, NEW p \in Procs, IndexReplace(p) PROVE SidesInv'
<1>1. /\ at[p] = "indexReplace" /\ cur' = [cur EXCEPT ![p] = 0]
      /\ snap' = [snap EXCEPT ![p] = Unread]
      /\ UNCHANGED <<status, lines, mtime, storeClock, memo, man, dig, behind>>
  BY DEF IndexReplace, MoveOn, storeVars, Fails, sidecars
<1>2. PICK l \in {"query", "idle"} : at' = [at EXCEPT ![p] = l]
  BY DEF IndexReplace, MoveOn
<1>3. \/ fts' = ActiveIn(snap[p]) /\ lost' = ActiveIn(Barring(status, Unindexed)) \ RecordedIn(snap[p])
      \/ UNCHANGED <<fts, idxMtime, lost>>
  BY DEF IndexReplace, Fails, sidecars
<1>4. SidesType /\ OrderInv
  BY DEF SidesInv
<1>5. /\ l \in DerivedLabels /\ l \notin Adding /\ at[p] \notin Adding
      /\ at[p] \notin Refiling /\ at[p] \notin Redigesting
  BY <1>1, PlainLabels
<1>6. cur' \in [Procs -> Decisions \cup {0}] /\ \A q \in Procs \ {p} : cur'[q] = cur[q]
  BY <1>1, <1>4 DEF SidesType
<1>7. /\ Unfiled' = Unfiled /\ Unindexed' = Unindexed /\ Undigested' = Undigested
      /\ at' \in [Procs -> DerivedLabels]
      /\ \A q \in Procs : at'[q] \in Adding <=> at[q] \in Adding
      /\ \A q \in Procs : at'[q] \in Adding => cur'[q] = cur[q]
  BY <1>2, <1>5, <1>6, StaysPut
<1>8. /\ snap' \in [Procs -> StatusOf]
      /\ \A q \in Procs, d \in Decisions : snap'[q][d] = "retired" => status[d] = "retired"
  BY <1>1, Forgets
<1>9. SidesType'
  BY <1>1, <1>4, <1>6, <1>7, <1>8 DEF SidesType
<1>10. OrderInv'
  BY <1>1, <1>4, <1>7, <1>8 DEF OrderInv
<1>11. Stamp' = Stamp /\ ActiveIn(status)' = ActiveIn(status)
  BY <1>1 DEF Stamp, ActiveIn
<1>12. CoverInv'
  <2>1. CASE UNCHANGED <<fts, idxMtime, lost>>
    BY <1>1, <1>7, <1>11, <2>1 DEF SidesInv, CoverInv, Covered
  <2>2. CASE fts' = ActiveIn(snap[p]) /\ lost' = ActiveIn(Barring(status, Unindexed)) \ RecordedIn(snap[p])
    <3>1. ASSUME NEW d \in ActiveIn(status), d \notin lost', d \notin Unindexed
          PROVE  d \in fts'
      <4>1. d \in Decisions /\ status[d] = "active"
        BY DEF ActiveIn
      <4>2. d \in ActiveIn(Barring(status, Unindexed))
        BY <3>1, <4>1 DEF ActiveIn, Barring
      <4>3. snap[p][d] # "none"
        BY <2>2, <3>1, <4>1, <4>2 DEF RecordedIn
      <4>4. snap[p][d] \in {"none", "active", "retired"} /\ snap[p][d] # "retired"
        BY <1>4, <4>1 DEF SidesType, StatusOf, OrderInv
      <4> QED BY <2>2, <4>1, <4>3, <4>4 DEF ActiveIn
    <3>2. Covered'
      BY <1>7, <1>11, <3>1 DEF Covered
    <3> QED BY <3>2 DEF CoverInv
  <2> QED BY <1>3, <2>1, <2>2
<1>13. Filed' = Filed /\ Digested' = Digested
  BY <1>1, <1>7 DEF Filed, Digested, ActiveIn, DigestOf, Barring, Recount, RecordedIn
<1>14. \A q \in Procs : /\ at[q] \in Refiling => at'[q] \in Refiling
                        /\ at[q] \in Redigesting => at'[q] \in Redigesting
  BY <1>2, <1>4, <1>5 DEF SidesType
<1>15. FiledInv' /\ DigestInv'
  BY <1>1, <1>13, <1>14 DEF SidesInv, FiledInv, DigestInv
<1> QED BY <1>9, <1>10, <1>12, <1>15 DEF SidesInv

(* fts5_index, manifest and digest: for any number of processes, decisions and    *)
(* failures, an index that a process takes to be fresh lacks, once every call has *)
(* returned, only decisions whose addition failed unflagged or to a memo, or     *)
(* met a rebuild; and manifest and digest are the store's, but after a failed    *)
(* update or a rebuild that met an addition.                                   *)
THEOREM DerivedDoAgree == DSpec => []DerivedAgree
<1>1. DInit => SidesInv
  BY SidesBegin
<1>2. SidesInv /\ [DNext]_dvars => SidesInv'
  <2> SUFFICES ASSUME SidesInv, [DNext]_dvars PROVE SidesInv'
    OBVIOUS
  <2>1. CASE Tick
    BY <2>1, TickKeeps
  <2>2. ASSUME NEW p \in Procs, DerivedCalls(p) PROVE SidesInv'
    BY <2>2, RecordSomeKeeps, AppendDecisionKeeps, ManifestAddKeeps, FtsAddKeeps, MarkStaleKeeps,
       DigestAddKeeps, AmendStoreKeeps, ClearVerdictsKeeps, ReadStoreKeeps, ManifestReplaceKeeps,
       DigestReplaceKeeps, IndexReplaceKeeps, SearchIndexKeeps, QueryKeeps DEF DerivedCalls
  <2>3. CASE UNCHANGED dvars
    <3>1. UNCHANGED <<status, lines, mtime, storeClock, man, dig, fts, idxMtime, memo, at, cur, snap,
                      behind, lost>>
      BY <2>3 DEF dvars
    <3>2. SidesType' /\ OrderInv'
      BY <3>1 DEF SidesInv, SidesType, OrderInv
    <3>3. Covered' = Covered /\ Stamp' = Stamp /\ Filed' = Filed /\ Digested' = Digested
      BY <3>1 DEF Covered, Stamp, Filed, Digested, Unfiled, Unindexed, Undigested, Pending, ActiveIn,
                  Recount, RecordedIn, DigestOf, Barring
    <3>4. CoverInv' /\ FiledInv' /\ DigestInv'
      BY <3>1, <3>3 DEF SidesInv, CoverInv, FiledInv, DigestInv
    <3> QED BY <3>2, <3>4 DEF SidesInv
  <2> QED BY <2>1, <2>2, <2>3 DEF DNext
<1>3. SidesInv => DerivedAgree
  <2> SUFFICES ASSUME SidesInv, Idle PROVE DerivedAgree
    BY DEF DerivedAgree, NothingHidden, SidecarsAgree
  <2>1. \A labels \in SUBSET Adding : Pending(labels) = {}
    BY DEF Idle, Pending, Adding
  <2>2. Unfiled = {} /\ Unindexed = {} /\ Undigested = {}
    BY <2>1, PartsOfAdding DEF Unfiled, Unindexed, Undigested
  <2>3. Barring(status, {}) = status
    BY DEF Barring, SidesInv, SidesType, StatusOf
  <2>4. \A p \in Procs : at[p] \notin Refiling /\ at[p] \notin Redigesting
    BY DEF Idle, Refiling, Redigesting
  <2>5. SidecarsAgree
    BY <2>2, <2>3, <2>4 DEF SidesInv, FiledInv, DigestInv, Filed, Digested, SidecarsAgree
  <2>6. NothingHidden
    BY <2>2 DEF SidesInv, CoverInv, Covered, Stale, NothingHidden
  <2> QED BY <2>5, <2>6 DEF DerivedAgree
<1> QED BY <1>1, <1>2, <1>3, PTL DEF DSpec

=============================================================================
