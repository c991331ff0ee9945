--------------------------- MODULE WorkingMemory ---------------------------
(***************************************************************************)
(* The scratchpad of a project, working.jsonl (mcp_server/storage/          *)
(* working_store.py), its tools (mcp_server/tools/working.py) and the       *)
(* observations that every process buffers (mcp_server/engine/              *)
(* memory_fanout.py).  An entry is promoted to a decision or a skill in     *)
(* three steps with no lock over them: it is looked at, the record is       *)
(* written, a tombstone is appended.  Appends are atomic, as JsonlStore     *)
(* shows.                                                                  *)
(***************************************************************************)
EXTENDS Integers, Sequences, SequencesExt, FiniteSets

CONSTANTS
  Workers,     \* processes
  WorkSessions,
  Threshold,   \* _FLUSH_THRESHOLD
  MaxRows,     \* bound: rows of working.jsonl
  MaxObs,      \* bound: observations
  MaxPromos,   \* bound: promotions begun
  MaxArchived, \* bound: rows of an archive when a commit begins
  MaxKills     \* bound: processes killed

VARIABLES
  wlog,        \* working.jsonl: entries, and the tombstones of promoted ones
  ltm,         \* the decisions and skills that were promoted, with the length
               \* that working.jsonl had when the promotion began
  archive,     \* the rows of working_archived/<session>.jsonl
  buffer, drained,  \* _BUFFER of the process, and what flush took out of it
  wpc, job,    \* where a process is, and the entry, its length and its list
  observed, promos, kills
wmvars == <<wlog, ltm, archive, buffer, drained, wpc, job, observed, promos, kills>>

NoJob == [entry |-> 0, since |-> 0, todo |-> <<>>]

Bases(l) == {i \in DOMAIN l : l[i].target = 0}
Dead(l) == {l[i].id : i \in DOMAIN l \ Bases(l)}
Live(s) == {i \in Bases(wlog) : wlog[i].session = s /\ wlog[i].id \notin Dead(wlog)}

Entry(s, p, obs) ==
  [id |-> Cardinality(Bases(wlog)) + 1, target |-> 0, session |-> s, by |-> p, obs |-> obs]
Tombstone(id, target) ==
  [id |-> id, target |-> target, session |-> "", by |-> "", obs |-> 0]

WMInit ==
  /\ wlog = <<>> /\ ltm = <<>>
  /\ archive = [s \in WorkSessions |-> 0]
  /\ buffer = [p \in Workers |-> <<>>] /\ drained = [p \in Workers |-> <<>>]
  /\ wpc = [p \in Workers |-> "idle"] /\ job = [p \in Workers |-> NoJob]
  /\ observed = 0 /\ promos = 0 /\ kills = 0

WGoto(p, label) == wpc' = [wpc EXCEPT ![p] = label]

-----------------------------------------------------------------------------
Add(p) ==
  /\ wpc[p] = "idle" /\ Len(wlog) < MaxRows
  /\ \E s \in WorkSessions : wlog' = Append(wlog, Entry(s, p, 0))
  /\ UNCHANGED <<ltm, archive, buffer, drained, wpc, job, observed, promos, kills>>

(* working_promote: to a decision or to a skill ...                          *)
Promote(p) ==
  /\ wpc[p] = "idle" /\ promos < MaxPromos
  /\ promos' = promos + 1
  /\ \E i \in Bases(wlog) :
       job' = [job EXCEPT ![p] = [NoJob EXCEPT !.entry = wlog[i].id, !.since = Len(wlog)]]
  /\ WGoto(p, "check")
  /\ UNCHANGED <<wlog, ltm, archive, buffer, drained, observed, kills>>

(* Mutant: any entry that exists is promoted.                                *)
CheckExists(p) ==
  /\ wpc[p] = "check" /\ WGoto(p, "record")
  /\ UNCHANGED <<wlog, ltm, archive, buffer, drained, job, observed, promos, kills>>

(* ... unless it has a tombstone, or a conflict is found and not forced ...   *)
Check(p) ==
  /\ wpc[p] = "check"
  /\ \/ job[p].entry \notin Dead(wlog) /\ WGoto(p, "record") /\ UNCHANGED job
     \/ WGoto(p, "idle") /\ job' = [job EXCEPT ![p] = NoJob]
  /\ UNCHANGED <<wlog, ltm, archive, buffer, drained, observed, promos, kills>>

(* ... decisions_store.record or record_skill, which may fail ...            *)
RecordTarget(p) ==
  /\ wpc[p] = "record"
  /\ \/ /\ ltm' = Append(ltm, [from |-> job[p].entry, since |-> job[p].since])
        /\ WGoto(p, "mark")
        /\ job' = [job EXCEPT ![p].since = Len(ltm) + 1]
     \/ WGoto(p, "idle") /\ job' = [job EXCEPT ![p] = NoJob] /\ UNCHANGED ltm
  /\ UNCHANGED <<wlog, archive, buffer, drained, observed, promos, kills>>

(* ... mark_promoted.  A failure leaves the entry live.                      *)
MarkPromoted(p) ==
  /\ wpc[p] = "mark"
  /\ \/ wlog' = Append(wlog, Tombstone(job[p].entry, job[p].since))
     \/ UNCHANGED wlog
  /\ WGoto(p, "idle") /\ job' = [job EXCEPT ![p] = NoJob]
  /\ UNCHANGED <<ltm, archive, buffer, drained, observed, promos, kills>>

-----------------------------------------------------------------------------
(* commit_session: the live entries of a session are copied one by one; each   *)
(* commit copies all of them again.                                          *)
Commit(p) ==
  /\ wpc[p] = "idle"
  /\ \E s \in WorkSessions :
       /\ Live(s) # {} /\ archive[s] < MaxArchived
       /\ job' = [job EXCEPT ![p] = [NoJob EXCEPT !.todo = SetToSortSeq(Live(s), <)]]
  /\ WGoto(p, "archive")
  /\ UNCHANGED <<wlog, ltm, archive, buffer, drained, observed, promos, kills>>

Archive(p) ==
  /\ wpc[p] = "archive"
  /\ LET row == Head(job[p].todo)  s == wlog[row].session  rest == Tail(job[p].todo) IN
       /\ archive' = [archive EXCEPT ![s] = @ + 1]
       /\ job' = [job EXCEPT ![p].todo = rest]
       /\ WGoto(p, IF rest = <<>> THEN "idle" ELSE "archive")
  /\ UNCHANGED <<wlog, ltm, buffer, drained, observed, promos, kills>>

-----------------------------------------------------------------------------
(* memory_fanout: dispatch buffers; flush, when the buffer is full or the      *)
(* process exits, takes it whole and writes it, unless the project is not     *)
(* opted in.                                                                 *)
Flushed(p, b) ==
  \/ /\ buffer' = [buffer EXCEPT ![p] = <<>>]
     /\ drained' = [drained EXCEPT ![p] = b]
     /\ WGoto(p, "drain")
  \/ /\ buffer' = [buffer EXCEPT ![p] = <<>>]
     /\ UNCHANGED <<drained, wpc>>

Dispatch(p) ==
  /\ wpc[p] = "idle" /\ observed < MaxObs
  /\ observed' = observed + 1
  /\ LET b == Append(buffer[p], observed + 1) IN
       IF Len(b) >= Threshold THEN Flushed(p, b)
       ELSE buffer' = [buffer EXCEPT ![p] = b] /\ UNCHANGED <<drained, wpc>>
  /\ UNCHANGED <<wlog, ltm, archive, job, promos, kills>>

Exit(p) ==
  /\ wpc[p] = "idle" /\ buffer[p] # <<>>
  /\ Flushed(p, buffer[p])
  /\ UNCHANGED <<wlog, ltm, archive, job, observed, promos, kills>>

(* An observation that cannot be added is dropped.                           *)
Drain(p) ==
  /\ wpc[p] = "drain"
  /\ \/ /\ Len(wlog) < MaxRows
        /\ \E s \in WorkSessions : wlog' = Append(wlog, Entry(s, p, Head(drained[p])))
     \/ UNCHANGED wlog
  /\ drained' = [drained EXCEPT ![p] = Tail(@)]
  /\ WGoto(p, IF Tail(drained[p]) = <<>> THEN "idle" ELSE "drain")
  /\ UNCHANGED <<ltm, archive, buffer, job, observed, promos, kills>>

Kill(p) ==
  /\ kills < MaxKills
  /\ kills' = kills + 1
  /\ buffer' = [buffer EXCEPT ![p] = <<>>] /\ drained' = [drained EXCEPT ![p] = <<>>]
  /\ WGoto(p, "idle") /\ job' = [job EXCEPT ![p] = NoJob]
  /\ UNCHANGED <<wlog, ltm, archive, observed, promos>>

WMNext == \E p \in Workers :
  \/ Add(p) \/ Promote(p) \/ Check(p) \/ RecordTarget(p) \/ MarkPromoted(p)
  \/ Commit(p) \/ Archive(p) \/ Dispatch(p) \/ Exit(p) \/ Drain(p) \/ Kill(p)
WMSpec == WMInit /\ [][WMNext]_wmvars

-----------------------------------------------------------------------------
(* An entry is promoted twice only by overlapping calls, or when the first     *)
(* could not leave its tombstone: no promotion that wrote a record began      *)
(* after a tombstone of its entry.                                           *)
PromotedOnce ==
  \A j \in DOMAIN ltm : ltm[j].from \notin Dead(SubSeq(wlog, 1, ltm[j].since))

(* A tombstone leads to the record its entry became, across kills and failures. *)
TombstonesLead ==
  \A i \in DOMAIN wlog \ Bases(wlog) :
    wlog[i].target \in DOMAIN ltm /\ ltm[wlog[i].target].from = wlog[i].id

(* What becomes of an entry is known from its tombstone, once and for all.      *)
PromotionsHold == PromotedOnce /\ TombstonesLead
=============================================================================
