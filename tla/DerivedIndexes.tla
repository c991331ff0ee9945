-------------------------- MODULE DerivedIndexes ---------------------------
(***************************************************************************)
(* What is derived from decisions.jsonl and kept beside it: manifest.yaml  *)
(* (mcp_server/storage/manifest.py), digest.jsonl (digest.py) and the      *)
(* full-text index (fts5_index.py).  record and record_many of             *)
(* decisions_store.py add to the three one after the other, an amendment   *)
(* rebuilds the three, and a search rebuilds the index when it looks stale.*)
(* Each of these may fail: the failure is logged and the call goes on.     *)
(*                                                                         *)
(* The store is reduced to the status of each decision.  A rebuild reads   *)
(* the store, and later replaces what it rebuilds: no lock spans the two,  *)
(* and other processes append and add between them.                        *)
(***************************************************************************)
EXTENDS Integers, Sequences, FiniteSets

CONSTANTS
  Procs,
  Decisions,   \* the ids, 1 .. n, in the order in which they are minted
  Tagged,      \* those recorded with tags
  MaxLines,    \* bound: lines of decisions.jsonl
  MaxClock,    \* bound: the clock, in the units of file times
  MaxFails     \* bound: updates that fail

ASSUME DerivedIndexesAssumption ==
  IsFiniteSet(Decisions) /\ Decisions \subseteq Nat \ {0}

Slack == 1     \* staleness_check's epsilon
Absent == -1   \* no source_mtime row, or no index at all
Never == <<-1, -1>>

VARIABLES
  status,      \* decisions.jsonl, merged: none, active or retired
  lines, mtime, storeClock,
  man, dig, fts,
  idxMtime,    \* the source_mtime row
  memo,        \* memo[p]: _FRESH_CACHE of the process
  at, cur, batch, snap,  \* where p is, its decision, what is left of its batch,
                        \* and the store as it read it
  fails,
  behind,      \* history: the manifest, the digest, left behind by a failed update
               \* or by a rebuild that met an addition
  lost         \* history: decisions neither indexed nor flagged

dvars == <<status, lines, mtime, storeClock, man, dig, fts, idxMtime, memo, at, cur,
           batch, snap, fails, behind, lost>>
storeVars == <<status, lines, mtime>>
sidecars == <<man, dig, fts, idxMtime>>

ActiveIn(st) == {d \in Decisions : st[d] = "active"}
RecordedIn(st) == {d \in Decisions : st[d] # "none"}

(* What manifest.regenerate counts and files.                                *)
Recount(st) ==
  [total |-> Cardinality(RecordedIn(st)), active |-> Cardinality(ActiveIn(st)),
   tags |-> ActiveIn(st) \cap Tagged]

DigestOf(st) == [d \in Decisions |-> IF d \in ActiveIn(st) THEN 1 ELSE 0]

(* The decisions that were appended and are still to be added: before each side. *)
Pending(labels) == {cur[p] : p \in {q \in Procs : at[q] \in labels}}
Unfiled == Pending({"manifest"})
Unindexed == Pending({"manifest", "fts", "flag"})
Undigested == Pending({"manifest", "fts", "flag", "digest"})

Barring(st, ds) == [d \in Decisions |-> IF d \in ds THEN "none" ELSE st[d]]

(* What p read is the store as it is, but for what is still to be added.        *)
Undisturbed(p, ds) == ds \subseteq ActiveIn(status) /\ snap[p] = Barring(status, ds)

Stamp == <<mtime, lines>>

Stale(p) ==
  /\ memo[p] # Stamp
  /\ idxMtime = Absent \/ mtime > idxMtime + Slack

Unread == [d \in Decisions |-> "none"]

DInit ==
  /\ status = [d \in Decisions |-> "none"]
  /\ lines = 0 /\ mtime = 0 /\ storeClock = 0
  /\ man = Recount(status) /\ dig = DigestOf(status)
  /\ fts = {} /\ idxMtime = Absent
  /\ memo = [p \in Procs |-> Never]
  /\ at = [p \in Procs |-> "idle"]
  /\ cur = [p \in Procs |-> 0] /\ batch = [p \in Procs |-> 0]
  /\ snap = [p \in Procs |-> Unread]
  /\ fails = 0 /\ behind = {} /\ lost = {}

MoveOn(p, label) == at' = [at EXCEPT ![p] = label]

AppendRow(st) ==
  /\ lines < MaxLines
  /\ status' = st /\ lines' = lines + 1 /\ mtime' = storeClock

(* An update raises; nothing of it is kept.                                  *)
Fails(sides, ds) ==
  /\ fails < MaxFails
  /\ fails' = fails + 1
  /\ behind' = behind \cup sides /\ lost' = lost \cup ds
  /\ UNCHANGED sidecars

-----------------------------------------------------------------------------
(* record and record_many: for each decision, append and then add.           *)

RecordSome(p) ==
  /\ at[p] = "idle"
  /\ \E n \in 1 .. 2 : batch' = [batch EXCEPT ![p] = n]
  /\ MoveOn(p, "append")
  /\ UNCHANGED <<storeVars, storeClock, sidecars, memo, cur, snap, fails, behind, lost>>

AppendDecision(p) ==
  /\ at[p] = "append"
  /\ \E d \in Decisions :
       /\ status[d] = "none" /\ \A e \in Decisions : e < d => status[e] # "none"
       /\ AppendRow([status EXCEPT ![d] = "active"])
       /\ cur' = [cur EXCEPT ![p] = d]
  /\ batch' = [batch EXCEPT ![p] = @ - 1]
  /\ MoveOn(p, "manifest")
  /\ UNCHANGED <<storeClock, sidecars, memo, snap, fails, behind, lost>>

(* incremental_add, under the sidecar's lock; only tags are searched for a    *)
(* decision that is already in.                                              *)
ManifestAdd(p) ==
  /\ at[p] = "manifest"
  /\ \/ /\ man' = IF cur[p] \in man.tags THEN man
                  ELSE [total |-> man.total + 1, active |-> man.active + 1,
                        tags |-> man.tags \cup ({cur[p]} \cap Tagged)]
        /\ UNCHANGED <<dig, fts, idxMtime, fails, behind, lost>>
     \/ Fails({"manifest"}, {})
  /\ MoveOn(p, "fts")
  /\ UNCHANGED <<storeVars, storeClock, memo, cur, batch, snap>>

(* add_decision.                                                             *)
FtsAdd(p) ==
  /\ at[p] = "fts"
  /\ \/ /\ fts' = fts \cup {cur[p]} /\ MoveOn(p, "digest")
        /\ UNCHANGED <<man, dig, idxMtime, fails, behind, lost>>
     \/ Fails({}, {}) /\ MoveOn(p, "flag")
  /\ UNCHANGED <<storeVars, storeClock, memo, cur, batch, snap>>

(* Mutant: only the process's memo is cleared.                               *)
FlagMemo(p) ==
  /\ at[p] = "flag"
  /\ memo' = [memo EXCEPT ![p] = Never]
  /\ MoveOn(p, "digest")
  /\ UNCHANGED <<storeVars, storeClock, sidecars, cur, batch, snap, fails, behind, lost>>

(* mark_stale.  It is a best effort too; and it clears the memo of its own     *)
(* process only: another that found the index fresh after the append does not *)
(* look at the row again.                                                    *)
MarkStale(p) ==
  /\ at[p] = "flag"
  /\ memo' = [memo EXCEPT ![p] = Never]
  /\ \/ /\ idxMtime' = Absent
        /\ lost' = IF \E q \in Procs \ {p} : memo[q] = Stamp THEN lost \cup {cur[p]} ELSE lost
        /\ UNCHANGED <<man, dig, fts, fails, behind>>
     \/ idxMtime # Absent /\ Fails({}, {cur[p]})
  /\ MoveOn(p, "digest")
  /\ UNCHANGED <<storeVars, storeClock, cur, batch, snap>>

DigestAdd(p) ==
  /\ at[p] = "digest"
  /\ \/ /\ dig' = [dig EXCEPT ![cur[p]] = @ + 1]
        /\ UNCHANGED <<man, fts, idxMtime, fails, behind, lost>>
     \/ Fails({"digest"}, {})
  /\ MoveOn(p, IF batch[p] > 0 THEN "append" ELSE "idle")
  /\ cur' = [cur EXCEPT ![p] = 0]
  /\ UNCHANGED <<storeVars, storeClock, memo, batch, snap>>

-----------------------------------------------------------------------------
(* set_flag, mark_protected, mark_outdated, reaffirm, supersede: an amendment  *)
(* is appended, which may retire its decision, and everything is rebuilt.    *)

AmendStore(p) ==
  /\ at[p] = "idle"
  /\ \E d \in ActiveIn(status), s \in {"active", "retired"} :
       AppendRow([status EXCEPT ![d] = s]) /\ cur' = [cur EXCEPT ![p] = d]
  /\ MoveOn(p, "rebuild")
  /\ UNCHANGED <<storeClock, sidecars, memo, batch, snap, fails, behind, lost>>

(* Mutant: an amendment rebuilds the full-text index alone.                  *)
ClearIndexOnly(p) ==
  /\ at[p] = "rebuild"
  /\ memo' = [memo EXCEPT ![p] = Never]
  /\ MoveOn(p, "indexRead")
  /\ UNCHANGED <<storeVars, storeClock, sidecars, cur, batch, snap, fails, behind, lost>>

ClearVerdicts(p) ==
  /\ at[p] = "rebuild"
  /\ memo' = [memo EXCEPT ![p] = Never]
  /\ MoveOn(p, "manifestRead")
  /\ UNCHANGED <<storeVars, storeClock, sidecars, cur, batch, snap, fails, behind, lost>>

(* Each rebuild begins by reading the store, and forgets it when it is done.    *)
ReadStore(p) ==
  LET replaces == [manifestRead |-> "manifestReplace", digestRead |-> "digestReplace",
                   indexRead |-> "indexReplace"] IN
  /\ at[p] \in DOMAIN replaces /\ MoveOn(p, replaces[at[p]])
  /\ snap' = [snap EXCEPT ![p] = status]
  /\ UNCHANGED <<storeVars, storeClock, sidecars, memo, cur, batch, fails, behind, lost>>

ManifestReplace(p) ==
  /\ at[p] = "manifestReplace"
  /\ \/ /\ man' = Recount(snap[p])
        /\ behind' = IF Undisturbed(p, Unfiled) THEN behind \ {"manifest"}
                     ELSE behind \cup {"manifest"}
        /\ UNCHANGED <<dig, fts, idxMtime, fails, lost>>
     \/ Fails({"manifest"}, {})
  /\ MoveOn(p, "digestRead")
  /\ snap' = [snap EXCEPT ![p] = Unread]
  /\ UNCHANGED <<storeVars, storeClock, memo, cur, batch>>

DigestReplace(p) ==
  /\ at[p] = "digestReplace"
  /\ \/ /\ dig' = DigestOf(snap[p])
        /\ behind' = IF Undisturbed(p, Undigested) THEN behind \ {"digest"}
                     ELSE behind \cup {"digest"}
        /\ UNCHANGED <<man, fts, idxMtime, fails, lost>>
     \/ Fails({"digest"}, {})
  /\ MoveOn(p, "indexRead")
  /\ snap' = [snap EXCEPT ![p] = Unread]
  /\ UNCHANGED <<storeVars, storeClock, memo, cur, batch>>

(* The transaction replaces the rows and takes the store's mtime, now: what    *)
(* was appended and added since the rebuild read the store is gone from the   *)
(* index.  A search goes on in either case.                                  *)
IndexReplace(p) ==
  /\ at[p] = "indexReplace"
  /\ \/ /\ fts' = ActiveIn(snap[p]) /\ idxMtime' = mtime
        /\ lost' = ActiveIn(Barring(status, Unindexed)) \ RecordedIn(snap[p])
        /\ UNCHANGED <<man, dig, fails, behind>>
     \/ Fails({}, {})
  /\ MoveOn(p, IF cur[p] = 0 THEN "query" ELSE "idle")
  /\ snap' = [snap EXCEPT ![p] = Unread]
  /\ cur' = [cur EXCEPT ![p] = 0]
  /\ UNCHANGED <<storeVars, storeClock, memo, batch>>

-----------------------------------------------------------------------------
(* search.  cur = 0 tells its rebuild from an amendment's.                   *)

SearchIndex(p) ==
  /\ at[p] = "idle"
  /\ cur' = [cur EXCEPT ![p] = 0]
  /\ IF Stale(p) THEN /\ MoveOn(p, "indexRead") /\ UNCHANGED memo
     ELSE /\ MoveOn(p, "query")
          /\ memo' = IF lines = 0 THEN memo ELSE [memo EXCEPT ![p] = Stamp]
  /\ UNCHANGED <<storeVars, storeClock, sidecars, batch, snap, fails, behind, lost>>

(* The hits are those of the index; retired ones are dropped.                *)
Query(p) ==
  /\ at[p] = "query"
  /\ MoveOn(p, "idle")
  /\ UNCHANGED <<storeVars, storeClock, sidecars, memo, cur, batch, snap, fails, behind, lost>>

Tick ==
  /\ storeClock < MaxClock
  /\ storeClock' = storeClock + 1
  /\ UNCHANGED <<storeVars, sidecars, memo, at, cur, batch, snap, fails, behind, lost>>

DerivedCalls(p) ==
  \/ RecordSome(p) \/ AppendDecision(p) \/ ManifestAdd(p) \/ FtsAdd(p) \/ MarkStale(p) \/ DigestAdd(p)
  \/ AmendStore(p) \/ ClearVerdicts(p) \/ ReadStore(p)
  \/ ManifestReplace(p) \/ DigestReplace(p) \/ IndexReplace(p)
  \/ SearchIndex(p) \/ Query(p)

DNext == Tick \/ \E p \in Procs : DerivedCalls(p)
DSpec == DInit /\ [][DNext]_dvars

-----------------------------------------------------------------------------
Idle == \A p \in Procs : at[p] = "idle"

(* Once every call has returned, whoever takes the index to be fresh finds in *)
(* it every active decision but three kinds: one whose failed addition could    *)
(* not be flagged; one flagged to all but a process that had found the index    *)
(* fresh since the append; and one added while a rebuild was between its read   *)
(* and its replacement.  Nothing else that processes do hides a decision:        *)
(* staleness_check, mark_stale and the memos together.                        *)
NothingHidden ==
  Idle => \A p \in Procs : Stale(p) \/ ActiveIn(status) \ lost \subseteq fts

(* Once every call has returned, a manifest and a digest are what a rebuild    *)
(* from the store would write, but if an update of theirs failed or their last *)
(* rebuild met an addition, however the processes' additions, amendments and   *)
(* rebuilds interleave.                                                      *)
SidecarsAgree ==
  Idle => /\ "manifest" \in behind \/ man = Recount(status)
          /\ "digest" \in behind \/ dig = DigestOf(status)

(* What is derived of the store agrees with it.                               *)
DerivedAgree == NothingHidden /\ SidecarsAgree
=============================================================================
