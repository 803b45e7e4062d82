------------------------------ MODULE RulesReview ------------------------------
(***************************************************************************)
(* `weave slm review-rules` (crates/weave-graph-cli/src/rules.rs): rule    *)
(* sentences found in the Markdown files are listed with numbers, and a    *)
(* later run confirms or rejects them by number.                           *)
(*                                                                         *)
(* Every run reads the documents and .weave/rules.toml anew; the documents *)
(* may change and another run may save in between, and a save can be cut   *)
(* short, which leaves a file that is read as empty.  A candidate is its   *)
(* text, by which decisions are kept: its file and line are only printed,  *)
(* and so is the order of the decisions.                                   *)
(***************************************************************************)
EXTENDS Naturals, Sequences

CONSTANTS Reviewers,
          Documents,   \* possible candidate lists, in file and line order: sequences of texts
          Selections,  \* what --confirm and --reject may be given, <<>> being nothing
          MaxReviews

ASSUME RulesAssumption == Selections \subseteq Seq(Nat)

VARIABLES documents,
          saved,       \* rules.toml: the texts that are [confirmed, rejected]
          review,      \* each reviewer's run
          overlap,     \* whether a run has saved over what it did not read, or was cut
          decided,     \* the texts of every save that was completed
          reviews
rulesVars == <<documents, saved, review, overlap, decided, reviews>>

NoRules == [confirmed |-> {}, rejected |-> {}]
NoReview == [pc |-> "idle"]
Texts(state) == state.confirmed \cup state.rejected
\* listing: candidates whose text is neither confirmed nor rejected.
Pending(docs, state) == SelectSeq(docs, LAMBDA text : text \notin Texts(state))

RulesInit ==
    /\ documents \in Documents
    /\ saved = NoRules
    /\ review = [r \in Reviewers |-> NoReview]
    /\ overlap = FALSE /\ decided = {} /\ reviews = 0

\* Both loops of cmd_review_rules over the chosen numbers of the pending list: a
\* text leaves both lists and is put on one of them.
Chosen(list, spec) == {list[spec[i]] : i \in DOMAIN spec}
ConfirmAll(state, list, spec) ==
    [confirmed |-> state.confirmed \cup Chosen(list, spec), rejected |-> state.rejected \ Chosen(list, spec)]
RejectAll(state, list, spec) ==
    [confirmed |-> state.confirmed \ Chosen(list, spec), rejected |-> state.rejected \cup Chosen(list, spec)]

\* selection_indexes: one number out of range refuses the selection.
InRange(list, spec) == \A i \in DOMAIN spec : spec[i] \in 1..Len(list)

\* Mutant form: the decisions start from an empty file.
ReviewAfresh(r, confirm, reject) ==
    LET waiting == Pending(documents, saved) IN
    /\ review[r] = NoReview /\ reviews < MaxReviews
    /\ reviews' = reviews + 1
    /\ review' = [review EXCEPT ![r] =
           IF ~InRange(waiting, confirm) \/ ~InRange(waiting, reject) THEN NoReview
           ELSE [pc |-> IF confirm = <<>> /\ reject = <<>> THEN "show" ELSE "save", read |-> saved,
                 state |-> RejectAll(ConfirmAll(NoRules, waiting, confirm), waiting, reject)]]
    /\ UNCHANGED <<documents, saved, overlap, decided>>

\* cmd_review_rules up to save_state.  Nothing is saved on an error.
Review(r, confirm, reject) ==
    LET waiting == Pending(documents, saved) IN
    /\ review[r] = NoReview /\ reviews < MaxReviews
    /\ reviews' = reviews + 1
    /\ review' = [review EXCEPT ![r] =
           IF ~InRange(waiting, confirm) \/ ~InRange(waiting, reject) THEN NoReview
           ELSE [pc |-> IF confirm = <<>> /\ reject = <<>> THEN "show" ELSE "save", read |-> saved,
                 state |-> RejectAll(ConfirmAll(saved, waiting, confirm), waiting, reject)]]
    /\ UNCHANGED <<documents, saved, overlap, decided>>

\* save_state: the file is truncated, then written.
Truncate(r) ==
    /\ review[r].pc = "save"
    /\ saved' = NoRules
    /\ overlap' = (overlap \/ saved # review[r].read)
    /\ review' = [review EXCEPT ![r].pc = "fill"]
    /\ UNCHANGED <<documents, decided, reviews>>

Fill(r) ==
    /\ review[r].pc = "fill"
    /\ saved' = review[r].state
    /\ overlap' = (overlap \/ saved # NoRules)
    /\ decided' = decided \cup Texts(review[r].state)
    /\ review' = [review EXCEPT ![r].pc = "show"]
    /\ UNCHANGED <<documents, reviews>>

\* The listing printed at the end of every run that does not fail.
Show(r) ==
    /\ review[r].pc = "show"
    /\ review' = [review EXCEPT ![r] = NoReview]
    /\ UNCHANGED <<documents, saved, overlap, decided, reviews>>

Killed(r) ==
    /\ review[r] # NoReview
    /\ review' = [review EXCEPT ![r] = NoReview]
    /\ overlap' = (overlap \/ review[r].pc = "fill")
    /\ UNCHANGED <<documents, saved, decided, reviews>>

EditDocuments ==
    /\ documents' \in Documents \ {documents}
    /\ UNCHANGED <<saved, review, overlap, decided, reviews>>

RulesNext ==
    \/ \E r \in Reviewers :
         \/ \E confirm, reject \in Selections : Review(r, confirm, reject)
         \/ Truncate(r) \/ Fill(r) \/ Show(r) \/ Killed(r)
    \/ EditDocuments
RulesSpec == RulesInit /\ [][RulesNext]_rulesVars

-----------------------------------------------------------------------------
(* Properties.                                                             *)

\* Decisions are only lost to an overlapping or an interrupted save: as long as every
\* run replaced what it had read, all that was ever decided is in the file whenever
\* no run is between truncating and writing it (rules.rs:41, save_state).
DecisionsAreKept ==
    ~overlap /\ (\A r \in Reviewers : review[r].pc # "fill") => decided \subseteq Texts(saved)
=============================================================================
