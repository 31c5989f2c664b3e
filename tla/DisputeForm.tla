----------------------------- MODULE DisputeForm -----------------------------
(***************************************************************************)
(* Filing a dispute from the explorer (DisputeAction.tsx): a form that     *)
(* uploads an evidence file to Walrus while it stays open to its user, and *)
(* the document card that checks a stored file against its hash            *)
(* (WalrusDoc.tsx, walrus/client.ts).  A file stands for its bytes, its    *)
(* sha256 and its blob id, which are functions of them.                    *)
(***************************************************************************)
EXTENDS Naturals, FiniteSets

CONSTANTS
  Files,       \* evidence the user may pick
  NoFile,      \* no evidence
  Patient,     \* TRUE: the user waits for an upload before closing the form
  BondKnown,   \* the protocol's configuration has answered with a bond
  MaxPicks,    \* bound on the uploads
  MaxRuns      \* bound on the transactions

FormAssumption ==
  /\ IsFiniteSet(Files) /\ NoFile \notin Files
  /\ Patient \in BOOLEAN /\ BondKnown \in BOOLEAN
  /\ MaxPicks \in Nat /\ MaxRuns \in Nat

VARIABLES
  open, connected,
  input,      \* the file in the picker
  ev,         \* the form's evidence: a status and a file
  uploads,    \* the answers awaited, each with its number
  picks, runs,
  status,     \* of the transaction
  intent,     \* the evidence it carries
  wanted,     \* the picker when it was confirmed
  applied,    \* the overlay says the dispute is filed
  dispute,    \* on chain: who opened it, and the evidence pinned
  doc,        \* a pinned document in its store: kept, expired or altered
  check       \* what its card says of it

form == <<open, input, ev>>
tx == <<status, intent, wanted, runs>>
card == <<doc, check>>
vars == <<form, connected, uploads, picks, tx, applied, dispute, card>>

Idle == [status |-> "idle", file |-> NoFile]
busy == status \in {"signing", "executed"}
uploading == ev.status = "uploading"
done == status = "success"

-----------------------------------------------------------------------------
Init ==
  /\ open = FALSE /\ connected \in BOOLEAN /\ input = NoFile /\ ev = Idle
  /\ uploads = {} /\ picks = 0 /\ runs = 0
  /\ status = "idle" /\ intent = NoFile /\ wanted = NoFile
  /\ applied = FALSE /\ dispute = [by |-> "none", pin |-> NoFile]
  /\ doc = "kept" /\ check = "null"

\* The button, which an applied dispute replaces by a chip.
Open ==
  /\ ~open /\ ~applied
  /\ open' = TRUE
  /\ UNCHANGED <<input, ev, connected, uploads, picks, tx, applied, dispute, card>>

\* Cancel, the backdrop, Escape and the link of the last view, all inert while
\* a transaction runs.  The upload goes on.
\* Mutant: the form is reset, the evidence is not.
close_Keeps ==
  /\ open /\ ~busy /\ (Patient => ~uploading)
  /\ open' = FALSE /\ status' = "idle" /\ input' = NoFile
  /\ UNCHANGED <<ev, connected, uploads, picks, intent, wanted, runs, applied, dispute, card>>
close ==
  /\ open /\ ~busy /\ (Patient => ~uploading)
  /\ open' = FALSE /\ status' = "idle" /\ ev' = Idle /\ input' = NoFile
  /\ UNCHANGED <<connected, uploads, picks, intent, wanted, runs, applied, dispute, card>>

\* The picker tells of a file that differs from the one it has.
onPickFile(f) ==
  /\ open /\ ~busy /\ ~uploading /\ ~done /\ picks < MaxPicks
  /\ f # input
  /\ input' = f /\ ev' = [status |-> "uploading", file |-> f]
  /\ uploads' = uploads \cup {[n |-> picks, file |-> f]} /\ picks' = picks + 1
  /\ UNCHANGED <<open, connected, tx, applied, dispute, card>>

\* The publisher answers with a blob id; or with an error, or none.
Uploaded(u) ==
  /\ uploads' = uploads \ {u} /\ ev' = [status |-> "done", file |-> u.file]
  /\ UNCHANGED <<open, input, connected, picks, tx, applied, dispute, card>>
UploadFails(u) ==
  /\ uploads' = uploads \ {u} /\ ev' = [status |-> "error", file |-> u.file]
  /\ UNCHANGED <<open, input, connected, picks, tx, applied, dispute, card>>

connect ==
  /\ ~connected /\ connected' = TRUE
  /\ UNCHANGED <<form, uploads, picks, tx, applied, dispute, card>>

\* Confirm: the intent pins the evidence the form has.
\* Mutant: the whole evidence goes into the intent.
handleRun_Whole ==
  /\ open /\ connected /\ status = "idle" /\ ~uploading /\ BondKnown /\ runs < MaxRuns
  /\ status' = "signing" /\ runs' = runs + 1 /\ wanted' = input
  /\ intent' = IF ev.status = "done" THEN ev ELSE NoFile
  /\ UNCHANGED <<form, connected, uploads, picks, applied, dispute, card>>
handleRun ==
  /\ open /\ connected /\ status = "idle" /\ ~uploading /\ BondKnown /\ runs < MaxRuns
  /\ status' = "signing" /\ runs' = runs + 1 /\ wanted' = input
  /\ intent' = IF ev.status = "done" THEN ev.file ELSE NoFile
  /\ UNCHANGED <<form, connected, uploads, picks, applied, dispute, card>>

\* The chain opens the dispute unless the pool already answers to one.
Executes ==
  /\ status = "signing" /\ dispute.by = "none"
  /\ status' = "executed" /\ dispute' = [by |-> "me", pin |-> intent]
  /\ UNCHANGED <<form, connected, uploads, picks, intent, wanted, runs, applied, card>>

\* The answer of an executed transaction; that of one rejected, in the wallet
\* or by the chain; and one of the two lost on the way, which reads as an error.
\* Mutant: the overlay is told whatever the result.
Answered_Always ==
  \/ /\ status = "executed" /\ status' = "success" /\ applied' = TRUE
     /\ UNCHANGED <<form, connected, uploads, picks, intent, wanted, runs, dispute, card>>
  \/ /\ busy /\ status' = "error" /\ applied' = TRUE
     /\ UNCHANGED <<form, connected, uploads, picks, intent, wanted, runs, dispute, card>>
Answered ==
  \/ /\ status = "executed" /\ status' = "success" /\ applied' = TRUE
     /\ UNCHANGED <<form, connected, uploads, picks, intent, wanted, runs, dispute, card>>
  \/ /\ busy /\ status' = "error"
     /\ UNCHANGED <<form, connected, uploads, picks, intent, wanted, runs, applied, dispute, card>>

TryAgain ==
  /\ status = "error" /\ open /\ connected /\ status' = "idle"
  /\ UNCHANGED <<form, connected, uploads, picks, intent, wanted, runs, applied, dispute, card>>

\* Another challenger is first.
Theirs ==
  /\ dispute.by = "none" /\ dispute' = [by |-> "other", pin |-> NoFile]
  /\ UNCHANGED <<form, connected, uploads, picks, tx, applied, card>>

-----------------------------------------------------------------------------
(* The card of a pinned document. *)
runVerify ==
  /\ check # "checking" /\ check' = "checking"
  /\ UNCHANGED <<form, connected, uploads, picks, tx, applied, dispute, doc>>

\* What a fetch of the blob comes to: an aggregator that cannot be reached, or
\* answers without the blob, says nothing of the bytes.
\* Mutant: the body of an error page is hashed.
fetchAndVerify_ErrorPage ==
  IF doc = "kept" THEN {"verified", "unavailable"} ELSE {"mismatch"}
fetchAndVerify ==
  IF doc = "kept" THEN {"verified", "unavailable"}
  ELSE IF doc = "altered" THEN {"mismatch", "unavailable"}
  ELSE {"unavailable"}

Verified ==
  /\ check = "checking" /\ check' \in fetchAndVerify
  /\ UNCHANGED <<form, connected, uploads, picks, tx, applied, dispute, doc>>

Stored ==
  /\ \/ doc = "kept" /\ doc' \in {"expired", "altered"}
     \/ doc = "altered" /\ doc' = "expired"
  /\ UNCHANGED <<form, connected, uploads, picks, tx, applied, dispute, check>>

Next ==
  \/ Open \/ close \/ connect \/ handleRun \/ Executes \/ Answered \/ TryAgain \/ Theirs
  \/ \E f \in Files : onPickFile(f)
  \/ \E u \in uploads : Uploaded(u) \/ UploadFails(u)
  \/ runVerify \/ Verified \/ Stored

Spec == Init /\ [][Next]_vars

-----------------------------------------------------------------------------
TypeOK ==
  /\ open \in BOOLEAN /\ connected \in BOOLEAN /\ applied \in BOOLEAN
  /\ input \in Files \cup {NoFile}
  /\ ev \in [status : {"idle", "uploading", "done", "error"}, file : Files \cup {NoFile}]
  /\ uploads \subseteq [n : 0..MaxPicks, file : Files] /\ picks \in 0..MaxPicks
  /\ status \in {"idle", "signing", "executed", "success", "error"}
  /\ runs \in 0..MaxRuns /\ {intent, wanted} \subseteq Files \cup {NoFile}
  /\ dispute \in [by : {"none", "me", "other"}, pin : Files \cup {NoFile}]
  /\ doc \in {"kept", "expired", "altered"}
  /\ check \in {"null", "checking", "verified", "mismatch", "unavailable"}

\* The evidence a filed dispute pins is the file that was in the picker when it
\* was confirmed, or none (onPickFile, close, handleRun: a late upload, a form
\* closed and opened again).
FiledAsShownStep == dispute'.by = "me" /\ dispute.by # "me" => dispute'.pin \in {wanted, NoFile}
FiledAsShown == [][FiledAsShownStep]_vars

\* The chip that says the dispute is filed is shown for a dispute of this user.
ChipIsTrue == applied => dispute.by = "me"

\* A card says tampered only of bytes that were altered (fetchAndVerify: a blob
\* that cannot be read is unavailable, and so are all the mock ones).
NoFalseAlarmStep == (check = "checking" /\ check' = "mismatch") => doc = "altered"
NoFalseAlarm == [][NoFalseAlarmStep]_vars
=============================================================================
