------------------------------ MODULE MCResponses ------------------------------
(* The three ways in which the content of files is answered with: a byte   *)
(* range, a zip archive, the PNG of a PSD file.  They share no state that  *)
(* the model keeps, so that a behaviour is about the one that focus names, *)
(* and the others stay as they begin, where none of their fair steps is    *)
(* possible.                                                               *)
EXTENDS StreamReader, ZipDownload, PsdPreview

CONSTANTS c1, c2     \* requests

VARIABLE focus

(* Three parts, the last one shorter: sealed it has a short last block too. *)
ThreeParts == <<6, 6, 3>>
(* Nonces whose low digits overflow at the second or third block.           *)
WrappingNonces == {<<1, 1, 0>>, <<0, 1, 1>>}

(* "a" and "a (1)", which is empty.                                        *)
ZipSamples == {[name |-> [base |-> "a", nums |-> <<>>], empty |-> FALSE],
               [name |-> [base |-> "a", nums |-> <<1>>], empty |-> TRUE]}

(* A range reader that is not looked at: one of its initial states.        *)
NoRange == enc = FALSE /\ nonce0 = CHOOSE n \in Nonces : TRUE

MCInit ==
    /\ Init /\ ZipInit /\ PsdInit
    /\ focus \in {"range", "zip", "psd"}
    /\ focus # "range" => NoRange

MCNext ==
    \/ focus = "range" /\ Next /\ UNCHANGED <<zipVars, psdVars, focus>>
    \/ focus = "zip" /\ ZipNext /\ UNCHANGED <<vars, psdVars, focus>>
    \/ focus = "psd" /\ PsdNext /\ UNCHANGED <<vars, zipVars, focus>>

MCSpec ==
    /\ MCInit /\ [][MCNext]_<<vars, zipVars, psdVars, focus>>
    /\ Fairness /\ ZipFairness /\ PsdFairness
=============================================================================
