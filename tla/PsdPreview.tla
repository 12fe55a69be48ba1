------------------------------ MODULE PsdPreview ------------------------------
(***************************************************************************)
(* The PNG of a PSD file (servePSDAsPNG): a callback of the Telegram       *)
(* client opens a reader and leaves the conversion to a goroutine, while   *)
(* the handler waits on a channel for its result.                          *)
(***************************************************************************)
EXTENDS Naturals

CONSTANTS
    Previews,   \* requests
    PsdPieces   \* reads that bring the whole file, at least one

ASSUME PsdAssumption == PsdPieces \in Nat \ {0}

VARIABLES
    psd,    \* the requests
    psdUp   \* FALSE once a panic in a goroutine has ended the server

psdVars == <<psd, psdUp>>

(* pc is the handler's place, reader what became of lr, left the pieces    *)
(* still to be read, conv the goroutine, and ch the channel.               *)
NoPreview == [pc |-> "idle", reader |-> "none", left |-> PsdPieces,
              conv |-> "none", ch |-> "empty", reply |-> "none"]

PsdInit == psd = [v \in Previews |-> NoPreview] /\ psdUp = TRUE

PsdAsk(v) ==
    /\ psd[v].pc = "idle"
    /\ psd' = [psd EXCEPT ![v].pc = "auth"]
    /\ UNCHANGED psdUp

(* No client: the size, the bots, the selector or the session.             *)
PsdRefuse(v) ==
    /\ psd[v].pc = "auth"
    /\ psd' = [psd EXCEPT ![v].pc = "done", ![v].reply = "error"]
    /\ UNCHANGED psdUp

(* RunWithAuth: the callback runs, or the client does not authorise and    *)
(* the error is dropped.                                                   *)
PsdAuthorise(v, ok) ==
    /\ psd[v].pc = "auth"
    /\ psd' = [psd EXCEPT ![v].pc = IF ok THEN "callback" ELSE "unauthorised"]
    /\ UNCHANGED psdUp

(* Mutant: a callback that finds no parts returns without a result.        *)
PsdOpen_Silent(v, ok) ==
    /\ psd[v].pc = "callback"
    /\ psd' = IF ok
              THEN [psd EXCEPT ![v].pc = "return", ![v].reader = "open", ![v].conv = "reads"]
              ELSE [psd EXCEPT ![v].pc = "wait"]
    /\ UNCHANGED psdUp

(* The parts and the reader, then the goroutine.                           *)
PsdOpen(v, ok) ==
    /\ psd[v].pc = "callback"
    /\ psd' = IF ok
              THEN [psd EXCEPT ![v].pc = "return", ![v].reader = "open", ![v].conv = "reads"]
              ELSE [psd EXCEPT ![v].pc = "wait", ![v].ch = "error"]
    /\ UNCHANGED psdUp

(* The callback returns: the deferred Close drops the reader's source, and *)
(* the context of the callback is cancelled.                               *)
PsdReturn(v) ==
    /\ psd[v].pc = "return"
    /\ psd' = [psd EXCEPT ![v].pc = "wait", ![v].reader = "closed"]
    /\ UNCHANGED psdUp

(* Reader.Read for ToPNG: a piece or an error, and after Close a call of a *)
(* nil reader.                                                             *)
ConvRead(v, ok) ==
    /\ psd[v].conv = "reads" /\ psd[v].left > 0
    /\ IF psd[v].reader = "closed"
       THEN psdUp' = FALSE /\ UNCHANGED psd
       ELSE /\ psd' = IF ok THEN [psd EXCEPT ![v].left = @ - 1]
                      ELSE [psd EXCEPT ![v].conv = "over", ![v].ch = "error"]
            /\ UNCHANGED psdUp

(* ToPNG after the last piece: it gives up when its context is cancelled   *)
(* before the decoding, or the file is no picture.                         *)
ConvDecode(v, ok) ==
    /\ psd[v].conv = "reads" /\ psd[v].left = 0
    /\ psd' = [psd EXCEPT ![v].conv = "over", ![v].ch = IF ok THEN "png" ELSE "error"]
    /\ UNCHANGED psdUp

PsdReply(v) ==
    /\ psd[v].pc = "wait" /\ psd[v].ch # "empty"
    /\ psd' = [psd EXCEPT ![v].pc = "done", ![v].reply = psd[v].ch]
    /\ UNCHANGED psdUp

PsdHandler(v) ==
    /\ psdUp
    /\ \/ PsdRefuse(v) \/ PsdReturn(v) \/ PsdReply(v)
       \/ \E ok \in BOOLEAN : PsdAuthorise(v, ok) \/ PsdOpen(v, ok)

PsdConverter(v) == psdUp /\ \E ok \in BOOLEAN : ConvRead(v, ok) \/ ConvDecode(v, ok)

PsdNext == \E v \in Previews : PsdHandler(v) \/ PsdConverter(v) \/ (psdUp /\ PsdAsk(v))

(* Goroutines that can go on do, and the calls to Telegram return.         *)
PsdFairness == \A v \in Previews : WF_psdVars(PsdHandler(v)) /\ WF_psdVars(PsdConverter(v))

PsdSpec == PsdInit /\ [][PsdNext]_psdVars /\ PsdFairness

-----------------------------------------------------------------------------
(* Every request for a PNG is answered, but for a client that does not     *)
(* authorise, whose handler waits for a result that nobody sends, and for  *)
(* the end of the server in a converter (servePSDAsPNG).                   *)
PsdAnswered ==
    \A v \in Previews :
       psd[v].pc = "auth" ~> (psd[v].pc \in {"done", "unauthorised"} \/ ~psdUp)
=============================================================================
