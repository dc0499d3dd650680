--------------------------- MODULE RtmpPublisher ---------------------------
(***************************************************************************)
(* What the interface RtmpPublisher promises its client and the server     *)
(* about a publishing session, however many threads RtmpConnection uses    *)
(* for it: each command is sent after the answer to the one before it,     *)
(* media only after the publisher has heard that it may publish, an answer *)
(* belongs to a command of the same session, and the session ends after    *)
(* the thread that listens to the server has, without leaving anything to  *)
(* the next one.  RtmpConnection is shown to keep the promise.             *)
(***************************************************************************)

VARIABLES
  open,      \* a session exists
  sent,      \* messages of the session written so far
  told,      \* commands of the session the server has answered
  heard,     \* those whose answer has reached the publisher
  listening  \* the thread that receives the answers runs

publisherVars == <<open, sent, told, heard, listening>>

Command == {"connect", "createStream", "publish"}
Content == {"audio", "video", "closeStream"}

PublisherInit ==
  /\ ~open /\ ~listening
  /\ sent = {} /\ told = {} /\ heard = {}

OpenSession ==
  /\ ~open
  /\ open' = TRUE
  /\ UNCHANGED <<sent, told, heard, listening>>

Listen ==
  /\ open
  /\ listening' = TRUE
  /\ UNCHANGED <<open, sent, told, heard>>

\* What the publisher must have heard before it sends m.
HeardFor(m) ==
  CASE m = "createStream" -> {"connect"}
    [] m \in {"publish", "metadata"} -> {"connect", "createStream"}
    [] m \in Content -> Command
    [] OTHER -> {}

SendMessage(m) ==
  /\ open
  /\ HeardFor(m) \subseteq heard
  /\ m = "metadata" => "publish" \in told
  /\ sent' = sent \cup {m}
  /\ UNCHANGED <<open, told, heard, listening>>

ServerTells(m) ==
  /\ open
  /\ m \in sent \ told
  /\ told' = told \cup {m}
  /\ UNCHANGED <<open, sent, heard, listening>>

\* The permission to publish counts once the metadata is sent.
Hear(m) ==
  /\ listening
  /\ m \in told
  /\ m = "publish" => "metadata" \in sent
  /\ heard' = heard \cup {m}
  /\ UNCHANGED <<open, sent, told, listening>>

\* The connection is lost or shut down.
StopListening ==
  /\ listening' = FALSE
  /\ UNCHANGED <<open, sent, told, heard>>

\* What was said is forgotten first, and then the session is over.
ForgetSession ==
  /\ open /\ ~listening
  /\ sent' = {} /\ told' = {} /\ heard' = {}
  /\ UNCHANGED <<open, listening>>

CloseSession ==
  /\ open /\ ~listening
  /\ sent = {} /\ told = {} /\ heard = {}
  /\ open' = FALSE
  /\ UNCHANGED <<sent, told, heard, listening>>

PublisherNext ==
  \/ OpenSession \/ Listen \/ StopListening \/ ForgetSession \/ CloseSession
  \/ \E m \in Command \cup Content \cup {"metadata", "control"} : SendMessage(m)
  \/ \E m \in Command : ServerTells(m) \/ Hear(m)

PublisherSpec == PublisherInit /\ [][PublisherNext]_publisherVars
=============================================================================
