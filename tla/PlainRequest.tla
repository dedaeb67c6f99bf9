----------------------------- MODULE PlainRequest -----------------------------
(***************************************************************************)
(* A request that is not CONNECT: a goroutine copies the client's body into   *)
(* a pipe, the HTTP transport dials, sends what it reads from the pipe and    *)
(* hears the answer, and the handler copies the answer's body to the client.  *)
(* Bodies are counted in chunks.  The server, the transport, the client and   *)
(* the target are the library's and the world's; a body's length is announced *)
(* or not.                                                                    *)
(***************************************************************************)
EXTENDS Naturals

CONSTANTS UpChunks, DownChunks   \* chunks of the two bodies

\* Bodies of any length.
ASSUME ChunksAssumption == UpChunks \in Nat /\ DownChunks \in Nat

VARIABLES
  h2,         \* the client speaks HTTP/2
  upSized, downSized,  \* a length is announced for the body
  unzips,     \* the transport decompresses the answer
  told,       \* the program was told to stop
  offered,    \* chunks the client has sent
  client,     \* "sending", "sent" or "left"
  flow,       \* the copying goroutine: "start", "copy", "over" or "refused"
  taken,      \* chunks it has read
  inHand,     \* it waits for the pipe's reader with one of them
  pipe,       \* "open", "eof" (writer closed) or "shut" (reader closed)
  trip,       \* RoundTrip: "dial", "sending", "answered" or "failed"
  arrived,    \* chunks at the target
  upEnd,      \* what the target saw of the body's end: "open", "whole", "cut"
  answer,     \* the target's answer: "open", "all" or "broken"
  answered,   \* chunks of it
  plain,      \* the handler: "trip", "relay" or "over"
  relayed,    \* chunks at the client
  seen,       \* what the client makes of the answer: "open", "whole", "cut"
  ended       \* the request's context has ended
inputs == <<h2, upSized>>
upload == <<flow, taken, inHand, pipe>>
sideUp == <<offered, client>>
target == <<trip, arrived, upEnd, answer, answered, downSized, unzips>>
relay  == <<plain, relayed, seen, ended, told>>
plainVars == <<h2, upSized, downSized, unzips, told, offered, client, flow, taken,
               inHand, pipe, trip, arrived, upEnd, answer, answered, plain, relayed,
               seen, ended>>

PlainInit ==
  /\ h2 \in BOOLEAN /\ upSized \in BOOLEAN
  /\ downSized = FALSE /\ unzips = FALSE /\ told = FALSE
  /\ offered = 0 /\ client = "sending"
  /\ flow = "start" /\ taken = 0 /\ inHand = FALSE /\ pipe = "open"
  /\ trip = "dial" /\ arrived = 0 /\ upEnd = "open"
  /\ answer = "open" /\ answered = 0
  /\ plain = "trip" /\ relayed = 0 /\ seen = "open" /\ ended = FALSE

----------------------------------------------------------------------------
\* The client sends, is through, or leaves at any time.
Offer ==
  /\ client = "sending"
  /\ IF offered < UpChunks THEN offered' = offered + 1 /\ UNCHANGED client
     ELSE client' = "sent" /\ UNCHANGED offered
  /\ UNCHANGED <<inputs, upload, target, relay>>

Leave ==
  /\ client # "left" /\ client' = "left"
  /\ UNCHANGED <<inputs, offered, upload, target, relay>>

\* An HTTP/1 server sees that the client has left only when the body was read to
\* its end, an HTTP/2 server at once.
EndContext ==
  /\ client = "left" /\ ~ended /\ ended' = TRUE
  /\ h2 \/ (flow = "over" /\ taken = UpChunks)
  /\ UNCHANGED <<inputs, sideUp, upload, target, plain, relayed, seen, told>>

\* Every request's context is a child of stopContext: the signal ends it at once.
StopRequest ==
  /\ ~ended /\ told' = TRUE /\ ended' = TRUE
  /\ UNCHANGED <<inputs, sideUp, upload, target, plain, relayed, seen>>

----------------------------------------------------------------------------
\* The copying goroutine.  A limiter that gives no parameters ends it before it
\* has closed anything.
StartFlow ==
  /\ flow = "start" /\ flow' \in {"copy", "refused"}
  /\ UNCHANGED <<inputs, sideUp, taken, inHand, pipe, target, relay>>

TakeChunk ==
  /\ flow = "copy" /\ ~inHand /\ taken < offered
  /\ taken' = taken + 1 /\ inHand' = TRUE
  /\ UNCHANGED <<inputs, sideUp, flow, pipe, target, relay>>

\* The end of the client's body; after the head of the answer an HTTP/1 server
\* may refuse to read on.
BodyOver ==
  \/ taken = offered /\ client \in {"sent", "left"}
  \/ ended
  \/ ~h2 /\ plain # "trip"

\* A slip: the pipe is not closed when reading the body failed.
EndFlowOpen ==
  /\ flow = "copy"
  /\ (~inHand /\ BodyOver) \/ (inHand /\ pipe # "open")
  /\ flow' = "over" /\ inHand' = FALSE
  /\ pipe' = IF pipe = "open" /\ client # "left" THEN "eof" ELSE pipe
  /\ UNCHANGED <<inputs, sideUp, taken, target, relay>>

\* io.Copy is over, by the end of the body or an error of either side:
\* CloseWrite ends the pipe in the same way.
EndFlow ==
  /\ flow = "copy"
  /\ (~inHand /\ BodyOver) \/ (inHand /\ pipe # "open")
  /\ flow' = "over" /\ inHand' = FALSE
  /\ pipe' = IF pipe = "open" THEN "eof" ELSE pipe
  /\ UNCHANGED <<inputs, sideUp, taken, target, relay>>

\* PairConnections at the end of the context: both sides are closed, the pipe as
\* if the body were over.
CloseFlow ==
  /\ flow = "copy" /\ ended /\ pipe = "open" /\ pipe' = "eof"
  /\ UNCHANGED <<inputs, sideUp, flow, taken, inHand, target, relay>>

----------------------------------------------------------------------------
\* RoundTrip.  Whatever ends it closes the request's body, the pipe's reader.
DialTarget ==
  /\ trip = "dial"
  /\ \/ trip' = "sending" /\ UNCHANGED <<pipe, upEnd>>
     \/ trip' = "failed" /\ pipe' = "shut" /\ upEnd' = "cut"
  /\ UNCHANGED <<inputs, sideUp, flow, taken, inHand, arrived, answer, answered,
                 downSized, unzips, relay>>

SendChunk ==
  /\ trip \in {"sending", "answered"} /\ upEnd = "open" /\ pipe = "open" /\ inHand
  /\ arrived' = arrived + 1 /\ inHand' = FALSE
  /\ UNCHANGED <<inputs, sideUp, flow, taken, pipe, trip, upEnd, answer, answered,
                 downSized, unzips, relay>>

\* The pipe is at its end: fewer bytes than were announced are an error, without
\* a length the body counts as whole.
SendEnd ==
  /\ trip \in {"sending", "answered"} /\ upEnd = "open" /\ pipe = "eof"
  /\ IF upSized /\ arrived < UpChunks
     THEN /\ upEnd' = "cut" /\ pipe' = "shut"
          /\ trip' = IF trip = "sending" THEN "failed" ELSE trip
     ELSE upEnd' = "whole" /\ UNCHANGED <<pipe, trip>>
  /\ UNCHANGED <<inputs, sideUp, flow, taken, inHand, arrived, answer, answered,
                 downSized, unzips, relay>>

GiveUpTrip ==
  /\ ended /\ trip \in {"dial", "sending"}
  /\ trip' = "failed" /\ pipe' = "shut"
  /\ upEnd' = IF upEnd = "open" THEN "cut" ELSE upEnd
  /\ UNCHANGED <<inputs, sideUp, flow, taken, inHand, arrived, answer, answered,
                 downSized, unzips, relay>>

\* The target answers, after the body or before its end, with or without a length.
\* The transport decompresses an answer if it asked for gzip itself, because the
\* client named no encoding, and got it.
AnswerHead ==
  /\ trip = "sending" /\ answer = "open"
  /\ trip' = "answered" /\ downSized' \in BOOLEAN /\ unzips' \in BOOLEAN
  /\ UNCHANGED <<inputs, sideUp, upload, arrived, upEnd, answer, answered, relay>>

AnswerBody ==
  /\ trip = "answered" /\ answer = "open"
  /\ IF answered < DownChunks THEN answered' = answered + 1 /\ UNCHANGED answer
     ELSE answer' = "all" /\ UNCHANGED answered
  /\ UNCHANGED <<inputs, sideUp, upload, trip, arrived, upEnd, downSized, unzips,
                 relay>>

BreakTarget ==
  /\ trip \in {"sending", "answered"} /\ answer = "open" /\ answer' = "broken"
  /\ trip' = IF trip = "sending" THEN "failed" ELSE trip
  /\ pipe' = "shut" /\ upEnd' = IF upEnd = "open" THEN "cut" ELSE upEnd
  /\ UNCHANGED <<inputs, sideUp, flow, taken, inHand, arrived, answered, downSized,
                 unzips, relay>>

----------------------------------------------------------------------------
\* A slip: the length is not among the headers that are passed on.
PassNoLength(sized, decompressed) == FALSE
\* copyHeader: the client hears the length that was announced, but not that of a body
\* the transport has decompressed, which takes the header out.
PassLength(sized, decompressed) == sized /\ ~decompressed

\* RoundTrip failed: an error page, which is whole.
FailRequest ==
  /\ plain = "trip" /\ trip = "failed"
  /\ plain' = "over" /\ ended' = TRUE
  /\ UNCHANGED <<inputs, sideUp, upload, target, relayed, seen, told>>

RelayHead ==
  /\ plain = "trip" /\ trip = "answered" /\ plain' = "relay"
  /\ UNCHANGED <<inputs, sideUp, upload, target, relayed, seen, ended, told>>

RelayChunk ==
  /\ plain = "relay" /\ relayed < answered /\ relayed' = relayed + 1
  /\ UNCHANGED <<inputs, sideUp, upload, target, plain, seen, ended, told>>

\* The second forward returns and with it the handler, which does not look at its
\* error: the server ends an answer without a length as if it were whole.
RelayOver ==
  /\ plain = "relay"
  /\ \/ relayed = answered /\ answer \in {"all", "broken"}
     \/ ended \/ client = "left"
  /\ plain' = "over" /\ ended' = TRUE
  /\ seen' = IF client = "left" THEN "open"
             ELSE IF PassLength(downSized, unzips) /\ relayed < DownChunks THEN "cut"
             ELSE "whole"
  /\ pipe' = "shut" /\ upEnd' = IF upEnd = "open" THEN "cut" ELSE upEnd
  /\ UNCHANGED <<inputs, sideUp, flow, taken, inHand, trip, arrived, answer,
                 answered, downSized, unzips, relayed, told>>

PlainNext ==
  \/ Offer \/ Leave \/ EndContext \/ StopRequest \/ StartFlow \/ TakeChunk \/ EndFlow \/ CloseFlow
  \/ DialTarget \/ SendChunk \/ SendEnd \/ GiveUpTrip \/ AnswerHead \/ AnswerBody
  \/ BreakTarget \/ FailRequest \/ RelayHead \/ RelayChunk \/ RelayOver
PlainSpec == PlainInit /\ [][PlainNext]_plainVars

\* A target that has heard the whole body answers.
AnswerWhole == upEnd = "whole" /\ AnswerHead

----------------------------------------------------------------------------
\* With an announced length nobody takes a part for the whole, whichever side
\* breaks, at whatever point, in whatever order the two copies end, and whenever the
\* program is told to stop (forward/direct.go, handler.go:178-195).  An answer
\* that comes without a length, or loses it because the transport decompresses it
\* (handler.go:50-53 leaves that on), is whole if the proxy has seen its end and was not
\* told to stop; otherwise the handler drops the error of the copy (handler.go:195) and
\* the server ends the answer as if it were whole.
NoPartForWhole ==
  /\ upEnd = "whole" /\ upSized => arrived = UpChunks
  /\ seen = "whole" /\ ((downSized /\ ~unzips) \/ (answer = "all" /\ ~told))
       => relayed = DownChunks

\* A client that sends its body or leaves has its request ended, whether the
\* target answers early, late or only when it has the body, once the body's copy
\* has begun.  (A limiter that refuses it leaves a pipe that nobody ends.)
RequestOver == flow = "copy" ~> plain = "over"
=============================================================================
