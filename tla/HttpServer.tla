----------------------------- MODULE HttpServer -----------------------------
(***************************************************************************)
(* server and connection: the handlers that Boost.Asio runs on the threads *)
(* of the pool.  A connection has one operation pending at a time, and its *)
(* handlers are steps of one thread: handle_read takes the bytes of the    *)
(* buffer one by one through the parser while other connections are        *)
(* served.  What BaseSystem does with a request is module BaseSystem; here *)
(* it is the outcome of handle_request.                                    *)
(***************************************************************************)
EXTENDS RequestParser, RequestHandler

CONSTANTS
    Connections,  \* the connections of clients
    Texts,        \* what a client may send before it waits for the answer
    BufferSize,   \* of connection::buffer_, 8192
    PoolSize      \* [Web] Threads

ASSUME HttpServerAssumption ==
    /\ Texts \subseteq Seq(Chars)
    /\ BufferSize \in Nat \ {0}
    /\ PoolSize \in Nat \ {0}

NoReply == [status |-> "none", action |-> "", params |-> << >>]

VARIABLES
    running,   \* io_service_ was not stopped
    accepting, \* an async_accept is pending
    phase,     \* where each connection is
    text,      \* what its client sends
    read,      \* how many bytes were read, ...
    parsed,    \* ... and how many went through the parser
    parser,    \* request_parser_ and what it has filled of request_
    reply_,    \* the reply, when it is known
    failed,    \* history: reading or writing ended in an error
    deaf       \* history: an accept ended in an error

connection == <<phase, text, read, parsed, parser, reply_, failed>>
vars == <<running, accepting, deaf, connection>>

Phases == {"away", "waiting", "reading", "parsing", "handling", "writing", "closed"}

Init ==
    /\ running = TRUE
    /\ accepting = TRUE
    /\ phase = [c \in Connections |-> "away"]
    /\ text = [c \in Connections |-> << >>]
    /\ read = [c \in Connections |-> 0]
    /\ parsed = [c \in Connections |-> 0]
    /\ parser = [c \in Connections |-> NewParser]
    /\ reply_ = [c \in Connections |-> NoReply]
    /\ failed = [c \in Connections |-> FALSE]
    /\ deaf = FALSE

\* A thread of the pool that runs no handler, while the io_service runs.
InHandler  == {c \in Connections : phase[c] \in {"parsing", "handling"}}
FreeThread == running /\ Cardinality(InHandler) < PoolSize

Goto(c, p) == phase' = [phase EXCEPT ![c] = p]

\* The backlog of the acceptor: the client is connected, the server may not know.
Connect(c) ==
    /\ phase[c] = "away"
    /\ \E t \in Texts : text' = [text EXCEPT ![c] = t]
    /\ Goto(c, "waiting")
    /\ UNCHANGED <<running, accepting, deaf, read, parsed, parser, reply_, failed>>

\* (mutant) the next connection is not waited for
HandleAcceptOnce(c) ==
    /\ FreeThread /\ accepting
    /\ phase[c] = "waiting"
    /\ Goto(c, "reading")
    /\ accepting' = FALSE
    /\ UNCHANGED <<running, deaf, text, read, parsed, parser, reply_, failed>>

\* handle_accept starts the connection and waits for the next one.
HandleAccept(c) ==
    /\ FreeThread /\ accepting
    /\ phase[c] = "waiting"
    /\ Goto(c, "reading")
    /\ UNCHANGED <<running, accepting, deaf, text, read, parsed, parser, reply_, failed>>

\* With an error it does neither.
HandleAcceptError ==
    /\ FreeThread /\ accepting
    /\ accepting' = FALSE
    /\ deaf' = TRUE
    /\ UNCHANGED <<running, connection>>

\* handle_read begins: some of the bytes that are there are in the buffer.
HandleRead(c) ==
    /\ FreeThread
    /\ phase[c] = "reading"
    /\ \E n \in read[c] + 1 .. Len(text[c]) :
          /\ n <= read[c] + BufferSize
          /\ read' = [read EXCEPT ![c] = n]
    /\ Goto(c, "parsing")
    /\ UNCHANGED <<running, accepting, deaf, text, parsed, parser, reply_, failed>>

\* handle_read and handle_write with an error, the end of the stream included:
\* nothing more is started and the connection object goes away.
HandleError(c) ==
    /\ FreeThread
    /\ phase[c] \in {"reading", "writing"}
    /\ Goto(c, "closed")
    /\ failed' = [failed EXCEPT ![c] = TRUE]
    /\ UNCHANGED <<running, accepting, deaf, text, read, parsed, parser, reply_>>

\* (mutant) the server does not read on
AfterConsumeOnce(c, state) ==
    \/ state = "complete" /\ Goto(c, "handling")
    \/ state = "bad" /\ Goto(c, "writing")
    \/ /\ state \notin {"complete", "bad"}
       /\ IF read[c] > parsed[c] + 1 THEN UNCHANGED phase ELSE Goto(c, "closed")

\* What handle_read does when the parser says true, false or neither; then it
\* reads on if the buffer is empty.
AfterConsume(c, state) ==
    \/ state = "complete" /\ Goto(c, "handling")
    \/ state = "bad" /\ Goto(c, "writing")
    \/ /\ state \notin {"complete", "bad"}
       /\ IF read[c] > parsed[c] + 1 THEN UNCHANGED phase ELSE Goto(c, "reading")

\* One round of the loop of request_parser::parse, from the parser p.
ParseByte(c, p) ==
    LET x == text[c][parsed[c] + 1]
    IN  /\ parsed' = [parsed EXCEPT ![c] = @ + 1]
        /\ \/ \E next \in Moves(p, x) :
                 /\ parser' = [parser EXCEPT ![c] = After(p, x, next)]
                 /\ AfterConsume(c, next)
                 /\ UNCHANGED reply_
           \/ /\ Moves(p, x) = {}
              /\ parser' = [parser EXCEPT ![c] = After(p, x, "bad")]
              /\ AfterConsume(c, "bad")
              /\ reply_' = [reply_ EXCEPT ![c] = BadRequest]
        /\ UNCHANGED <<running, accepting, deaf, text, read, failed>>

\* (mutant) the parser is reset at the end of every buffer
ConsumeAndReset(c) ==
    /\ phase[c] = "parsing"
    /\ ParseByte(c, IF read[c] > parsed[c] + 1 THEN parser[c]
                    ELSE [parser[c] EXCEPT !.state = "method_start"])

\* (mutant) the loop takes a byte that was not read
ConsumeBeyond(c) ==
    /\ phase[c] \in {"parsing", "reading"}
    /\ parsed[c] < Len(text[c])
    /\ ParseByte(c, parser[c])

Consume(c) ==
    /\ phase[c] = "parsing"
    /\ ParseByte(c, parser[c])

HandleRequest(c) ==
    /\ phase[c] = "handling"
    /\ reply_' = [reply_ EXCEPT ![c] = handle_request(parser[c].uri)]
    /\ Goto(c, "writing")
    /\ UNCHANGED <<running, accepting, deaf, text, read, parsed, parser, failed>>

\* handle_write: the reply is out, the connection is shut down.
HandleWrite(c) ==
    /\ FreeThread
    /\ phase[c] = "writing"
    /\ Goto(c, "closed")
    /\ UNCHANGED <<running, accepting, deaf, text, read, parsed, parser, reply_, failed>>

\* server::stop: handlers that run end, no other is started.
Stop ==
    /\ running
    /\ running' = FALSE
    /\ UNCHANGED <<accepting, deaf, connection>>

Handlers(c) ==
    \/ HandleAccept(c)
    \/ HandleRead(c)
    \/ Consume(c)
    \/ HandleRequest(c)
    \/ HandleWrite(c)

Next ==
    \/ \E c \in Connections : Connect(c) \/ Handlers(c) \/ HandleError(c)
    \/ HandleAcceptError
    \/ Stop

Spec == Init /\ [][Next]_vars

\* io_service::run hands the handlers that are ready to the threads in turn.
FairSpec == Spec /\ \A c \in Connections : WF_vars(Handlers(c))

-----------------------------------------------------------------------------
(* Properties *)

\* The values each variable ranges over; the parser stays within the buffer.
TypeOK ==
    /\ running \in BOOLEAN
    /\ accepting \in BOOLEAN
    /\ phase \in [Connections -> Phases]
    /\ text \in [Connections -> Seq(Chars)]
    /\ read \in [Connections -> Nat]
    /\ parsed \in [Connections -> Nat]
    /\ parser \in [Connections -> Parsers]
    /\ failed \in [Connections -> BOOLEAN]
    /\ deaf \in BOOLEAN
    /\ \A c \in Connections :
          /\ read[c] <= Len(text[c])
          /\ parsed[c] <= read[c]
          /\ phase[c] = "parsing" => parsed[c] < read[c]

\* consume adds characters to req.headers.back() only when there is a header,
\* whatever a client sends: back() of an empty vector is undefined.
LastHeaderExists ==
    \A c \in Connections : parser[c].state \in UsesLastHeader => parser[c].headers > 0

\* What went through the parser of c.
Seen(c) == SubSeq(text[c], 1, parsed[c])

\* The answer depends on what was sent and not on how it was cut into reads:
\* a request of the grammar is handled at its last byte and with its uri; a
\* text is refused exactly when no more bytes could make it one; and the
\* server waits for more only when more could help.
AnswersFollowGrammar ==
    \A c \in Connections :
        /\ phase[c] = "handling" => IsRequest(Seen(c)) /\ parser[c].uri = UriOf(Seen(c))
        /\ phase[c] = "writing" =>
              \/ IsRequest(Seen(c)) /\ reply_[c] = handle_request(UriOf(Seen(c)))
              \/ reply_[c] = BadRequest /\ ~IsRequest(Seen(c)) /\ ~IsViable(Seen(c))
        /\ phase[c] \in {"reading", "parsing"} => ~IsRequest(Seen(c))
        /\ phase[c] = "reading" => IsViable(Seen(c))

\* A client whose bytes are there is answered, whoever else is connected,
\* unless its connection fails, the server is stopped, or all it sent was read
\* and is, by AnswersFollowGrammar, not a request yet.
EveryoneIsAnswered ==
    \A c \in Connections :
        phase[c] = "reading" /\ read[c] < Len(text[c]) ~>
            \/ phase[c] = "closed" /\ reply_[c] # NoReply
            \/ phase[c] = "reading" /\ read[c] = Len(text[c])
            \/ failed[c]
            \/ ~running

\* The server goes on accepting: a client that connects is served while no
\* accept has failed.
EveryoneIsAccepted ==
    \A c \in Connections :
        phase[c] = "waiting" ~> phase[c] # "waiting" \/ deaf \/ ~running
=============================================================================
