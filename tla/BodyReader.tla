----------------------------- MODULE BodyReader -----------------------------
(***************************************************************************)
(* How an adapter reads the body of a request that camada may answer, and  *)
(* what the app finds when the request falls through to it: read_body of   *)
(* wsgi.py and asgi.py, _body of django.py.                                *)
(*                                                                         *)
(* The bytes of the body are numbered.  A piece is what one read() or      *)
(* receive() hands over: some bytes, and whether it says the body ends.    *)
(* The client sends at its own pace and may leave; on a connection kept    *)
(* alive it stays, and a read past the body waits for it.                  *)
(* Definitions called ...Mutant are wrong on purpose: nothing uses them.   *)
(***************************************************************************)
EXTENDS Integers, Sequences

CONSTANTS
    Hosts,             \* the adapters
    Limit,             \* the byte cap of wants_body()
    Undeclared, Junk,  \* no content-length; one that is no number
    None,              \* no body for the engine
    MaxBytes           \* bound on the length of a body

ASSUME BodyAssumption ==
    /\ Hosts \subseteq {"wsgi", "asgi", "django"}
    /\ Limit \in Nat /\ MaxBytes \in Nat
    /\ Undeclared \notin Int /\ Junk \notin Int
    /\ None \notin {[i \in 1..n |-> i] : n \in 0..Limit}

VARIABLES
    rq,        \* the request: its host, its content-length, its length, may a read see the end of it
    arrived, gone,   \* how many bytes the client has sent; it has left
    at,        \* how many of them the server has handed over
    pc,
    held,      \* the pieces the adapter has put where the app will look first
    data,      \* the bytes in them, joined, as long as the adapter reads
    rest,      \* behind them the app finds the server's stream
    body,      \* what the engine is given
    seen,      \* what the app has read
    raised     \* history: a read of the adapter's raised

vars == <<rq, arrived, gone, at, pc, held, data, rest, body, seen, raised>>

Bytes(n) == [i \in 1..n |-> i]

-----------------------------------------------------------------------------
(* The client and the server.                                              *)

\* A server vouches for the length it announces; only a stream that knows its own end (chunks, an
\* ASGI message that says so) carries a body of no announced length.
IsRequest(r) ==
    /\ r.declared \in Nat => r.total = r.declared
    /\ r.host = "wsgi" /\ r.declared \notin Nat /\ ~r.terminated => r.total = 0
    /\ r.host # "wsgi" => r.terminated

Requests ==
    {r \in [host : Hosts, declared : {Undeclared, Junk} \cup (-1..MaxBytes), total : 0..MaxBytes,
            terminated : BOOLEAN] : IsRequest(r)}

Init ==
    /\ rq \in Requests
    /\ arrived = 0 /\ gone = FALSE /\ at = 0
    /\ pc = "ask" /\ held = <<>> /\ data = <<>> /\ rest = TRUE /\ body = None
    /\ seen = <<>> /\ raised = FALSE

Send ==
    /\ arrived < rq.total /\ ~gone
    /\ arrived' = arrived + 1
    /\ UNCHANGED <<rq, gone, at, pc, held, data, rest, body, seen, raised>>

Leave ==
    /\ ~gone
    /\ gone' = TRUE
    /\ UNCHANGED <<rq, arrived, at, pc, held, data, rest, body, seen, raised>>

Piece(n, last) == [data |-> [i \in 1..n |-> at + i], last |-> last]

\* What a read of up to n bytes may return now: a short read of the stream, or b"" at its end.
Reads(n) ==
    {Piece(k, FALSE) : k \in 1..(IF n < arrived - at THEN n ELSE arrived - at)}
      \cup {p \in {Piece(0, TRUE)} : at = arrived /\ (gone \/ (rq.terminated /\ at = rq.total))}

\* What receive() may return: a message of any size, with or without more_body, or http.disconnect.
Receives ==
    LET here == arrived - at
    IN {Piece(k, FALSE) : k \in 1..here}
         \cup {Piece(k, TRUE) : k \in {j \in 0..here : at + j = rq.total}}
         \cup {p \in {Piece(0, TRUE)} : gone}

Offers(n) == IF rq.host = "asgi" THEN Receives ELSE Reads(n)

-----------------------------------------------------------------------------
(* The adapter.                                                            *)

Size == Len(data)

Declared == IF rq.declared \in Int THEN rq.declared ELSE 0

OverMutant(n) == n >= Limit
Over(n) == n > Limit

WantMutant == Limit + 1

\* How much of the stream the adapter may ask for: never past CONTENT_LENGTH.  Django's own request
\* reads the body it has framed, to its end.
Want ==
    CASE rq.host = "wsgi" -> IF rq.declared # Undeclared
                               THEN IF Declared > 0 THEN Declared ELSE 0
                               ELSE IF rq.terminated THEN Limit + 1 ELSE 0
      [] OTHER -> rq.total + 1

\* The engine is given b.  Where it answers itself (204, or 413 without a body) the app never runs, see
\* RequestPath; here the request falls through.
ToApp(b) == pc' = "app" /\ body' = b

Ask ==
    /\ pc = "ask"
    /\ CASE Over(Declared) -> ToApp(None)
         [] ~Over(Declared) /\ Want = 0 -> ToApp(<<>>)
         [] OTHER -> pc' = "read" /\ body' = body
    /\ UNCHANGED <<rq, arrived, gone, at, held, data, rest, seen, raised>>

\* The reading goes on until the size asked for or the cap is reached, or a piece says it is the end.
Enough(p, n) ==
    \/ p.last
    \/ rq.host = "asgi" /\ Over(n)
    \/ rq.host # "asgi" /\ n >= Want

Read ==
    /\ pc = "read"
    /\ \E p \in Offers(Want - Size) :
         /\ held' = Append(held, p) /\ data' = data \o p.data /\ at' = at + Len(p.data)
         /\ pc' = IF Enough(p, Size + Len(p.data)) THEN "put_back" ELSE "read"
    /\ UNCHANGED <<rq, arrived, gone, rest, body, seen, raised>>

\* The slip of handing over the prefix alone when the cap was passed.
PutBackMutant ==
    /\ pc = "put_back"
    /\ rest' = (rq.host = "asgi")
    /\ ToApp(IF Over(Size) THEN None ELSE data)
    /\ UNCHANGED <<rq, arrived, gone, at, held, data, seen, raised>>

\* io.BytesIO, or _Chained when the cap was passed; _replay; request.body is kept by Django.
PutBack ==
    /\ pc = "put_back"
    /\ rest' = (rq.host = "asgi" \/ (rq.host = "wsgi" /\ Over(Size)))
    /\ ToApp(IF Over(Size) THEN None ELSE data)
    /\ UNCHANGED <<rq, arrived, gone, at, held, data, seen, raised>>

\* A read that raises leaves the stream as it is now.  The WSGI and ASGI adapters let the request
\* through past the engine; Django's _body swallows the exception, and the engine is asked with None.
Raise ==
    /\ pc = "read"
    /\ raised' = TRUE /\ held' = <<>> /\ ToApp(None)
    /\ UNCHANGED <<rq, arrived, gone, at, data, rest, seen>>

-----------------------------------------------------------------------------
(* The app, which reads its whole body the way its protocol allows.        *)

Owed == IF rq.host # "wsgi" \/ (rq.declared \notin Nat /\ rq.terminated) THEN rq.total + 1 ELSE Declared

Take(p) ==
    /\ seen' = seen \o p.data
    /\ pc' = IF p.last THEN "done" ELSE pc

AppReads ==
    /\ pc = "app" /\ Len(seen) < Owed
    /\ \/ held # <<>> /\ Take(Head(held)) /\ held' = Tail(held) /\ at' = at
       \/ /\ held = <<>> /\ rest
          /\ \E p \in Offers(Owed - Len(seen)) : Take(p) /\ at' = at + Len(p.data)
          /\ held' = held
       \/ held = <<>> /\ ~rest /\ Take(Piece(0, TRUE)) /\ UNCHANGED <<held, at>>
    /\ UNCHANGED <<rq, arrived, gone, data, rest, body, raised>>

AppHasAll ==
    /\ pc = "app" /\ Len(seen) >= Owed
    /\ pc' = "done"
    /\ UNCHANGED <<rq, arrived, gone, at, held, data, rest, body, seen, raised>>

Next == Send \/ Leave \/ Ask \/ Read \/ PutBack \/ Raise \/ AppReads \/ AppHasAll

Spec == Init /\ [][Next]_vars

\* A client that stays goes on sending; the worker of the request runs.
FairSpec ==
    /\ Spec
    /\ WF_vars(Send) /\ WF_vars(Ask \/ Read \/ PutBack) /\ WF_vars(AppReads \/ AppHasAll)

-----------------------------------------------------------------------------
(* Properties.                                                             *)

\* The app reads, in order, every byte anyone has taken from the server, whatever the adapter took
\* first, in whatever pieces; and its whole body if the client stayed.  Not so when a read raised
\* half-way: the bytes taken before it are lost to the app.
AppSeesItsBody ==
    pc = "done" /\ ~raised => /\ seen = Bytes(at)
                              /\ gone \/ at = rq.total

\* The engine is given the whole body, or what the client sent before it left, and nothing at all of
\* a body over the cap; a body that just fits is not refused.  A length that is no number hides the
\* body from it under WSGI.
EngineGetsWhole ==
    pc \in {"app", "done"} =>
        IF body = None
          THEN raised \/ rq.total > Limit
          ELSE \E n \in 0..Limit :
                 /\ body = Bytes(n)
                 /\ \/ n = rq.total \/ gone
                    \/ rq.host = "wsgi" /\ rq.declared \notin Nat \cup {Undeclared}

\* No read of the adapter's waits for a byte that the client has no reason to send: on a connection
\* that is kept open the request reaches the app, and the app reads its body to the end.  After a
\* read that raised the app may wait for the bytes that were lost with it, if the connection holds.
RequestGetsThrough == <>(pc = "done" \/ raised)
=============================================================================
