-------------------------- MODULE BodyReader_proofs --------------------------
(***************************************************************************)
(* Proofs about BodyReader, for any cap, any length of body and any set of *)
(* the adapters: the inductive invariant IInv, and from it that the app    *)
(* finds its body untouched and that the engine is given all of it.        *)
(***************************************************************************)
EXTENDS BodyReader, SequenceTheorems, TLAPS

Pieces == [data : Seq(Nat), last : BOOLEAN]
Steps == {"ask", "read", "put_back", "app", "done"}
Reading == {"ask", "read", "put_back"}

\* The server has no more to hand over, now or ever.
Ended == gone \/ at = rq.total

BodyTypes ==
    /\ rq \in Requests
    /\ at \in Nat /\ arrived \in Nat /\ at <= arrived /\ arrived <= rq.total
    /\ gone \in BOOLEAN /\ rest \in BOOLEAN /\ raised \in BOOLEAN
    /\ pc \in Steps /\ held \in Seq(Pieces) /\ data \in Seq(Nat) /\ seen \in Seq(Nat)

\* While the adapter reads, it has every byte that was handed over, and the app none.
ReadingInv ==
    /\ pc \in Reading => data = Bytes(at) /\ seen = <<>> /\ rest /\ ~raised
    /\ pc = "read" => Want > 0

\* The pieces held follow one another from where the app is to where the server is: the k-th of them
\* has the bytes after cut[k], up to cut[k + 1].
Follows(cut) ==
    /\ cut[1] = Len(seen) /\ cut[Len(held) + 1] = at
    /\ \A j, k \in 1..(Len(held) + 1) : j <= k => cut[j] <= cut[k]
    /\ \A k \in 1..Len(held) : held[k].data = [i \in 1..(cut[k + 1] - cut[k]) |-> cut[k] + i]

HeldInv == ~raised => /\ \E cut \in [1..(Len(held) + 1) -> Nat] : Follows(cut)
                      /\ seen = Bytes(Len(seen))

\* Only the last of the pieces held may say it is the last, and then it is.
LastInv ==
    ~raised => /\ pc = "ask" => held = <<>>
               /\ \A k \in 1..Len(held) : held[k].last => k = Len(held) /\ pc # "read" /\ Ended

\* The adapter stops reading, and hides the stream from the app, only where nothing is left in it
\* or where it has one byte too many.
EndInv ==
    /\ pc = "put_back" => Ended \/ (rq.host # "django" /\ Over(at))
    /\ pc \in {"app", "done"} /\ ~rest => Ended

IInv == BodyTypes /\ ReadingInv /\ HeldInv /\ LastInv /\ EndInv /\ AppSeesItsBody /\ EngineGetsWhole

-----------------------------------------------------------------------------
(* Requests, bytes and pieces. *)

\* What is known of a request.
LEMMA RequestIs ==
    ASSUME BodyTypes
    PROVE  /\ rq.host \in {"wsgi", "asgi", "django"} /\ rq.total \in Nat /\ IsRequest(rq)
           /\ rq.declared \in Int \/ rq.declared \in {Undeclared, Junk}
           /\ Declared \in Int /\ (Declared > 0 => rq.declared = Declared /\ rq.total = Declared)
           /\ Limit \in Nat /\ Owed \in Int /\ Want \in Int
<1>1. /\ rq \in [host : Hosts, declared : {Undeclared, Junk} \cup (-1..MaxBytes), total : 0..MaxBytes,
                  terminated : BOOLEAN]
      /\ IsRequest(rq)
  BY DEF BodyTypes, Requests
<1>2. rq.host \in Hosts /\ rq.declared \in {Undeclared, Junk} \cup (-1..MaxBytes) /\ rq.total \in 0..MaxBytes
  BY <1>1
<1>3. /\ rq.host \in {"wsgi", "asgi", "django"} /\ rq.total \in Nat /\ Limit \in Nat
      /\ rq.declared \in Int \/ rq.declared \in {Undeclared, Junk}
  <2>1. Limit \in Nat /\ MaxBytes \in Nat /\ rq.host \in {"wsgi", "asgi", "django"}
    BY <1>2, BodyAssumption
  <2>2. rq.total \in Nat /\ (rq.declared \in Int \/ rq.declared \in {Undeclared, Junk})
    BY <1>2, <2>1
  <2>. QED
    BY <2>1, <2>2
<1>4. Declared \in Int /\ (Declared > 0 => rq.declared = Declared /\ rq.total = Declared)
  BY <1>1, <1>3, BodyAssumption DEF Declared, IsRequest
<1>5. Owed \in Int /\ Want \in Int
  BY <1>3, <1>4 DEF Owed, Want
<1>. QED
  BY <1>1, <1>3, <1>4, <1>5

\* The first bytes, and some more.
LEMMA BytesAre ==
    ASSUME NEW n \in Nat
    PROVE  /\ Bytes(n) \in Seq(Nat) /\ Len(Bytes(n)) = n /\ (n = 0 => Bytes(n) = <<>>)
           /\ \A k \in Nat : /\ [i \in 1..k |-> n + i] \in Seq(Nat) /\ Len([i \in 1..k |-> n + i]) = k
                           /\ Bytes(n) \o [i \in 1..k |-> n + i] = Bytes(n + k)
<1>0. \A m \in Nat : Bytes(m) \in Seq(Nat) /\ Len(Bytes(m)) = m /\ \A i \in 1..m : Bytes(m)[i] = i
  BY DEF Bytes
<1>1. ASSUME NEW k \in Nat
      PROVE  /\ [i \in 1..k |-> n + i] \in Seq(Nat) /\ Len([i \in 1..k |-> n + i]) = k
             /\ Bytes(n) \o [i \in 1..k |-> n + i] = Bytes(n + k)
  <2>. DEFINE a == Bytes(n)
              e == [i \in 1..k |-> n + i]
              b == Bytes(n + k)
  <2>1. a \in Seq(Nat) /\ Len(a) = n /\ \A i \in 1..n : a[i] = i
    BY <1>0
  <2>2. e \in Seq(Nat) /\ Len(e) = k /\ \A i \in 1..k : e[i] = n + i
    OBVIOUS
  <2>3. n + k \in Nat /\ b \in Seq(Nat) /\ Len(b) = n + k /\ \A i \in 1..(n + k) : b[i] = i
    BY <1>0
  <2>. HIDE DEF a, e, b
  <2>. DEFINE c == a \o e
  <2>4. /\ c \in Seq(Nat) /\ Len(c) = n + k
        /\ \A i \in 1..(n + k) : c[i] = IF i <= n THEN a[i] ELSE e[i - n]
    BY <2>1, <2>2, ConcatProperties
  <2>. HIDE DEF c
  <2>5. ASSUME NEW i \in 1..(n + k) PROVE c[i] = i
    <3>1. CASE i <= n
      BY <2>1, <2>4, <3>1
    <3>2. CASE i > n
      <4>1. i - n \in 1..k /\ n + (i - n) = i
        BY <3>2
      <4>. QED
        BY <4>1, <2>2, <2>4, <3>2
    <3>. QED
      BY <3>1, <3>2
  <2>6. a \o e = b
    <3>1. c = b
      BY <2>3, <2>4, <2>5, SeqEqual
    <3>. QED
      BY <3>1 DEF c
  <2>. QED
    BY <2>2, <2>6 DEF a, e, b
<1>2. n = 0 => Bytes(n) = <<>>
  BY <1>0
<1>. QED
  BY <1>0, <1>1, <1>2

\* What the server hands over is the next bytes; if it says they are the last, nothing comes after.
LEMMA OfferIs ==
    ASSUME BodyTypes, NEW n \in Int, NEW p \in Offers(n)
    PROVE  \E k \in Nat : /\ p.data = [i \in 1..k |-> at + i] /\ p \in Pieces /\ p.last \in BOOLEAN
                          /\ Len(p.data) = k /\ at + k <= arrived
                          /\ p.last => gone \/ at + k = rq.total
<1>. DEFINE Is(k) == /\ at + k <= arrived
                     /\ p = Piece(k, FALSE) \/ (p = Piece(k, TRUE) /\ (gone \/ at + k = rq.total))
<1>0. at \in Nat /\ arrived \in Nat /\ at <= arrived /\ rq.total \in Nat
  BY RequestIs DEF BodyTypes
<1>1. \E k \in Nat : Is(k)
  <2>1. ASSUME NEW k \in 1..(arrived - at), p = Piece(k, FALSE) PROVE k \in Nat /\ Is(k)
    BY <1>0, <2>1
  <2>2. ASSUME NEW k \in 0..(arrived - at), at + k = rq.total, p = Piece(k, TRUE) PROVE k \in Nat /\ Is(k)
    <3>1. k \in Nat /\ at + k <= arrived
      BY <1>0
    <3>. QED
      BY <3>1, <2>2, Zenon
  <2>3. ASSUME p = Piece(0, TRUE), gone \/ at = rq.total PROVE Is(0)
    <3>1. at + 0 = at /\ at <= arrived
      BY <1>0
    <3>. QED
      BY <3>1, <2>3, Zenon
  <2>4. CASE p \in Receives
    BY <2>1, <2>2, <2>3, <2>4 DEF Receives
  <2>5. CASE p \in Reads(n)
    <3>1. ASSUME NEW k \in 1..(IF n < arrived - at THEN n ELSE arrived - at) PROVE k \in 1..(arrived - at)
      BY <1>0
    <3>. QED
      BY <2>1, <2>3, <2>5, <3>1 DEF Reads
  <2>. QED
    BY <2>4, <2>5 DEF Offers
<1>2. PICK k \in Nat : Is(k)
  BY <1>1
<1>. DEFINE d == [i \in 1..k |-> at + i]
<1>3. d \in Seq(Nat) /\ Len(d) = k /\ at \in Nat
  BY BytesAre DEF BodyTypes
<1>4. Piece(k, FALSE) = [data |-> d, last |-> FALSE] /\ Piece(k, TRUE) = [data |-> d, last |-> TRUE]
  BY <1>3 DEF Piece
<1>. HIDE DEF d
<1>5. at + k <= arrived /\ (p.last => gone \/ at + k = rq.total)
  <2>1. at + k <= arrived /\ (p = Piece(k, FALSE) \/ (p = Piece(k, TRUE) /\ (gone \/ at + k = rq.total)))
    BY <1>2, Zenon
  <2>2. CASE p = Piece(k, FALSE)
    <3>1. p = [data |-> d, last |-> FALSE]
      BY <2>2, <1>4, Zenon
    <3>2. p.last = FALSE
      BY <3>1
    <3>. QED
      BY <2>1, <3>2, Zenon
  <2>3. CASE p = Piece(k, TRUE) /\ (gone \/ at + k = rq.total)
    BY <2>1, <2>3, Zenon
  <2>. QED
    BY <2>1, <2>2, <2>3, Zenon
<1>6. p.data = d /\ p.last \in BOOLEAN /\ p \in Pieces /\ Len(p.data) = k
  <2>1. p = Piece(k, FALSE) \/ p = Piece(k, TRUE)
    BY <1>2, Zenon
  <2>2. p = [data |-> d, last |-> FALSE] \/ p = [data |-> d, last |-> TRUE]
    BY <2>1, <1>4, Zenon
  <2>. QED
    <3>1. ASSUME NEW x \in BOOLEAN, p = [data |-> d, last |-> x]
          PROVE  p.data = d /\ p.last \in BOOLEAN /\ p \in Pieces /\ Len(p.data) = k
      <4>1. p.last = x /\ p.data = d
        BY <3>1
      <4>. QED
        BY <3>1, <4>1, <1>3 DEF Pieces
    <3>. QED
      BY <2>2, <3>1
<1>. QED
  BY <1>5, <1>6 DEF d

\* How much the adapter asks for is all there is, or more than the cap.
LEMMA WantIs ==
    ASSUME BodyTypes
    PROVE  /\ rq.host # "wsgi" => Want = rq.total + 1
           /\ rq.host = "wsgi" /\ Want > 0 => Want = rq.total \/ Want = Limit + 1
           /\ Want >= 0
           /\ Want = 0 => rq.host = "wsgi" /\ (rq.total = 0 \/ rq.declared \notin Nat \cup {Undeclared})
<1>1. rq.host # "wsgi" => Want = rq.total + 1
  BY Zenon DEF Want
<1>2. rq.host = "wsgi" => Want = IF rq.declared # Undeclared
                                   THEN IF Declared > 0 THEN Declared ELSE 0
                                   ELSE IF rq.terminated THEN Limit + 1 ELSE 0
  BY Zenon DEF Want
<1>3. /\ Limit \in Nat /\ rq.total \in Nat /\ Declared \in Int /\ (Declared > 0 => rq.total = Declared)
      /\ IsRequest(rq) /\ Undeclared \notin Int
  BY RequestIs, BodyAssumption
<1>4. ASSUME Want = 0 PROVE rq.host = "wsgi" /\ (rq.total = 0 \/ rq.declared \notin Nat \cup {Undeclared})
  <2>1. rq.host = "wsgi"
    BY <1>1, <1>3, <1>4
  <2>2. CASE rq.declared = Undeclared
    <3>1. ~rq.terminated
      BY <1>2, <1>3, <1>4, <2>1, <2>2
    <3>. QED
      BY <2>1, <2>2, <3>1, <1>3 DEF IsRequest
  <2>3. CASE rq.declared \in Nat
    <3>1. rq.declared # Undeclared /\ Declared = rq.declared /\ rq.total = rq.declared
      BY <2>3, <1>3 DEF Declared, IsRequest
    <3>2. ~(Declared > 0)
      BY <1>2, <1>3, <1>4, <2>1, <3>1
    <3>. QED
      BY <2>1, <2>3, <3>1, <3>2
  <2>. QED
    BY <2>1, <2>2, <2>3
<1>5. Want >= 0
  <2>1. CASE rq.host # "wsgi"
    BY <1>1, <1>3, <2>1
  <2>2. CASE rq.host = "wsgi"
    BY <1>2, <1>3, <2>2
  <2>. QED
    BY <2>1, <2>2
<1>. QED
  BY <1>1, <1>2, <1>3, <1>4, <1>5

-----------------------------------------------------------------------------
(* Every step keeps the invariant. *)

\* A step that hands over nothing, and moves no piece.
LEMMA HeldStays ==
    ASSUME BodyTypes, HeldInv, raised' = raised, held' = held, seen' = seen, at' = at
    PROVE  HeldInv'
  BY DEF HeldInv, Follows

\* With no piece held the app is where the server is.
LEMMA NoneHeld ==
    ASSUME HeldInv, held = <<>>, ~raised
    PROVE  seen = Bytes(at)
<1>1. PICK cut \in [1..(Len(held) + 1) -> Nat] : Follows(cut)
  BY DEF HeldInv
<1>2. Len(held) + 1 = 1
  OBVIOUS
<1>3. Len(seen) = at
  BY <1>1, <1>2 DEF Follows
<1>. QED
  BY <1>3 DEF HeldInv

\* The client sends, or leaves.
LEMMA ClientStep ==
    ASSUME IInv, Send \/ Leave
    PROVE  IInv'
<1>1. /\ UNCHANGED <<rq, at, pc, held, data, rest, body, seen, raised>>
      /\ arrived' \in {arrived, arrived + 1} /\ (arrived' = arrived \/ arrived < rq.total)
      /\ gone' \in BOOLEAN /\ (gone => gone')
  BY DEF Send, Leave, IInv, BodyTypes
<1>2. BodyTypes'
  BY <1>1, RequestIs DEF IInv, BodyTypes
<1>3. ReadingInv' /\ HeldInv'
  <2>1. Want' = Want
    BY <1>1 DEF Want, Declared
  <2>. QED
    BY <1>1, <2>1, HeldStays DEF IInv, ReadingInv
<1>4. Ended => Ended'
  BY <1>1 DEF Ended
<1>5. LastInv' /\ EndInv'
  BY <1>1, <1>4 DEF IInv, LastInv, EndInv, Over
<1>6. AppSeesItsBody' /\ EngineGetsWhole'
  BY <1>1 DEF IInv, AppSeesItsBody, EngineGetsWhole
<1>. QED
  BY <1>2, <1>3, <1>5, <1>6 DEF IInv

\* The adapter looks at the length announced.
LEMMA AskStep ==
    ASSUME IInv, Ask
    PROVE  IInv'
<1>0. /\ UNCHANGED <<rq, arrived, gone, at, held, data, rest, seen, raised>> /\ pc = "ask"
      /\ rest /\ ~raised /\ held = <<>> /\ data = Bytes(at) /\ seen = <<>>
  BY DEF Ask, IInv, ReadingInv, LastInv, Reading
<1>1. \/ Over(Declared) /\ pc' = "app" /\ body' = None
      \/ ~Over(Declared) /\ Want = 0 /\ pc' = "app" /\ body' = <<>>
      \/ Want # 0 /\ pc' = "read" /\ body' = body
  BY DEF Ask, ToApp
<1>2. /\ rq.total \in Nat /\ Limit \in Nat /\ Declared \in Int
      /\ (Declared > 0 => rq.total = Declared)
  BY RequestIs DEF IInv
<1>3. BodyTypes'
  BY <1>0, <1>1 DEF IInv, BodyTypes, Steps
<1>4. ReadingInv' /\ HeldInv'
  <2>1. Want' = Want
    BY <1>0 DEF Want, Declared
  <2>2. Want # 0 => Want > 0
    BY WantIs, RequestIs DEF IInv
  <2>. QED
    BY <1>0, <1>1, <2>1, <2>2, HeldStays DEF IInv, ReadingInv
<1>5. LastInv' /\ EndInv' /\ AppSeesItsBody'
  BY <1>0, <1>1 DEF LastInv, EndInv, AppSeesItsBody
<1>6. EngineGetsWhole'
  <2>1. CASE Over(Declared) /\ pc' = "app" /\ body' = None
    BY <1>0, <1>2, <2>1 DEF EngineGetsWhole, Over
  <2>2. CASE Want = 0 /\ pc' = "app" /\ body' = <<>>
    <3>1. <<>> = Bytes(0) /\ 0 \in 0..Limit
      BY <1>2, BytesAre
    <3>2. Bytes(0) # None
      BY <3>1, BodyAssumption DEF Bytes
    <3>3. rq.host = "wsgi" /\ (rq.total = 0 \/ rq.declared \notin Nat \cup {Undeclared})
      BY <2>2, WantIs DEF IInv
    <3>. QED
      BY <1>0, <2>2, <3>1, <3>2, <3>3 DEF EngineGetsWhole
  <2>3. CASE pc' = "read"
    BY <2>3 DEF EngineGetsWhole
  <2>. QED
    BY <1>1, <2>1, <2>2, <2>3
<1>. QED
  BY <1>3, <1>4, <1>5, <1>6 DEF IInv

\* The adapter reads one more piece.
LEMMA ReadStep ==
    ASSUME IInv, Read
    PROVE  IInv'
<1>0. /\ UNCHANGED <<rq, arrived, gone, rest, body, seen, raised>> /\ pc = "read"
      /\ rest /\ ~raised /\ data = Bytes(at) /\ seen = <<>>
      /\ at \in Nat /\ arrived \in Nat /\ Len(held) \in Nat /\ held \in Seq(Pieces) /\ rq.total \in Nat
      /\ arrived <= rq.total /\ Limit \in Nat /\ Want \in Int
  BY RequestIs DEF Read, IInv, ReadingInv, BodyTypes, Reading
<1>1. Size = at /\ Want - Size \in Int
  BY <1>0, BytesAre DEF Size
<1>2. PICK p \in Offers(Want - Size) :
         /\ held' = Append(held, p) /\ data' = data \o p.data /\ at' = at + Len(p.data)
         /\ pc' = IF Enough(p, Size + Len(p.data)) THEN "put_back" ELSE "read"
  BY DEF Read
<1>3. PICK k \in Nat : /\ p.data = [i \in 1..k |-> at + i] /\ p \in Pieces /\ p.last \in BOOLEAN
                       /\ Len(p.data) = k /\ at + k <= arrived
                       /\ p.last => gone \/ at + k = rq.total
  BY <1>1, OfferIs DEF IInv
<1>. DEFINE d == p.data
<1>a. /\ d = [i \in 1..k |-> at + i] /\ p \in Pieces /\ p.last \in BOOLEAN /\ Len(d) = k
      /\ at + k <= arrived /\ (p.last => gone \/ at + k = rq.total)
      /\ held' = Append(held, p) /\ data' = Bytes(at) \o d /\ at' = at + k
  <2>1. d = [i \in 1..k |-> at + i] /\ Len(d) = k
    BY <1>3, Zenon
  <2>2. p \in Pieces /\ p.last \in BOOLEAN /\ at + k <= arrived
    BY <1>3, Zenon
  <2>3. p.last => gone \/ at + k = rq.total
    BY <1>3, Zenon
  <2>4. held' = Append(held, p) /\ data' = data \o d /\ at' = at + Len(d)
    BY <1>2, Zenon
  <2>. HIDE DEF d
  <2>5. data' = Bytes(at) \o d /\ at' = at + k
    BY <1>0, <2>1, <2>4, Zenon
  <2>. QED
    BY <2>1, <2>2, <2>3, <2>4, <2>5, Zenon
<1>. HIDE DEF d
<1>4. at' \in Nat /\ at' <= arrived' /\ at' = at + k /\ at \in Nat
  BY <1>0, <1>a
<1>5. data' = Bytes(at') /\ data' \in Seq(Nat)
  <2>1. Bytes(at) \o d = Bytes(at + k)
    BY <1>4, <1>a, BytesAre, Zenon
  <2>2. Bytes(at') \in Seq(Nat)
    BY <1>4, BytesAre
  <2>. QED
    BY <2>1, <2>2, <1>4, <1>a, Zenon
<1>6. /\ held' \in Seq(Pieces) /\ Len(held') = Len(held) + 1 /\ held'[Len(held) + 1] = p
      /\ \A j \in 1..Len(held) : held'[j] = held[j]
  <2>1. held \in Seq(Pieces) /\ p \in Pieces /\ held' = Append(held, p)
    BY <1>0, <1>a
  <2>. QED
    BY <2>1
<1>7. BodyTypes'
  BY <1>0, <1>2, <1>4, <1>5, <1>6 DEF IInv, BodyTypes, Steps
<1>8. ReadingInv'
  <2>1. Want' = Want
    BY <1>0 DEF Want, Declared
  <2>. QED
    BY <1>0, <1>5, <2>1 DEF IInv, ReadingInv
<1>9. HeldInv'
  <2>. DEFINE m == Len(held)
  <2>0. m \in Nat /\ Len(held') = m + 1
    BY <1>0, <1>6
  <2>1. PICK cut \in [1..(m + 1) -> Nat] : Follows(cut)
    BY <1>0 DEF IInv, HeldInv
  <2>2. /\ cut[1] = Len(seen) /\ cut[m + 1] = at
        /\ \A i, j \in 1..(m + 1) : i <= j => cut[i] <= cut[j]
        /\ \A j \in 1..m : held[j].data = [i \in 1..(cut[j + 1] - cut[j]) |-> cut[j] + i]
    BY <2>1 DEF Follows
  <2>. HIDE DEF m
  <2>. DEFINE next == [j \in 1..(m + 2) |-> IF j = m + 2 THEN at + k ELSE cut[j]]
  <2>3. /\ next \in [1..(m + 2) -> Nat] /\ next[m + 2] = at + k
        /\ \A j \in 1..(m + 1) : next[j] = cut[j]
    BY <1>4, <2>0, <2>1
  <2>. HIDE DEF next
  <2>4. ASSUME NEW j \in 1..(m + 1)
        PROVE  held'[j].data = [i \in 1..(next[j + 1] - next[j]) |-> next[j] + i]
    <3>1. CASE j \in 1..m
      <4>1. next[j] = cut[j] /\ next[j + 1] = cut[j + 1] /\ held'[j] = held[j]
        BY <1>6, <2>0, <2>3, <3>1 DEF m
      <4>. QED
        BY <2>2, <3>1, <4>1
    <3>2. CASE j = m + 1
      <4>1. next[j + 1] = at + k /\ next[j] = at /\ held'[j] = p
        BY <1>6, <2>0, <2>2, <2>3, <3>2 DEF m
      <4>2. next[j + 1] - next[j] = k
        BY <1>4, <4>1
      <4>3. held'[j].data = d
        BY <4>1 DEF d
      <4>. QED
        BY <1>a, <4>1, <4>2, <4>3
    <3>. QED
      BY <2>0, <3>1, <3>2
  <2>5. ASSUME NEW i \in 1..(m + 2), NEW j \in 1..(m + 2), i <= j PROVE next[i] <= next[j]
    <3>1. CASE j \in 1..(m + 1)
      BY <2>0, <2>2, <2>3, <2>5, <3>1
    <3>2. CASE i \in 1..(m + 1) /\ j = m + 2
      <4>1. m + 1 \in 1..(m + 1) /\ i <= m + 1 /\ cut[i] \in Nat /\ next[i] = cut[i] /\ next[j] = at + k
        BY <2>0, <2>1, <2>3, <3>2
      <4>2. cut[i] <= at
        BY <2>2, <3>2, <4>1
      <4>. QED
        BY <1>4, <4>1, <4>2
    <3>3. CASE i = m + 2 /\ j = m + 2
      BY <1>4, <2>3, <3>3
    <3>. QED
      BY <2>0, <2>5, <3>1, <3>2, <3>3
  <2>6. next[1] = Len(seen)
    BY <2>0, <2>2, <2>3
  <2>7. \E c \in [1..(Len(held') + 1) -> Nat] : Follows(c)'
    <3>1. Len(held') = m + 1 /\ Len(held') + 1 = m + 2 /\ Len(seen') = Len(seen)
      BY <1>0, <2>0
    <3>2. next[m + 2] = at'
      BY <1>4, <2>3
    <3>3. /\ next \in [1..(Len(held') + 1) -> Nat] /\ next[1] = Len(seen') /\ next[Len(held') + 1] = at'
          /\ \A i, j \in 1..(Len(held') + 1) : i <= j => next[i] <= next[j]
          /\ \A j \in 1..Len(held') : held'[j].data = [i \in 1..(next[j + 1] - next[j]) |-> next[j] + i]
      BY <2>3, <2>4, <2>5, <2>6, <3>1, <3>2
    <3>. QED
      BY <3>3 DEF Follows
  <2>. QED
    BY <1>0, <2>7 DEF IInv, HeldInv
<1>10. p.last => Ended'
  <2>1. p.last => gone' \/ at' = rq'.total
    BY <1>0, <1>a, Zenon
  <2>. QED
    BY <2>1 DEF Ended
<1>11. LastInv'
  <2>1. \A j \in 1..Len(held) : ~held[j].last
    BY <1>0 DEF IInv, LastInv
  <2>2. p.last => pc' = "put_back"
    BY <1>2 DEF Enough
  <2>3. ASSUME NEW j \in 1..Len(held'), held'[j].last PROVE j = Len(held') /\ held'[j] = p
    BY <1>0, <1>6, <2>1, <2>3
  <2>. QED
    BY <1>2, <1>10, <2>2, <2>3 DEF LastInv
<1>12. EndInv'
  <2>1. ASSUME pc' = "put_back" PROVE Ended' \/ (rq.host # "django" /\ Over(at'))
    <3>1. Enough(p, at')
      BY <1>0, <1>1, <1>2, <2>1
    <3>2. CASE p.last
      BY <1>10, <3>2
    <3>3. CASE rq.host = "asgi" /\ Over(at')
      BY <3>3
    <3>4. CASE rq.host # "asgi" /\ at' >= Want
      <4>1. CASE rq.host # "wsgi"
        BY <1>0, <1>4, <3>4, <4>1, WantIs DEF IInv
      <4>2. CASE rq.host = "wsgi" /\ Want > 0
        <5>1. Want = rq.total \/ Want = Limit + 1
          BY <4>2, WantIs DEF IInv
        <5>. QED
          BY <1>0, <1>4, <3>4, <4>2, <5>1 DEF Ended, Over
      <4>3. Want > 0
        BY <1>0 DEF IInv, ReadingInv
      <4>. QED
        BY <4>1, <4>2, <4>3
    <3>. QED
      BY <3>1, <3>2, <3>3, <3>4 DEF Enough
  <2>. QED
    BY <1>0, <1>2, <2>1 DEF EndInv, Over
<1>13. AppSeesItsBody' /\ EngineGetsWhole'
  BY <1>2 DEF AppSeesItsBody, EngineGetsWhole
<1>. QED
  BY <1>7, <1>8, <1>9, <1>11, <1>12, <1>13 DEF IInv

\* The adapter puts back what it has read.
LEMMA PutBackStep ==
    ASSUME IInv, PutBack
    PROVE  IInv'
<1>0. /\ UNCHANGED <<rq, arrived, gone, at, held, data, seen, raised>> /\ pc = "put_back" /\ pc' = "app"
      /\ rest' = (rq.host = "asgi" \/ (rq.host = "wsgi" /\ Over(Size)))
      /\ body' = IF Over(Size) THEN None ELSE data
      /\ ~raised /\ data = Bytes(at)
      /\ at \in Nat /\ rq.total \in Nat /\ Limit \in Nat /\ at <= rq.total
      /\ rq.host \in {"wsgi", "asgi", "django"}
      /\ Ended \/ (rq.host # "django" /\ Over(at))
  BY RequestIs DEF PutBack, ToApp, IInv, ReadingInv, BodyTypes, Reading, EndInv
<1>1. Size = at
  BY <1>0, BytesAre DEF Size
<1>2. BodyTypes'
  BY <1>0 DEF IInv, BodyTypes, Steps
<1>3. ReadingInv' /\ HeldInv'
  BY <1>0, <1>2, HeldStays DEF IInv, ReadingInv, Reading
<1>4. LastInv'
  BY <1>0 DEF IInv, LastInv, Ended
<1>5. EndInv'
  <2>1. ASSUME ~rest' PROVE Ended'
    <3>1. rq.host # "asgi" /\ ~(rq.host = "wsgi" /\ Over(Size))
      BY <1>0, <2>1, Zenon
    <3>2. Ended
      BY <1>0, <1>1, <3>1 DEF Over
    <3>. QED
      BY <1>0, <3>2 DEF Ended
  <2>. QED
    BY <1>0, <2>1 DEF EndInv
<1>6. EngineGetsWhole'
  <2>1. CASE Over(at)
    BY <1>0, <1>1, <2>1 DEF EngineGetsWhole, Over
  <2>2. CASE ~Over(at)
    <3>1. body' = Bytes(at) /\ at \in 0..Limit /\ (at = rq.total \/ gone)
      BY <1>0, <1>1, <2>2 DEF Over, Ended
    <3>2. Bytes(at) # None
      BY <3>1, BodyAssumption DEF Bytes
    <3>. QED
      BY <1>0, <3>1, <3>2 DEF EngineGetsWhole
  <2>. QED
    BY <2>1, <2>2
<1>. QED
  BY <1>0, <1>2, <1>3, <1>4, <1>5, <1>6 DEF IInv, AppSeesItsBody

\* A read of the adapter's raises.
LEMMA RaiseStep ==
    ASSUME IInv, Raise
    PROVE  IInv'
<1>0. /\ UNCHANGED <<rq, arrived, gone, at, data, rest, seen>> /\ pc' = "app" /\ body' = None
      /\ raised' = TRUE /\ held' = <<>> /\ rest
  BY DEF Raise, ToApp, IInv, ReadingInv, Reading
<1>1. BodyTypes'
  BY <1>0 DEF IInv, BodyTypes, Steps
<1>2. ReadingInv' /\ HeldInv' /\ LastInv' /\ EndInv' /\ AppSeesItsBody' /\ EngineGetsWhole'
  BY <1>0 DEF ReadingInv, Reading, HeldInv, LastInv, EndInv, AppSeesItsBody, EngineGetsWhole
<1>. QED
  BY <1>1, <1>2 DEF IInv

\* What a read of the app's leaves alone; it ends the body only if the body is over.
LEMMA AppReadStep ==
    ASSUME IInv, UNCHANGED <<rq, arrived, gone, data, rest, body, raised>>, pc = "app", pc' \in {"app", "done"},
           BodyTypes', HeldInv', LastInv', Ended => Ended',
           pc' = "done" /\ ~raised => seen' = Bytes(at') /\ Ended'
    PROVE  IInv'
<1>1. ReadingInv' /\ EndInv' /\ AppSeesItsBody'
  BY DEF IInv, ReadingInv, Reading, EndInv, AppSeesItsBody, Ended
<1>2. EngineGetsWhole'
  BY DEF IInv, EngineGetsWhole
<1>. QED
  BY <1>1, <1>2 DEF IInv

\* The app reads a piece the adapter put back.
LEMMA AppReadsHeld ==
    ASSUME IInv, pc = "app", held # <<>>, Take(Head(held)), held' = Tail(held), at' = at,
           UNCHANGED <<rq, arrived, gone, data, rest, body, raised>>
    PROVE  IInv'
<1>. DEFINE p == Head(held)
            n == Len(held)
<1>0. /\ held \in Seq(Pieces) /\ n \in Nat /\ n >= 1 /\ p = held[1] /\ p \in Pieces
      /\ held' \in Seq(Pieces) /\ Len(held') = n - 1 /\ \A j \in 1..(n - 1) : held'[j] = held[j + 1]
  BY DEF IInv, BodyTypes
<1>. HIDE DEF p, n
<1>1. /\ p.data \in Seq(Nat) /\ p.last \in BOOLEAN /\ seen \in Seq(Nat) /\ at \in Nat
      /\ seen' = seen \o p.data /\ pc' = IF p.last THEN "done" ELSE pc
  BY <1>0 DEF Take, Pieces, IInv, BodyTypes, p
<1>2. seen' \in Seq(Nat)
  BY <1>1
<1>3. BodyTypes'
  BY <1>0, <1>1, <1>2 DEF IInv, BodyTypes, Steps
<1>4. ASSUME ~raised
      PROVE  /\ seen' = Bytes(Len(seen')) /\ (n = 1 => Len(seen') = at)
             /\ \E cut \in [1..(Len(held') + 1) -> Nat] : Follows(cut)'
  <2>1. PICK cut \in [1..(n + 1) -> Nat] : Follows(cut)
    BY <1>4 DEF IInv, HeldInv, n
  <2>2. /\ cut[1] = Len(seen) /\ cut[n + 1] = at
        /\ \A i, j \in 1..(n + 1) : i <= j => cut[i] <= cut[j]
        /\ \A j \in 1..n : held[j].data = [i \in 1..(cut[j + 1] - cut[j]) |-> cut[j] + i]
    BY <2>1 DEF Follows, n
  <2>. DEFINE a == cut[1]
              k == cut[2] - cut[1]
  <2>3. a \in Nat /\ k \in Nat /\ a + k = cut[2] /\ cut[2] \in Nat
    <3>1. 1 \in 1..(n + 1) /\ 2 \in 1..(n + 1) /\ 1 <= 2
      BY <1>0
    <3>2. cut[1] \in Nat /\ cut[2] \in Nat /\ cut[1] <= cut[2]
      BY <2>1, <2>2, <3>1
    <3>. QED
      BY <3>2
  <2>4. seen = Bytes(a) /\ p.data = [i \in 1..k |-> a + i]
    <3>0. 1 \in 1..n /\ 1 + 1 = 2
      BY <1>0
    <3>1. held[1].data = [i \in 1..(cut[1 + 1] - cut[1]) |-> cut[1] + i]
      BY <2>2, <3>0
    <3>. QED
      BY <1>0, <1>4, <2>2, <3>0, <3>1 DEF IInv, HeldInv
  <2>. HIDE DEF a, k
  <2>5. seen' = Bytes(a + k)
    <3>1. Bytes(a) \o [i \in 1..k |-> a + i] = Bytes(a + k)
      BY <2>3, BytesAre
    <3>. QED
      BY <1>1, <2>4, <3>1, Zenon
  <2>6. Len(seen') = cut[2]
    BY <2>3, <2>5, BytesAre
  <2>. DEFINE next == [j \in 1..n |-> cut[j + 1]]
  <2>7. next \in [1..n -> Nat] /\ \A j \in 1..n : next[j] = cut[j + 1]
    BY <1>0, <2>1
  <2>. HIDE DEF next
  <2>8. next[1] = Len(seen') /\ next[n] = at
    <3>1. 1 \in 1..n /\ n \in 1..n /\ 1 + 1 = 2
      BY <1>0
    <3>. QED
      BY <2>2, <2>6, <2>7, <3>1
  <2>9. ASSUME NEW j \in 1..(n - 1)
        PROVE  held'[j].data = [i \in 1..(next[j + 1] - next[j]) |-> next[j] + i]
    <3>1. j + 1 \in 1..n /\ j \in 1..n
      BY <1>0
    <3>2. next[j] = cut[j + 1] /\ next[j + 1] = cut[(j + 1) + 1] /\ held'[j] = held[j + 1]
      BY <1>0, <2>7, <3>1
    <3>3. held[j + 1].data = [i \in 1..(cut[(j + 1) + 1] - cut[j + 1]) |-> cut[j + 1] + i]
      BY <2>2, <3>1
    <3>. QED
      BY <3>2, <3>3
  <2>10. ASSUME NEW i \in 1..n, NEW j \in 1..n, i <= j PROVE next[i] <= next[j]
    <3>1. i + 1 \in 1..(n + 1) /\ j + 1 \in 1..(n + 1) /\ i + 1 <= j + 1
      BY <1>0, <2>10
    <3>2. cut[i + 1] <= cut[j + 1]
      BY <2>2, <3>1
    <3>. QED
      BY <2>7, <3>2
  <2>11. \E c \in [1..(Len(held') + 1) -> Nat] : Follows(c)'
    <3>1. Len(held') = n - 1 /\ (n - 1) + 1 = n
      BY <1>0
    <3>2. /\ next \in [1..(Len(held') + 1) -> Nat] /\ next[1] = Len(seen') /\ next[Len(held') + 1] = at'
          /\ \A i, j \in 1..(Len(held') + 1) : i <= j => next[i] <= next[j]
          /\ \A j \in 1..Len(held') : held'[j].data = [i \in 1..(next[j + 1] - next[j]) |-> next[j] + i]
      BY <2>7, <2>8, <2>9, <2>10, <3>1
    <3>. QED
      BY <3>2 DEF Follows
  <2>12. seen' = Bytes(Len(seen')) /\ (n = 1 => Len(seen') = at)
    BY <2>2, <2>3, <2>5, <2>6
  <2>. QED
    BY <2>11, <2>12
<1>5. HeldInv'
  BY <1>4 DEF HeldInv
<1>6. ASSUME ~raised, NEW j \in 1..n, held[j].last PROVE j = n /\ Ended
  BY <1>6 DEF IInv, LastInv, n
<1>7. Ended' = Ended
  BY DEF Ended
<1>8. LastInv'
  <2>1. ASSUME ~raised, NEW j \in 1..Len(held'), held'[j].last PROVE j = Len(held') /\ Ended
    <3>1. j + 1 \in 1..n /\ held'[j] = held[j + 1]
      BY <1>0
    <3>2. j + 1 = n /\ Ended
      BY <1>6, <2>1, <3>1
    <3>. QED
      BY <1>0, <3>2
  <2>. QED
    BY <1>1, <1>7, <2>1 DEF LastInv
<1>9. pc' = "done" /\ ~raised => seen' = Bytes(at') /\ Ended'
  <2>. SUFFICES ASSUME pc' = "done", ~raised PROVE seen' = Bytes(at') /\ Ended'
    OBVIOUS
  <2>1. held[1].last
    BY <1>0, <1>1
  <2>2. 1 = n /\ Ended
    BY <1>0, <1>6, <2>1
  <2>. QED
    BY <1>4, <1>7, <2>2
<1>. QED
  BY <1>1, <1>3, <1>5, <1>7, <1>8, <1>9, AppReadStep

\* The app reads from the server.
LEMMA AppReadsServer ==
    ASSUME IInv, pc = "app", held = <<>>, rest, held' = held,
           NEW n \in Int, NEW p \in Offers(n), Take(p), at' = at + Len(p.data),
           UNCHANGED <<rq, arrived, gone, data, rest, body, raised>>
    PROVE  IInv'
<1>0. seen \in Seq(Nat) /\ at \in Nat /\ arrived \in Nat /\ Len(held) = 0
  BY DEF IInv, BodyTypes
<1>1. PICK k \in Nat : /\ p.data = [i \in 1..k |-> at + i] /\ p \in Pieces /\ p.last \in BOOLEAN
                       /\ Len(p.data) = k /\ at + k <= arrived
                       /\ p.last => gone \/ at + k = rq.total
  BY OfferIs DEF IInv
<1>. DEFINE d == p.data
<1>2. /\ d = [i \in 1..k |-> at + i] /\ d \in Seq(Nat) /\ p.last \in BOOLEAN /\ at' = at + k /\ at + k <= arrived
      /\ seen' = seen \o d /\ pc' = IF p.last THEN "done" ELSE pc
  BY <1>0, <1>1 DEF Take, Pieces
<1>. HIDE DEF d
<1>3. seen' \in Seq(Nat) /\ at' \in Nat /\ at' <= arrived'
  BY <1>0, <1>2
<1>4. BodyTypes'
  BY <1>2, <1>3 DEF IInv, BodyTypes, Steps
<1>5. ASSUME ~raised PROVE seen = Bytes(at) /\ seen' = Bytes(at')
  <2>1. seen = Bytes(at)
    BY <1>5, NoneHeld DEF IInv
  <2>2. Bytes(at) \o [i \in 1..k |-> at + i] = Bytes(at + k)
    BY <1>0, BytesAre
  <2>. QED
    BY <1>2, <2>1, <2>2, Zenon
<1>6. HeldInv'
  <2>1. ASSUME ~raised PROVE seen' = Bytes(Len(seen')) /\ \E cut \in [1..(Len(held') + 1) -> Nat] : Follows(cut)'
    <3>1. Len(seen') = at' /\ Len(held') = 0
      BY <1>0, <1>3, <1>5, <2>1, BytesAre
    <3>. DEFINE cut == [j \in 1..1 |-> at']
    <3>2. cut \in [1..1 -> Nat] /\ cut[1] = at' /\ \A i, j \in 1..1 : cut[i] <= cut[j]
      BY <1>3
    <3>. HIDE DEF cut
    <3>3. /\ cut \in [1..(Len(held') + 1) -> Nat] /\ cut[1] = Len(seen') /\ cut[Len(held') + 1] = at'
          /\ \A i, j \in 1..(Len(held') + 1) : cut[i] <= cut[j]
      BY <3>1, <3>2
    <3>4. \A j \in 1..Len(held') : FALSE
      BY <3>1
    <3>5. \E c \in [1..(Len(held') + 1) -> Nat] : Follows(c)'
      BY <3>3, <3>4 DEF Follows
    <3>. QED
      BY <1>5, <2>1, <3>1, <3>5
  <2>. QED
    BY <2>1 DEF HeldInv
<1>7. LastInv'
  BY <1>0, <1>2 DEF LastInv
<1>8. Ended => Ended'
  BY <1>0, <1>2, RequestIs DEF IInv, BodyTypes, Ended
<1>9. p.last => Ended'
  BY <1>1, <1>2 DEF Ended
<1>10. pc' = "done" /\ ~raised => seen' = Bytes(at') /\ Ended'
  BY <1>2, <1>5, <1>9
<1>. QED
  BY <1>2, <1>4, <1>6, <1>7, <1>8, <1>10, AppReadStep

\* The app reads.
LEMMA AppStep ==
    ASSUME IInv, AppReads
    PROVE  IInv'
<1>0. /\ UNCHANGED <<rq, arrived, gone, data, rest, body, raised>> /\ pc = "app"
      /\ held \in Seq(Pieces) /\ at \in Nat /\ seen \in Seq(Nat) /\ Owed - Len(seen) \in Int
  BY RequestIs DEF AppReads, IInv, BodyTypes
<1>1. CASE held # <<>> /\ Take(Head(held)) /\ held' = Tail(held) /\ at' = at
  BY <1>0, <1>1, AppReadsHeld
<1>2. CASE /\ held = <<>> /\ rest /\ held' = held
           /\ \E p \in Offers(Owed - Len(seen)) : Take(p) /\ at' = at + Len(p.data)
  <2>1. PICK p \in Offers(Owed - Len(seen)) : Take(p) /\ at' = at + Len(p.data)
    BY <1>2
  <2>. QED
    BY <1>0, <1>2, <2>1, AppReadsServer
<1>3. CASE held = <<>> /\ ~rest /\ Take(Piece(0, TRUE)) /\ UNCHANGED <<held, at>>
  <2>1. Piece(0, TRUE).data = <<>> /\ Piece(0, TRUE).last = TRUE
    BY <1>0 DEF Piece
  <2>2. seen' = seen /\ pc' = "done"
    <3>1. seen' = seen \o <<>> /\ pc' = "done"
      BY <1>3, <2>1 DEF Take
    <3>. QED
      BY <1>0, <3>1
  <2>3. Ended /\ Ended' = Ended
    BY <1>0, <1>3 DEF IInv, EndInv, Ended
  <2>4. BodyTypes'
    BY <1>0, <1>3, <2>2 DEF IInv, BodyTypes, Steps
  <2>5. HeldInv' /\ LastInv'
    <3>1. HeldInv'
      BY <1>0, <1>3, <2>2, HeldStays DEF IInv
    <3>2. \A k \in 1..Len(held') : FALSE
      BY <1>3
    <3>. QED
      BY <2>2, <3>1, <3>2 DEF LastInv
  <2>6. ~raised => seen' = Bytes(at')
    <3>1. ASSUME ~raised PROVE seen = Bytes(at)
      BY <1>3, <3>1, NoneHeld DEF IInv
    <3>. QED
      BY <1>3, <2>2, <3>1
  <2>. QED
    BY <1>0, <2>2, <2>3, <2>4, <2>5, <2>6, AppReadStep
<1>. QED
  BY <1>1, <1>2, <1>3 DEF AppReads

\* The app has as many bytes as it was promised: there are no more.
LEMMA AppHasAllStep ==
    ASSUME IInv, AppHasAll
    PROVE  IInv'
<1>0. /\ UNCHANGED <<rq, arrived, gone, at, held, data, rest, body, seen, raised>> /\ pc = "app" /\ pc' = "done"
      /\ Len(seen) >= Owed /\ Len(held) \in Nat /\ Len(seen) \in Nat /\ at \in Nat /\ rq.total \in Nat
      /\ at <= rq.total
  BY RequestIs DEF AppHasAll, IInv, BodyTypes
<1>1. BodyTypes' /\ HeldInv'
  BY <1>0, HeldStays DEF IInv, BodyTypes, Steps
<1>2. LastInv'
  BY <1>0 DEF IInv, LastInv, Ended
<1>3. ASSUME ~raised PROVE seen = Bytes(at) /\ at = rq.total
  <2>1. PICK cut \in [1..(Len(held) + 1) -> Nat] : Follows(cut)
    BY <1>3 DEF IInv, HeldInv
  <2>2. Len(seen) >= rq.total
    <3>0. BodyTypes
      BY DEF IInv
    <3>1. CASE rq.host # "wsgi" \/ (rq.declared \notin Nat /\ rq.terminated)
      <4>1. Owed = rq.total + 1
        BY <3>1, Zenon DEF Owed
      <4>. QED
        BY <1>0, <4>1
    <3>2. CASE rq.host = "wsgi" /\ rq.declared \in Nat
      <4>1. Owed = Declared /\ Declared = rq.declared
        BY <3>2 DEF Owed, Declared
      <4>2. rq.total = rq.declared
        BY <3>0, <3>2, RequestIs DEF IsRequest
      <4>. QED
        BY <1>0, <4>1, <4>2
    <3>3. CASE rq.host = "wsgi" /\ rq.declared \notin Nat /\ ~rq.terminated
      <4>1. rq.total = 0
        BY <3>0, <3>3, RequestIs DEF IsRequest
      <4>. QED
        BY <1>0, <4>1
    <3>. QED
      BY <3>1, <3>2, <3>3
  <2>3. Len(seen) <= at
    <3>1. 1 \in 1..(Len(held) + 1) /\ Len(held) + 1 \in 1..(Len(held) + 1) /\ 1 <= Len(held) + 1
      BY <1>0
    <3>. QED
      BY <2>1, <3>1 DEF Follows
  <2>. QED
    BY <1>0, <1>3, <2>2, <2>3 DEF IInv, HeldInv
<1>4. pc' = "done" /\ ~raised => seen' = Bytes(at') /\ Ended'
  BY <1>0, <1>3 DEF Ended
<1>5. Ended => Ended'
  BY <1>0 DEF Ended
<1>. QED
  BY <1>0, <1>1, <1>2, <1>4, <1>5, AppReadStep

-----------------------------------------------------------------------------
(* The theorems. *)

\* The server has not handed over a byte when the adapter is called.
LEMMA Initially ==
    ASSUME Init
    PROVE  IInv
<1>0. /\ rq \in Requests /\ arrived = 0 /\ gone = FALSE /\ at = 0 /\ pc = "ask" /\ held = <<>> /\ data = <<>>
      /\ rest = TRUE /\ seen = <<>> /\ raised = FALSE
  BY DEF Init
<1>1. rq.total \in Nat
  BY <1>0, BodyAssumption DEF Requests
<1>2. BodyTypes
  <2>1. held \in Seq(Pieces) /\ data \in Seq(Nat) /\ seen \in Seq(Nat)
    BY <1>0
  <2>2. at \in Nat /\ arrived \in Nat /\ at <= arrived /\ arrived <= rq.total
    BY <1>0, <1>1
  <2>3. gone \in BOOLEAN /\ rest \in BOOLEAN /\ raised \in BOOLEAN /\ pc \in Steps
    BY <1>0 DEF Steps
  <2>. QED
    BY <1>0, <2>1, <2>2, <2>3 DEF BodyTypes
<1>3. <<>> = Bytes(0)
  BY BytesAre
<1>4. ReadingInv /\ LastInv /\ EndInv
  BY <1>0, <1>3 DEF ReadingInv, LastInv, EndInv
<1>5. HeldInv
  <2>. DEFINE cut == [j \in 1..1 |-> 0]
  <2>1. cut \in [1..1 -> Nat] /\ cut[1] = 0 /\ \A i, j \in 1..1 : cut[i] <= cut[j]
    OBVIOUS
  <2>. HIDE DEF cut
  <2>2. Len(held) = 0 /\ Len(held) + 1 = 1 /\ Len(seen) = 0 /\ \A j \in 1..Len(held) : FALSE
    BY <1>0
  <2>3. Follows(cut)
    BY <1>0, <2>1, <2>2 DEF Follows
  <2>. QED
    BY <1>0, <1>3, <2>1, <2>2, <2>3 DEF HeldInv
<1>6. AppSeesItsBody /\ EngineGetsWhole
  BY <1>0 DEF AppSeesItsBody, EngineGetsWhole
<1>. QED
  BY <1>2, <1>4, <1>5, <1>6 DEF IInv

\* A step in which nothing happens.
LEMMA Stutter ==
    ASSUME IInv, UNCHANGED vars
    PROVE  IInv'
<1>0. UNCHANGED <<rq, arrived, gone, at, pc, held, data, rest, body, seen, raised>>
  BY DEF vars
<1>1. BodyTypes' /\ HeldInv'
  BY <1>0, HeldStays DEF IInv, BodyTypes
<1>2. Want' = Want /\ Ended' = Ended
  BY <1>0 DEF Want, Declared, Ended
<1>3. ReadingInv' /\ LastInv' /\ EndInv'
  BY <1>0, <1>2 DEF IInv, ReadingInv, LastInv, EndInv, Over
<1>4. AppSeesItsBody' /\ EngineGetsWhole'
  BY <1>0 DEF IInv, AppSeesItsBody, EngineGetsWhole
<1>. QED
  BY <1>1, <1>3, <1>4 DEF IInv

\* The inductive invariant holds, whatever the request and however its bytes come in: what the app
\* has read, the pieces put back and the server's stream follow one another with no byte missing,
\* none twice (read_body of wsgi.py and asgi.py, _body of django.py).
THEOREM BodyInvariant == Spec => []IInv
<1>1. Init => IInv
  BY Initially
<1>2. IInv /\ [Next]_vars => IInv'
  <2>. SUFFICES ASSUME IInv, [Next]_vars PROVE IInv'
    OBVIOUS
  <2>1. CASE Send \/ Leave
    BY <2>1, ClientStep
  <2>2. CASE Ask
    BY <2>2, AskStep
  <2>3. CASE Read
    BY <2>3, ReadStep
  <2>4. CASE PutBack
    BY <2>4, PutBackStep
  <2>5. CASE Raise
    BY <2>5, RaiseStep
  <2>6. CASE AppReads
    BY <2>6, AppStep
  <2>7. CASE AppHasAll
    BY <2>7, AppHasAllStep
  <2>8. CASE UNCHANGED vars
    BY <2>8, Stutter
  <2>. QED
    BY <2>1, <2>2, <2>3, <2>4, <2>5, <2>6, <2>7, <2>8 DEF Next
<1>. QED
  BY <1>1, <1>2, PTL DEF Spec

\* The app reads the body as if no one had read it before: every byte taken from the server, in
\* order, and all of them if the client stayed, unless a read of the adapter's raised (_Chained of
\* wsgi.py, _replay of asgi.py, the body kept by Django).
THEOREM AppSeesItsBodyTheorem == Spec => []AppSeesItsBody
<1>1. IInv => AppSeesItsBody
  BY DEF IInv
<1>. QED
  BY <1>1, BodyInvariant, PTL

\* The engine is given the whole body, or nothing of one over the cap, unless the client left
\* half-way or a length that is no number hid the body under WSGI.
THEOREM EngineGetsWholeTheorem == Spec => []EngineGetsWhole
<1>1. IInv => EngineGetsWhole
  BY DEF IInv
<1>. QED
  BY <1>1, BodyInvariant, PTL
=============================================================================
