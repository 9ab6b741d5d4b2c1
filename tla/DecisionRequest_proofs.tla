----------------------- MODULE DecisionRequest_proofs -----------------------
(***************************************************************************)
(* What Decision tells of a request's address, of its path and of its      *)
(* query is right for every chain of hops, every config, every path and    *)
(* every query, with the lemmas of Decision_proofs: ResolvesLikeTheChain,  *)
(* UpstreamIsIgnored, DetoursAreCaught, ExemptionNotBorrowed and           *)
(* EncodingHidesNothing.                                                   *)
(***************************************************************************)
EXTENDS Decision_proofs

-----------------------------------------------------------------------------
(* The client's address.                                                   *)

\* The last hop of a chain that lies outside the ranges.
LastOut(chain, ranges, i) ==
    /\ i \in 1..Len(chain) /\ ~Trusted(chain[i], ranges)
    /\ \A j \in (i + 1)..Len(chain) : Trusted(chain[j], ranges)
AllIn(chain, ranges) == \A i \in 1..Len(chain) : Trusted(chain[i], ranges)

\* FirstOutside is that one, if there is one.
LEMMA FirstOutsideIs ==
    ASSUME NEW S, NEW chain \in Seq(S), NEW ranges
    PROVE  /\ AllIn(chain, ranges) => FirstOutside(chain, ranges) = Absent
           /\ \A i : LastOut(chain, ranges, i) => FirstOutside(chain, ranges) = chain[i]
           /\ AllIn(chain, ranges) \/ \E i : LastOut(chain, ranges, i)
<1>. DEFINE n == Len(chain)
            I == {i \in 1..n : ~Trusted(chain[i], ranges)}
            last == IF I # {} THEN Max(I) ELSE 0
<1>1. n \in Nat
  OBVIOUS
<1>2. FirstOutside(chain, ranges) = IF last = 0 THEN Absent ELSE chain[last]
  BY DEF FirstOutside, SelectLastInSeq
<1>3. I # {} => Max(I) \in I /\ \A y \in I : Max(I) >= y
  <2>1. I \in SUBSET (1..n)
    OBVIOUS
  <2>. HIDE DEF I
  <2>. QED
    BY <1>1, <2>1, MaxInside
<1>4. AllIn(chain, ranges) => FirstOutside(chain, ranges) = Absent
  BY <1>2 DEF AllIn
<1>5. ASSUME NEW i, LastOut(chain, ranges, i) PROVE FirstOutside(chain, ranges) = chain[i]
  <2>1. i \in I /\ \A j \in I : j <= i
    BY <1>1, <1>5 DEF LastOut
  <2>2. Max(I) = i
    <3>1. I \in SUBSET Int
      OBVIOUS
    <3>. HIDE DEF I
    <3>. QED
      BY <2>1, <3>1, MaxIs
  <2>. QED
    BY <1>2, <2>1, <2>2
<1>6. I # {} => LastOut(chain, ranges, Max(I))
  <2>1. SUFFICES ASSUME I # {} PROVE LastOut(chain, ranges, Max(I))
    OBVIOUS
  <2>. DEFINE m == Max(I)
  <2>2. m \in I /\ \A y \in I : m >= y
    BY <1>3, <2>1
  <2>. HIDE DEF m
  <2>3. \A j \in (m + 1)..n : j \in 1..n /\ ~(m >= j)
    BY <1>1, <2>2
  <2>4. \A j \in (m + 1)..n : Trusted(chain[j], ranges)
    BY <2>2, <2>3
  <2>. QED
    BY <2>2, <2>4 DEF LastOut, m
<1>7. I = {} => AllIn(chain, ranges)
  BY DEF AllIn
<1>. QED
  <2>. HIDE DEF I
  <2>. QED
    BY <1>4, <1>5, <1>6, <1>7

\* Where Client says the chain of hops ends.
Stands(c, ranges, k) ==
    /\ k \in 0..Len(Hops(c))
    /\ \A j \in (k + 1)..Len(Hops(c)) : Passes(c, j, ranges)
    /\ k > 0 => ~Passes(c, k, ranges)

\* There is one such place.
LEMMA ClientIs ==
    ASSUME NEW c, c.xff \in Seq(Entries), NEW ranges
    PROVE  /\ Stands(c, ranges, Client(c, ranges))
           /\ \A k : Stands(c, ranges, k) => Client(c, ranges) = k
<1>. DEFINE n == Len(Hops(c))
            I == {i \in 1..n : ~Passes(c, i, ranges)}
<1>1. n \in Nat
  <2>1. Hops(c) = Append(c.xff, c.peer) /\ Len(c.xff) \in Nat
    BY DEF Hops
  <2>. DEFINE S == Entries \cup {c.peer}
  <2>2. c.xff \in Seq(S) /\ c.peer \in S
    OBVIOUS
  <2>. QED
    BY <2>1, <2>2
<1>2. \E k : Stands(c, ranges, k)
  <2>1. CASE I = {}
    <3>1. Stands(c, ranges, 0)
      BY <1>1, <2>1 DEF Stands
    <3>. QED
      BY <3>1
  <2>2. CASE I # {}
    <3>. DEFINE m == Max(I)
    <3>1. m \in I /\ \A y \in I : m >= y
      <4>1. I \in SUBSET (1..n)
        OBVIOUS
      <4>. HIDE DEF I, n
      <4>. QED
        BY <1>1, <2>2, <4>1, MaxInside
    <3>. HIDE DEF m
    <3>2. \A j \in (m + 1)..n : j \in 1..n /\ ~(m >= j)
      BY <1>1, <3>1
    <3>3. \A j \in (m + 1)..n : Passes(c, j, ranges)
      BY <3>1, <3>2
    <3>4. Stands(c, ranges, m)
      BY <1>1, <3>1, <3>3 DEF Stands
    <3>. QED
      BY <3>4
  <2>. QED
    BY <2>1, <2>2
<1>3. Client(c, ranges) = CHOOSE k \in 0..n : Stands(c, ranges, k)
  BY Zenon DEF Client, Stands
<1>4. Stands(c, ranges, Client(c, ranges))
  <2>1. \E k \in 0..n : Stands(c, ranges, k)
    BY <1>2 DEF Stands
  <2>. HIDE DEF n
  <2>. QED
    BY <1>3, <2>1
<1>5. ASSUME NEW j, NEW k, Stands(c, ranges, j), Stands(c, ranges, k) PROVE j = k
  <2>1. j \in Int /\ k \in Int /\ j \in 0..n /\ k \in 0..n
    BY <1>1, <1>5 DEF Stands
  <2>2. ~(j < k)
    <3>1. j < k => k \in (j + 1)..n /\ k > 0
      BY <1>1, <2>1
    <3>. QED
      BY <1>5, <3>1 DEF Stands
  <2>3. ~(k < j)
    <3>1. k < j => j \in (k + 1)..n /\ j > 0
      BY <1>1, <2>1
    <3>. QED
      BY <1>5, <3>1 DEF Stands
  <2>. QED
    BY <2>1, <2>2, <2>3
<1>. QED
  BY <1>4, <1>5

\* What a hop of the chain is.
LEMMA HopsAre ==
    ASSUME NEW c, c.xff \in Seq(Entries)
    PROVE  /\ Len(c.xff) \in Nat /\ Len(Hops(c)) = Len(c.xff) + 1
           /\ Hops(c)[Len(c.xff) + 1] = c.peer
           /\ \A i \in 1..Len(c.xff) : Hops(c)[i] = c.xff[i] /\ c.xff[i] \in Entries
<1>1. Hops(c) = Append(c.xff, c.peer) /\ Len(c.xff) \in Nat
  BY DEF Hops
<1>. DEFINE S == Entries \cup {c.peer}
<1>2. c.xff \in Seq(S) /\ c.peer \in S
  OBVIOUS
<1>. HIDE DEF S
<1>3. /\ Len(Append(c.xff, c.peer)) = Len(c.xff) + 1
      /\ Append(c.xff, c.peer)[Len(c.xff) + 1] = c.peer
      /\ \A i \in 1..Len(c.xff) : Append(c.xff, c.peer)[i] = c.xff[i]
  BY <1>2
<1>4. \A i \in 1..Len(c.xff) : c.xff[i] \in Entries
  OBVIOUS
<1>. QED
  BY <1>1, <1>3, <1>4

\* Ranges hold addresses only.
LEMMA TrustedIsValid ==
    ASSUME NEW hop, NEW ranges \in SUBSET Ranges, Trusted(hop, ranges)
    PROVE  hop \in Valid
BY ClientIpAssumption DEF Trusted

\* What Cloudflare's header is worth.
LEMMA CloudflareIs ==
    ASSUME NEW peer, NEW xff, NEW cfg, NEW cf
    PROVE  CloudflareClient(peer, xff, cfg, cf) =
             IF /\ cf \in Valid /\ ~PeerStopsWalk(peer, cfg.cidrs)
                /\ Trusted(FirstOutside(IF peer \in Valid \ Loopback THEN Append(xff, peer) ELSE xff,
                                        cfg.cidrs \ cfg.cloudflare), cfg.cloudflare)
             THEN cf ELSE Absent
BY DEF CloudflareClient

\* Resolve, mode by mode.
LEMMA ResolveIs ==
    ASSUME NEW peer, NEW xff, NEW cfg \in Cfgs, NEW cf
    PROVE  /\ cfg.mode = "none" => Resolve(peer, xff, cfg, cf) = Sock(peer)
           /\ cfg.mode \in {"hops", "vercel"} =>
                Resolve(peer, xff, cfg, cf) =
                  IF xff # <<>> /\ Candidate(xff, cfg) \in Valid THEN Candidate(xff, cfg) ELSE Sock(peer)
           /\ cfg.mode = "cidrs" =>
                Resolve(peer, xff, cfg, cf) =
                  IF CloudflareClient(peer, xff, cfg, cf) # Absent THEN CloudflareClient(peer, xff, cfg, cf)
                  ELSE IF xff # <<>> /\ ~PeerStopsWalk(peer, cfg.cidrs) /\ FirstOutside(xff, cfg.cidrs) \in Valid
                       THEN FirstOutside(xff, cfg.cidrs) ELSE Sock(peer)
           /\ cfg.mode = "hops" => Candidate(xff, cfg) = IF cfg.hops \in DOMAIN xff THEN xff[Len(xff) + 1 - cfg.hops] ELSE Absent
           /\ cfg.mode = "vercel" => Candidate(xff, cfg) = xff[Len(xff)]
<1>. DEFINE viaCf == IF cfg.mode = "cidrs" THEN CloudflareClient(peer, xff, cfg, cf) ELSE Absent
            stopped == cfg.mode = "cidrs" /\ PeerStopsWalk(peer, cfg.cidrs)
            cand == Candidate(xff, cfg)
<1>1. Resolve(peer, xff, cfg, cf) =
        CASE viaCf # Absent -> viaCf
          [] viaCf = Absent /\ (cfg.mode = "none" \/ xff = <<>> \/ stopped) -> Sock(peer)
          [] OTHER -> IF cand \in Valid THEN cand ELSE Sock(peer)
  BY DEF Resolve
<1>. HIDE DEF viaCf, stopped, cand
<1>2. Resolve(peer, xff, cfg, cf) =
        IF viaCf # Absent THEN viaCf
        ELSE IF cfg.mode = "none" \/ xff = <<>> \/ stopped THEN Sock(peer)
             ELSE IF cand \in Valid THEN cand ELSE Sock(peer)
  BY <1>1, Zenon
<1>3. "none" # "cidrs" /\ "hops" # "cidrs" /\ "vercel" # "cidrs" /\ "hops" # "vercel" /\ "none" # "hops" /\ "none" # "vercel"
  OBVIOUS
<1>4. /\ cfg.mode = "hops" => cand = IF cfg.hops \in DOMAIN xff THEN xff[Len(xff) + 1 - cfg.hops] ELSE Absent
      /\ cfg.mode = "vercel" => cand = xff[Len(xff)]
      /\ cfg.mode = "cidrs" => cand = FirstOutside(xff, cfg.cidrs)
  BY <1>3, Zenon DEF cand, Candidate, Last
<1>5. CASE cfg.mode = "cidrs"
  BY <1>2, <1>3, <1>4, <1>5 DEF viaCf, stopped
<1>6. CASE cfg.mode # "cidrs"
  BY <1>2, <1>3, <1>4, <1>6 DEF viaCf, stopped, cand
<1>. QED
  BY <1>5, <1>6

\* The cases.
AddressCase(c) ==
    /\ c.peer \in Entries \cup {Absent} /\ c.cf \in Entries \cup {Absent}
    /\ c.xff \in Seq(Entries) /\ c.cfg \in Cfgs

\* The peer is the client exactly where it stops the walk; where it does not, it is valid, or there is none.
LEMMA PeerIs ==
    ASSUME NEW c, AddressCase(c), NEW ranges \in SUBSET Ranges
    PROVE  /\ ~Passes(c, Len(Hops(c)), ranges) <=> PeerStopsWalk(c.peer, ranges)
           /\ ~PeerStopsWalk(c.peer, ranges) => c.peer \in Valid \cup {Absent}
           /\ \A i \in 1..Len(c.xff) : Passes(c, i, ranges) <=> Trusted(c.xff[i], ranges)
<1>1. /\ Len(c.xff) \in Nat /\ Len(Hops(c)) = Len(c.xff) + 1 /\ Hops(c)[Len(Hops(c))] = c.peer
      /\ \A i \in 1..Len(c.xff) : Hops(c)[i] = c.xff[i] /\ i # Len(Hops(c))
  BY HopsAre DEF AddressCase
<1>2. Trusted(c.peer, ranges) => c.peer \in Valid
  BY TrustedIsValid
<1>3. Absent \notin Valid /\ Loopback \subseteq Valid
  BY ClientIpAssumption DEF Entries
<1>4. Passes(c, Len(Hops(c)), ranges) <=> Trusted(c.peer, ranges) \/ c.peer \in Loopback \cup {Absent}
  BY <1>1, Zenon DEF Passes
<1>5. \A i \in 1..Len(c.xff) : Passes(c, i, ranges) <=> Trusted(c.xff[i], ranges)
  BY <1>1, Zenon DEF Passes
<1>. QED
  BY <1>2, <1>3, <1>4, <1>5 DEF PeerStopsWalk

\* The chain that is searched for an edge: the peer is on it if it is a hop.
EdgeChain(c) == IF c.peer \in Valid \ Loopback THEN Append(c.xff, c.peer) ELSE c.xff

\* Where the peer lets the walk begin, the first hop outside the tenant's own, and that outside all of the
\* trusted, are those at which the chain of hops ends.
LEMMA OutsideIsClient ==
    ASSUME NEW c, AddressCase(c), NEW ranges \in SUBSET Ranges, c.peer \in Valid \cup {Absent}
    PROVE  /\ FirstOutside(EdgeChain(c), ranges) =
                IF Client(c, ranges) = 0 THEN Absent ELSE Hops(c)[Client(c, ranges)]
           /\ Client(c, ranges) \in 0..Len(c.xff) =>
                FirstOutside(c.xff, ranges) = IF Client(c, ranges) = 0 THEN Absent ELSE Hops(c)[Client(c, ranges)]
<1>1. /\ Len(c.xff) \in Nat /\ Len(Hops(c)) = Len(c.xff) + 1 /\ Hops(c)[Len(c.xff) + 1] = c.peer
      /\ \A i \in 1..Len(c.xff) : Hops(c)[i] = c.xff[i]
      /\ c.xff \in Seq(Entries)
  BY HopsAre DEF AddressCase
<1>2. Absent \notin Valid /\ Loopback \subseteq Valid
  BY ClientIpAssumption DEF Entries
<1>. DEFINE n == Len(c.xff)
            k == Client(c, ranges)
<1>3. Stands(c, ranges, k)
  BY <1>1, ClientIs
<1>. HIDE DEF k
<1>4. /\ k \in 0..(n + 1)
      /\ k > 0 => ~Passes(c, k, ranges)
      /\ \A j \in (k + 1)..(n + 1) : Passes(c, j, ranges)
  BY <1>1, <1>3 DEF Stands
<1>5. \A i \in 1..n : Passes(c, i, ranges) <=> Trusted(c.xff[i], ranges)
  BY PeerIs
<1>6. Passes(c, n + 1, ranges) <=> Trusted(c.peer, ranges) \/ c.peer \notin Valid \ Loopback
  <2>1. Passes(c, n + 1, ranges) <=> Trusted(c.peer, ranges) \/ c.peer \in Loopback \cup {Absent}
    BY <1>1, Zenon DEF Passes
  <2>. QED
    BY <1>2, <2>1
<1>7. ASSUME k \in 0..n PROVE FirstOutside(c.xff, ranges) = IF k = 0 THEN Absent ELSE Hops(c)[k]
  <2>1. \A j \in (k + 1)..n : j \in (k + 1)..(n + 1) /\ j \in 1..n
    BY <1>1, <1>7
  <2>2. \A j \in (k + 1)..n : Trusted(c.xff[j], ranges)
    BY <1>4, <1>5, <2>1
  <2>3. CASE k = 0
    <3>1. AllIn(c.xff, ranges)
      BY <2>2, <2>3 DEF AllIn
    <3>. QED
      BY <1>1, <2>3, <3>1, FirstOutsideIs
  <2>4. CASE k # 0
    <3>1. k \in 1..n /\ k > 0
      BY <1>1, <1>7, <2>4
    <3>2. LastOut(c.xff, ranges, k)
      BY <1>4, <1>5, <2>2, <3>1 DEF LastOut
    <3>3. FirstOutside(c.xff, ranges) = c.xff[k]
      BY <1>1, <3>2, FirstOutsideIs
    <3>. QED
      BY <1>1, <2>4, <3>1, <3>3
  <2>. QED
    BY <2>3, <2>4
<1>8. FirstOutside(EdgeChain(c), ranges) = IF k = 0 THEN Absent ELSE Hops(c)[k]
  <2>1. CASE c.peer \notin Valid \ Loopback
    <3>1. Passes(c, n + 1, ranges)
      BY <1>6, <2>1
    <3>2. k # n + 1
      BY <1>1, <1>4, <3>1
    <3>3. k \in 0..n
      BY <1>1, <1>4, <3>2
    <3>. QED
      BY <1>7, <2>1, <3>3 DEF EdgeChain
  <2>2. CASE c.peer \in Valid \ Loopback
    <3>1. EdgeChain(c) = Hops(c)
      BY <2>2 DEF EdgeChain, Hops
    <3>2. Hops(c) \in Seq(Entries \cup {c.peer})
      <4>1. c.xff \in Seq(Entries \cup {c.peer}) /\ c.peer \in Entries \cup {c.peer}
        BY <1>1
      <4>. QED
        BY <4>1 DEF Hops
    <3>3. \A i \in 1..(n + 1) : Passes(c, i, ranges) <=> Trusted(Hops(c)[i], ranges)
      <4>1. ASSUME NEW i \in 1..(n + 1) PROVE Passes(c, i, ranges) <=> Trusted(Hops(c)[i], ranges)
        <5>1. CASE i = n + 1
          BY <1>1, <1>6, <2>2, <5>1
        <5>2. CASE i # n + 1
          <6>1. i \in 1..n
            BY <1>1, <5>2
          <6>. QED
            BY <1>1, <1>5, <6>1
        <5>. QED
          BY <5>1, <5>2
      <4>. QED
        BY <4>1
    <3>4. \A j \in (k + 1)..(n + 1) : Trusted(Hops(c)[j], ranges)
      <4>1. \A j \in (k + 1)..(n + 1) : j \in 1..(n + 1)
        BY <1>1, <1>4
      <4>. QED
        BY <1>4, <3>3, <4>1
    <3>5. CASE k = 0
      <4>1. AllIn(Hops(c), ranges)
        BY <1>1, <3>4, <3>5 DEF AllIn
      <4>. QED
        BY <3>1, <3>2, <3>5, <4>1, FirstOutsideIs
    <3>6. CASE k # 0
      <4>1. k \in 1..(n + 1) /\ k > 0
        BY <1>1, <1>4, <3>6
      <4>2. LastOut(Hops(c), ranges, k)
        BY <1>1, <1>4, <3>3, <3>4, <4>1 DEF LastOut
      <4>3. FirstOutside(Hops(c), ranges) = Hops(c)[k]
        BY <3>2, <4>2, FirstOutsideIs
      <4>. QED
        BY <3>1, <3>6, <4>3
    <3>. QED
      BY <3>5, <3>6
  <2>. QED
    BY <2>1, <2>2
<1>. QED
  BY <1>7, <1>8 DEF k

\* Resolve under a cidrs config.
LEMMA ChainIs ==
    ASSUME NEW c, AddressCase(c), c.cfg.mode = "cidrs"
    PROVE  LET first == Client(c, c.cfg.cidrs \ c.cfg.cloudflare)
               direct == Client(c, c.cfg.cidrs) = Len(Hops(c))
               viaEdge == /\ c.cf \in Valid /\ ~direct
                          /\ first > 0 /\ Trusted(Hops(c)[first], c.cfg.cloudflare)
           IN  Resolve(c.peer, c.xff, c.cfg, c.cf) = IF viaEdge THEN c.cf ELSE Hop(c, Client(c, c.cfg.cidrs))
<1>. DEFINE own == c.cfg.cidrs \ c.cfg.cloudflare
            first == Client(c, own)
            k == Client(c, c.cfg.cidrs)
            n == Len(c.xff)
            direct == k = Len(Hops(c))
            viaEdge == c.cf \in Valid /\ ~direct /\ first > 0 /\ Trusted(Hops(c)[first], c.cfg.cloudflare)
            walk == FirstOutside(c.xff, c.cfg.cidrs)
            stops == PeerStopsWalk(c.peer, c.cfg.cidrs)
            cloud == CloudflareClient(c.peer, c.xff, c.cfg, c.cf)
<1>1. c.cfg.cidrs \in SUBSET Ranges /\ c.cfg.cloudflare \in SUBSET Ranges /\ own \in SUBSET Ranges
  BY DEF AddressCase, Cfgs
<1>2. /\ n \in Nat /\ Len(Hops(c)) = n + 1 /\ Hops(c)[n + 1] = c.peer
      /\ \A i \in 1..n : Hops(c)[i] = c.xff[i]
      /\ c.xff \in Seq(Entries)
  BY HopsAre DEF AddressCase
<1>3. Absent \notin Valid /\ Loopback \subseteq Valid /\ ~Trusted(Absent, c.cfg.cloudflare)
  <2>1. Absent \notin Valid /\ Loopback \subseteq Valid
    BY ClientIpAssumption DEF Entries
  <2>. QED
    BY <1>1, <2>1, TrustedIsValid
<1>4. Stands(c, c.cfg.cidrs, k) /\ Stands(c, own, first)
  BY <1>2, ClientIs
<1>5. k \in 0..(n + 1) /\ first \in 0..(n + 1)
  BY <1>2, <1>4 DEF Stands
<1>6. direct <=> stops
  <2>1. ~Passes(c, n + 1, c.cfg.cidrs) <=> stops
    BY <1>1, <1>2, PeerIs
  <2>2. ASSUME direct PROVE ~Passes(c, n + 1, c.cfg.cidrs)
    <3>1. k = n + 1 /\ k > 0
      BY <1>2, <2>2
    <3>. QED
      BY <1>4, <3>1 DEF Stands
  <2>3. ASSUME ~direct PROVE Passes(c, n + 1, c.cfg.cidrs)
    <3>1. n + 1 \in (k + 1)..Len(Hops(c))
      BY <1>2, <1>5, <2>3
    <3>. QED
      BY <1>4, <3>1 DEF Stands
  <2>. QED
    BY <2>1, <2>2, <2>3
<1>7. cloud = IF /\ c.cf \in Valid /\ ~stops
                 /\ Trusted(FirstOutside(EdgeChain(c), own), c.cfg.cloudflare)
              THEN c.cf ELSE Absent
  BY CloudflareIs DEF EdgeChain
<1>8. Resolve(c.peer, c.xff, c.cfg, c.cf) =
        IF cloud # Absent THEN cloud
        ELSE IF c.xff # <<>> /\ ~stops /\ walk \in Valid THEN walk ELSE Sock(c.peer)
  <2>1. c.cfg \in Cfgs
    BY DEF AddressCase
  <2>. QED
    BY <2>1, ResolveIs
<1>9. ~stops => c.peer \in Valid \cup {Absent}
  BY <1>1, PeerIs
<1>10. cloud = IF viaEdge THEN c.cf ELSE Absent
  <2>1. CASE stops
    BY <1>6, <1>7, <2>1
  <2>2. CASE ~stops
    <3>1. FirstOutside(EdgeChain(c), own) = IF first = 0 THEN Absent ELSE Hops(c)[first]
      BY <1>1, <1>9, <2>2, OutsideIsClient
    <3>2. first = 0 \/ first > 0
      BY <1>2, <1>5
    <3>. HIDE DEF first, own, cloud, stops, direct
    <3>3. viaEdge <=> c.cf \in Valid /\ ~stops /\ Trusted(FirstOutside(EdgeChain(c), own), c.cfg.cloudflare)
      BY <1>3, <1>6, <2>2, <3>1, <3>2
    <3>. QED
      BY <1>7, <3>3
  <2>. QED
    BY <2>1, <2>2
<1>11. (IF c.xff # <<>> /\ ~stops /\ walk \in Valid THEN walk ELSE Sock(c.peer)) = Hop(c, k)
  <2>1. CASE stops
    <3>1. k = n + 1 /\ k # 0
      BY <1>2, <1>6, <2>1
    <3>2. Hop(c, k) = IF c.peer \notin Valid THEN Sock(c.peer) ELSE c.peer
      BY <1>2, <3>1 DEF Hop
    <3>. QED
      BY <2>1, <3>2 DEF Sock
  <2>2. CASE ~stops
    <3>1. k \in 0..n
      BY <1>2, <1>5, <1>6, <2>2
    <3>2. walk = IF k = 0 THEN Absent ELSE Hops(c)[k]
      BY <1>1, <1>9, <2>2, <3>1, OutsideIsClient
    <3>3. CASE k = 0
      BY <1>3, <3>2, <3>3 DEF Hop
    <3>4. CASE k # 0
      <4>1. c.xff # <<>>
        BY <1>2, <3>1, <3>4
      <4>. QED
        BY <2>2, <3>2, <3>4, <4>1 DEF Hop
    <3>. QED
      BY <3>3, <3>4
  <2>. QED
    BY <2>1, <2>2
<1>12. viaEdge => c.cf \in Valid /\ c.cf # Absent
  BY <1>3
<1>. HIDE DEF first, k, n, direct, walk, stops, cloud
<1>13. Resolve(c.peer, c.xff, c.cfg, c.cf) = IF viaEdge THEN c.cf ELSE Hop(c, k)
  <2>. HIDE DEF viaEdge
  <2>. QED
    BY <1>8, <1>10, <1>11, <1>12
<1>. QED
  BY <1>13 DEF first, k, direct, own

\* The same request with one more entry at the left end.
Further(c, e) == [peer |-> c.peer, xff |-> <<e>> \o c.xff, cfg |-> c.cfg, cf |-> c.cf]

\* It is a case, too, with the same entries one place on.
LEMMA FurtherIs ==
    ASSUME NEW c, AddressCase(c), NEW e \in Entries
    PROVE  /\ AddressCase(Further(c, e))
           /\ Len(Further(c, e).xff) = Len(c.xff) + 1
           /\ \A i \in 1..Len(c.xff) : Further(c, e).xff[i + 1] = c.xff[i]
<1>1. c.xff \in Seq(Entries) /\ <<e>> \in Seq(Entries) /\ Len(<<e>>) = 1 /\ Len(c.xff) \in Nat
  BY DEF AddressCase
<1>2. <<e>> \o c.xff \in Seq(Entries) /\ Len(<<e>> \o c.xff) = Len(c.xff) + 1
  BY <1>1
<1>3. ASSUME NEW i \in 1..Len(c.xff) PROVE (<<e>> \o c.xff)[i + 1] = c.xff[i]
  BY <1>1
<1>. QED
  BY <1>2, <1>3 DEF AddressCase, Further

\* Who passes is the same, and so is the hop at which the chain ends, if it does.
LEMMA ClientMoves ==
    ASSUME NEW c, AddressCase(c), NEW e \in Entries, NEW ranges, Client(c, ranges) > 0
    PROVE  /\ Client(Further(c, e), ranges) = Client(c, ranges) + 1
           /\ Hops(Further(c, e))[Client(c, ranges) + 1] = Hops(c)[Client(c, ranges)]
<1>. DEFINE d == Further(c, e)
            n == Len(c.xff)
            k == Client(c, ranges)
<1>1. c.xff \in Seq(Entries) /\ d.xff \in Seq(Entries) /\ d.peer = c.peer
  BY FurtherIs DEF AddressCase, Further
<1>2. /\ n \in Nat /\ Len(Hops(c)) = n + 1 /\ Hops(c)[n + 1] = c.peer
      /\ \A i \in 1..n : Hops(c)[i] = c.xff[i]
  BY <1>1, HopsAre
<1>3. /\ Len(Hops(d)) = n + 2 /\ Hops(d)[n + 2] = c.peer
      /\ \A i \in 1..n : Hops(d)[i + 1] = c.xff[i]
  <2>1. Len(d.xff) = n + 1 /\ \A i \in 1..n : d.xff[i + 1] = c.xff[i]
    BY FurtherIs
  <2>. HIDE DEF d
  <2>2. /\ Len(Hops(d)) = (n + 1) + 1 /\ Hops(d)[(n + 1) + 1] = c.peer
        /\ \A i \in 1..(n + 1) : Hops(d)[i] = d.xff[i]
    BY <1>1, <2>1, HopsAre
  <2>3. (n + 1) + 1 = n + 2 /\ \A i \in 1..n : i + 1 \in 1..(n + 1)
    BY <1>2
  <2>. QED
    BY <2>1, <2>2, <2>3
<1>4. \A i \in 1..(n + 1) : Hops(d)[i + 1] = Hops(c)[i]
  <2>1. ASSUME NEW i \in 1..(n + 1) PROVE Hops(d)[i + 1] = Hops(c)[i]
    <3>1. CASE i = n + 1
      <4>1. i + 1 = n + 2
        BY <1>2, <3>1
      <4>. QED
        BY <1>2, <1>3, <3>1, <4>1
    <3>2. CASE i # n + 1
      <4>1. i \in 1..n
        BY <1>2, <3>2
      <4>. QED
        BY <1>2, <1>3, <4>1
    <3>. QED
      BY <3>1, <3>2
  <2>. QED
    BY <2>1
<1>5. Stands(c, ranges, k)
  BY <1>1, ClientIs
<1>6. k \in 1..(n + 1) /\ ~Passes(c, k, ranges)
  BY <1>2, <1>5 DEF Stands
<1>. HIDE DEF k, d
<1>7. \A i \in 1..(n + 1) : Passes(d, i + 1, ranges) <=> Passes(c, i, ranges)
  <2>1. ASSUME NEW i \in 1..(n + 1) PROVE Passes(d, i + 1, ranges) <=> Passes(c, i, ranges)
    <3>1. (i + 1 = Len(Hops(d))) <=> (i = Len(Hops(c)))
      BY <1>2, <1>3
    <3>2. Hops(d)[i + 1] = Hops(c)[i]
      BY <1>4
    <3>. QED
      BY <3>1, <3>2, Zenon DEF Passes
  <2>. QED
    BY <2>1
<1>8. \A j \in (k + 2)..(n + 2) : Passes(d, j, ranges)
  <2>1. ASSUME NEW j \in (k + 2)..(n + 2) PROVE Passes(d, j, ranges)
    <3>1. j - 1 \in (k + 1)..(n + 1) /\ j - 1 \in 1..(n + 1) /\ (j - 1) + 1 = j
      BY <1>2, <1>6
    <3>2. Passes(c, j - 1, ranges)
      BY <1>2, <1>5, <3>1 DEF Stands
    <3>. QED
      BY <1>7, <3>1, <3>2
  <2>. QED
    BY <2>1
<1>9. Stands(d, ranges, k + 1)
  <2>1. k + 1 \in 0..(n + 2) /\ (k + 1) + 1 = k + 2
    BY <1>2, <1>6
  <2>2. ~Passes(d, k + 1, ranges)
    BY <1>6, <1>7
  <2>. QED
    BY <1>3, <1>8, <2>1, <2>2 DEF Stands
<1>10. Client(d, ranges) = k + 1
  BY <1>1, <1>9, ClientIs
<1>. QED
  BY <1>4, <1>6, <1>10 DEF k, d

\* An entry further to the left changes nothing once a hop has decided.
LEMMA UpstreamIs ==
    ASSUME NEW c, AddressCase(c), Decided(c), NEW e \in Entries
    PROVE  Resolve(c.peer, <<e>> \o c.xff, c.cfg, c.cf) = Resolve(c.peer, c.xff, c.cfg, c.cf)
<1>. DEFINE d == Further(c, e)
            n == Len(c.xff)
<1>1. /\ c.xff \in Seq(Entries) /\ d.xff \in Seq(Entries) /\ n \in Nat /\ c.cfg \in Cfgs
      /\ d.peer = c.peer /\ d.cfg = c.cfg /\ d.cf = c.cf /\ d.xff = <<e>> \o c.xff
      /\ AddressCase(d) /\ Len(d.xff) = n + 1 /\ \A i \in 1..n : d.xff[i + 1] = c.xff[i]
  <2>1. AddressCase(d) /\ Len(d.xff) = n + 1 /\ \A i \in 1..n : d.xff[i + 1] = c.xff[i]
    BY FurtherIs
  <2>2. d.peer = c.peer /\ d.cfg = c.cfg /\ d.cf = c.cf /\ d.xff = <<e>> \o c.xff
    BY DEF Further
  <2>. HIDE DEF d
  <2>. QED
    BY <2>1, <2>2 DEF AddressCase
<1>. HIDE DEF d
<1>2. c.cfg.mode \in {"none", "hops", "vercel", "cidrs"}
  BY <1>1 DEF Cfgs
<1>3. /\ c.cfg.mode = "vercel" => c.xff # <<>>
      /\ c.cfg.mode = "hops" => c.cfg.hops <= n
      /\ c.cfg.mode = "cidrs" => Client(c, c.cfg.cidrs) > 0
  BY Zenon DEF Decided
<1>4. d.xff # <<>> /\ DOMAIN d.xff = 1..(n + 1) /\ DOMAIN c.xff = 1..n
  BY <1>1
<1>. DEFINE Settles(x) == IF x # <<>> /\ Candidate(x, c.cfg) \in Valid THEN Candidate(x, c.cfg) ELSE Sock(c.peer)
<1>5. CASE c.cfg.mode = "none"
  <2>1. Resolve(c.peer, d.xff, c.cfg, c.cf) = Sock(c.peer) /\ Resolve(c.peer, c.xff, c.cfg, c.cf) = Sock(c.peer)
    <3>1. c.cfg \in Cfgs
      BY <1>1
    <3>. QED
      BY <1>5, <3>1, ResolveIs
  <2>. QED
    BY <1>1, <2>1
<1>6. ASSUME c.cfg.mode \in {"hops", "vercel"}, Settles(d.xff) = Settles(c.xff)
      PROVE  Resolve(c.peer, <<e>> \o c.xff, c.cfg, c.cf) = Resolve(c.peer, c.xff, c.cfg, c.cf)
  <2>1. Resolve(c.peer, d.xff, c.cfg, c.cf) = Settles(d.xff) /\ Resolve(c.peer, c.xff, c.cfg, c.cf) = Settles(c.xff)
    <3>1. c.cfg \in Cfgs
      BY <1>1
    <3>. QED
      BY <1>6, <3>1, ResolveIs
  <2>. HIDE DEF Settles
  <2>. QED
    BY <1>1, <1>6, <2>1
<1>7. CASE c.cfg.mode = "vercel"
  <2>1. n \in 1..n
    BY <1>1, <1>3, <1>7
  <2>2. d.xff[Len(d.xff)] = c.xff[n]
    BY <1>1, <2>1
  <2>3. Candidate(d.xff, c.cfg) = Candidate(c.xff, c.cfg)
    BY <1>1, <1>7, <2>2, ResolveIs
  <2>. QED
    BY <1>3, <1>4, <1>7, <1>6, <2>3
<1>8. CASE c.cfg.mode = "hops"
  <2>1. c.cfg.hops \in Nat /\ c.cfg.hops <= n
    BY <1>1, <1>3, <1>8 DEF Cfgs
  <2>2. /\ Candidate(d.xff, c.cfg) = IF c.cfg.hops \in DOMAIN d.xff THEN d.xff[Len(d.xff) + 1 - c.cfg.hops] ELSE Absent
        /\ Candidate(c.xff, c.cfg) = IF c.cfg.hops \in DOMAIN c.xff THEN c.xff[Len(c.xff) + 1 - c.cfg.hops] ELSE Absent
    BY <1>1, <1>8, ResolveIs
  <2>3. CASE c.cfg.hops = 0
    <3>1. Candidate(d.xff, c.cfg) = Absent /\ Candidate(c.xff, c.cfg) = Absent
      BY <1>1, <1>4, <2>2, <2>3
    <3>2. Absent \notin Valid
      BY ClientIpAssumption DEF Entries
    <3>. QED
      BY <1>8, <1>6, <3>1, <3>2
  <2>4. CASE c.cfg.hops # 0
    <3>1. n + 1 - c.cfg.hops \in 1..n /\ (n + 1 - c.cfg.hops) + 1 = Len(d.xff) + 1 - c.cfg.hops
      BY <1>1, <2>1, <2>4
    <3>2. d.xff[Len(d.xff) + 1 - c.cfg.hops] = c.xff[n + 1 - c.cfg.hops]
      BY <1>1, <3>1
    <3>3. Candidate(d.xff, c.cfg) = Candidate(c.xff, c.cfg)
      BY <1>1, <1>4, <2>1, <2>2, <2>4, <3>2
    <3>4. c.xff # <<>>
      BY <1>1, <2>1, <2>4
    <3>. QED
      BY <1>4, <1>8, <1>6, <3>3, <3>4
  <2>. QED
    BY <2>3, <2>4
<1>9. CASE c.cfg.mode = "cidrs"
  <2>. DEFINE own == c.cfg.cidrs \ c.cfg.cloudflare
              all == c.cfg.cidrs
  <2>1. Client(c, all) > 0
    BY <1>3, <1>9
  <2>2. \A i : Passes(c, i, own) => Passes(c, i, all)
    BY DEF Passes, Trusted
  <2>3. Client(c, own) > 0
    <3>1. Stands(c, all, Client(c, all)) /\ Stands(c, own, Client(c, own))
      BY <1>1, ClientIs
    <3>2. SUFFICES ASSUME Client(c, own) = 0 PROVE FALSE
      <4>1. Client(c, own) \in 0..Len(Hops(c)) /\ Len(Hops(c)) \in Nat
        BY <1>1, <3>1, HopsAre DEF Stands
      <4>. QED
        BY <4>1
    <3>3. Client(c, all) \in 1..Len(Hops(c)) /\ ~Passes(c, Client(c, all), all)
      <4>1. Client(c, all) \in 0..Len(Hops(c)) /\ Len(Hops(c)) \in Nat
        BY <1>1, <3>1, HopsAre DEF Stands
      <4>. QED
        BY <2>1, <3>1, <4>1 DEF Stands
    <3>4. \A j \in 1..Len(Hops(c)) : Passes(c, j, own)
      <4>1. \A j \in (Client(c, own) + 1)..Len(Hops(c)) : Passes(c, j, own)
        BY <3>1 DEF Stands
      <4>2. Client(c, own) + 1 = 1
        BY <3>2
      <4>. QED
        BY <4>1, <4>2
    <3>. QED
      BY <2>2, <3>3, <3>4
  <2>4. /\ Client(d, all) = Client(c, all) + 1 /\ Hops(d)[Client(c, all) + 1] = Hops(c)[Client(c, all)]
        /\ Client(d, own) = Client(c, own) + 1 /\ Hops(d)[Client(c, own) + 1] = Hops(c)[Client(c, own)]
    BY <2>1, <2>3, ClientMoves DEF d
  <2>5. Len(Hops(d)) = Len(Hops(c)) + 1 /\ Len(Hops(c)) \in Nat
    BY <1>1, HopsAre
  <2>6. Client(c, all) \in 0..Len(Hops(c)) /\ Client(c, own) \in 0..Len(Hops(c))
    BY <1>1, ClientIs DEF Stands
  <2>. DEFINE Edge(x) == /\ x.cf \in Valid /\ ~(Client(x, all) = Len(Hops(x)))
                         /\ Client(x, own) > 0 /\ Trusted(Hops(x)[Client(x, own)], c.cfg.cloudflare)
  <2>7. /\ Resolve(c.peer, c.xff, c.cfg, c.cf) = IF Edge(c) THEN c.cf ELSE Hop(c, Client(c, all))
        /\ Resolve(d.peer, d.xff, d.cfg, d.cf) = IF Edge(d) THEN d.cf ELSE Hop(d, Client(d, all))
    BY <1>1, <1>9, ChainIs
  <2>. HIDE DEF own, all
  <2>8. Edge(d) <=> Edge(c)
    BY <1>1, <2>1, <2>3, <2>4, <2>5, <2>6
  <2>9. Hop(d, Client(d, all)) = Hop(c, Client(c, all))
    <3>1. Client(d, all) # 0 /\ Client(c, all) # 0
      BY <2>1, <2>4, <2>5, <2>6
    <3>. QED
      BY <1>1, <2>4, <3>1 DEF Hop
  <2>. HIDE DEF Edge
  <2>. QED
    BY <1>1, <2>7, <2>8, <2>9
<1>. QED
  BY <1>2, <1>5, <1>7, <1>8, <1>9

\* What was told of an address is what Resolve answers.
AddressesRight ==
    about = "address" => asked \in AddressCases /\ told = Resolve(asked.peer, asked.xff, asked.cfg, asked.cf)

\* AddressesRight is inductive: only AskAddress tells of an address.
LEMMA AddressesRightInvariant == Spec => []AddressesRight
<1>1. Init => AddressesRight
  BY DEF Init, AddressesRight
<1>2. AddressesRight /\ [Next]_vars => AddressesRight'
  <2>. SUFFICES ASSUME AddressesRight, [Next]_vars PROVE AddressesRight'
    OBVIOUS
  <2>1. CASE AskAddress
    BY <2>1 DEF AskAddress, Ask, AddressesRight
  <2>2. CASE AskLookup \/ AskPath \/ AskVerdict \/ AskContainer \/ AskCadence \/ AskQuery
    <3>1. about' # "address"
      BY <2>2 DEF AskLookup, AskPath, AskVerdict, AskContainer, AskCadence, AskQuery, Ask
    <3>. QED
      BY <3>1 DEF AddressesRight
  <2>3. CASE UNCHANGED vars
    BY <2>3 DEF AddressesRight, vars
  <2>. QED
    BY <2>1, <2>2, <2>3 DEF Next
<1>. QED
  BY <1>1, <1>2, PTL DEF Spec

\* ResolvesLikeTheChain: for any tenant's ranges and any chain, resolve_client_ip answers with the hop at
\* which the chain of vouched-for hops ends, or with what an edge says of the client.
THEOREM ChainTheorem == Spec => []ResolvesLikeTheChain
<1>1. AddressesRight => ResolvesLikeTheChain
  <2>1. SUFFICES ASSUME AddressesRight, about = "address", asked.cfg.mode = "cidrs" PROVE ResolvesLikeTheChain
    BY DEF ResolvesLikeTheChain, About
  <2>2. AddressCase(asked) /\ told = Resolve(asked.peer, asked.xff, asked.cfg, asked.cf)
    BY <2>1, DecisionAssumption DEF AddressesRight, AddressCase
  <2>. QED
    BY <2>1, <2>2, ChainIs DEF ResolvesLikeTheChain
<1>. QED
  BY <1>1, AddressesRightInvariant, PTL

\* UpstreamIsIgnored: in every mode, what a visitor writes to the left of the hop that decides changes
\* nothing.
THEOREM UpstreamTheorem == Spec => []UpstreamIsIgnored
<1>1. AddressesRight => UpstreamIsIgnored
  <2>1. SUFFICES ASSUME AddressesRight, about = "address", Decided(asked) PROVE UpstreamIsIgnored
    BY DEF UpstreamIsIgnored, About
  <2>2. AddressCase(asked) /\ told = Resolve(asked.peer, asked.xff, asked.cfg, asked.cf)
    BY <2>1, DecisionAssumption DEF AddressesRight, AddressCase
  <2>. QED
    BY <2>1, <2>2, UpstreamIs DEF UpstreamIsIgnored
<1>. QED
  BY <1>1, AddressesRightInvariant, PTL

-----------------------------------------------------------------------------
(* The forms of a path.                                                    *)

\* A segment of a path or of a detour, and what canon_path makes of one: with `dots`, never a dot
\* segment.
Spelled == [name : Names \cup {"a"}, plain : BOOLEAN, param : BOOLEAN]
Special(dots) == IF dots THEN {"", ".", ".."} ELSE {""}
Cleaned(dots) == {Plain(x) : x \in (Names \cup {"a"}) \ Special(dots)}
\* f[k] is what canon_path has made of the first k segments.
WalksPath(f, p, dots) == f[0] = <<>> /\ \A k \in 1..Len(p) : f[k] = Step(f[k - 1], p[k], dots)

\* A step leaves cleaned segments.
LEMMA StepType ==
    ASSUME NEW dots \in BOOLEAN, NEW segs \in Seq(Cleaned(dots)), NEW s \in Spelled
    PROVE  Step(segs, s, dots) \in Seq(Cleaned(dots))
<1>1. CASE s.name = "" \/ (dots /\ s.name = ".")
  <2>1. Step(segs, s, dots) = segs
    BY <1>1, Zenon DEF Step
  <2>. QED
    BY <2>1
<1>2. CASE ~(s.name = "" \/ (dots /\ s.name = ".")) /\ dots /\ s.name = ".."
  <2>1. Step(segs, s, dots) = IF segs = <<>> THEN <<>> ELSE Front(segs)
    BY <1>2, Zenon DEF Step
  <2>2. CASE segs = <<>>
    BY <2>1, <2>2
  <2>3. CASE segs # <<>>
    <3>1. Len(segs) - 1 \in 0..Len(segs)
      BY <2>3
    <3>2. SubSeq(segs, 1, Len(segs) - 1) \in Seq(Cleaned(dots))
      BY <3>1
    <3>. QED
      BY <2>1, <2>3, <3>2 DEF Front
  <2>. QED
    BY <2>2, <2>3
<1>3. CASE ~(s.name = "" \/ (dots /\ s.name = ".")) /\ ~(dots /\ s.name = "..")
  <2>1. Step(segs, s, dots) = Append(segs, Canonical(s))
    BY <1>3, Zenon DEF Step
  <2>2. s.name \in (Names \cup {"a"}) \ Special(dots)
    BY <1>3 DEF Spelled, Special
  <2>3. Canonical(s) \in Cleaned(dots)
    BY <2>2 DEF Canonical, Cleaned
  <2>. QED
    BY <2>1, <2>3
<1>. QED
  BY <1>1, <1>2, <1>3

\* canon_path takes the segments one by one.
LEMMA CanonChain ==
    ASSUME NEW p \in Seq(Spelled), NEW dots \in BOOLEAN
    PROVE  \E f \in [0..Len(p) -> Seq(Cleaned(dots))] : WalksPath(f, p, dots) /\ CanonPath(p, dots) = f[Len(p)]
<1>1. PICK n \in Nat : p \in [1..n -> Spelled]
  BY DEF Seq
<1>2. Len(p) = n
  BY <1>1
<1>. DEFINE A == Seq(Cleaned(dots))
            Op(segs, i) == Step(segs, p[i], dots)
            Body(h) == [s \in SUBSET (1..n) |-> IF s = {} THEN <<>> ELSE Op(h[s \ {Max(s)}], Max(s))]
            F == CHOOSE h : h = Body(h)
            step == [i \in 1..n |-> [segs \in A |-> Op(segs, i)]]
<1>3. CanonPath(p, dots) = F[1..n]
  BY <1>1 DEF CanonPath, FoldLeft, MapThenFoldSet
<1>4. <<>> \in A /\ step \in [1..n -> [A -> A]]
  <2>1. ASSUME NEW i \in 1..n, NEW segs \in A PROVE Op(segs, i) \in A
    BY <1>1, StepType
  <2>. HIDE DEF Op
  <2>2. step \in [1..n -> [A -> A]]
    <3>. HIDE DEF A
    <3>. QED
      BY <2>1
  <2>. QED
    BY <2>2
<1>. HIDE DEF A, Op
<1>5. PICK iter \in [SUBSET (1..n) -> A] : FoldsTo(iter, 1..n, <<>>, step)
  <2>. HIDE DEF step
  <2>. QED
    BY <1>1, <1>4, FoldExists
<1>6. ASSUME NEW s \in SUBSET (1..n), s # {} PROVE Max(s) \in 1..n
  BY <1>1, <1>6, MaxInside
<1>7. iter = Body(iter)
  <2>1. ASSUME NEW s \in SUBSET (1..n) PROVE iter[s] = IF s = {} THEN <<>> ELSE Op(iter[s \ {Max(s)}], Max(s))
    <3>1. CASE s = {}
      BY <1>5, <3>1 DEF FoldsTo
    <3>2. CASE s # {}
      <4>1. s \ {Max(s)} \in SUBSET (1..n) /\ Max(s) \in 1..n
        BY <1>6, <3>2
      <4>2. iter[s] = step[Max(s)][iter[s \ {Max(s)}]]
        BY <1>5, <3>2 DEF FoldsTo
      <4>3. iter[s \ {Max(s)}] \in A
        BY <1>5, <4>1
      <4>. QED
        BY <3>2, <4>1, <4>2, <4>3
    <3>. QED
      BY <3>1, <3>2
  <2>. QED
    BY <1>5, <2>1
<1>8. F = Body(F)
  <2>. HIDE DEF Body
  <2>. QED
    BY <1>7
<1>9. \A s \in SUBSET (1..n) : F[s] = IF s = {} THEN <<>> ELSE Op(F[s \ {Max(s)}], Max(s))
  <2>1. \A h : \A s \in SUBSET (1..n) : Body(h)[s] = IF s = {} THEN <<>> ELSE Op(h[s \ {Max(s)}], Max(s))
    OBVIOUS
  <2>. HIDE DEF F, Body
  <2>. QED
    BY <1>8, <2>1
<1>. HIDE DEF F
<1>. DEFINE f == [k \in 0..n |-> F[1..k]]
<1>10. f[0] = <<>>
  <2>1. 1..0 = {}
    OBVIOUS
  <2>2. {} \in SUBSET (1..n) /\ 0 \in 0..n
    BY <1>1
  <2>3. F[{}] = <<>>
    BY <1>9, <2>2
  <2>. QED
    BY <2>1, <2>2, <2>3
<1>11. ASSUME NEW k \in 1..n PROVE f[k] = Op(f[k - 1], k)
  <2>1. k \in Nat \ {0} /\ k \in 0..n /\ k - 1 \in 0..n /\ 1..k \in SUBSET (1..n)
    BY <1>1
  <2>2. Max(1..k) = k /\ (1..k) \ {k} = 1..(k - 1) /\ 1..k # {}
    BY <2>1, MaxInterval
  <2>3. F[1..k] = Op(F[1..(k - 1)], k)
    BY <1>9, <2>1, <2>2
  <2>. QED
    BY <2>1, <2>3
<1>12. \A k \in 0..n : f[k] \in A
  <2>. DEFINE S == {k \in Nat : k <= n => f[k] \in A}
  <2>. HIDE DEF f
  <2>1. 0 \in S
    BY <1>4, <1>10
  <2>2. \A k \in S : k + 1 \in S
    <3>1. SUFFICES ASSUME NEW k \in Nat, k \in S, k + 1 <= n PROVE f[k + 1] \in A
      OBVIOUS
    <3>2. f[k] \in A /\ k + 1 \in 1..n /\ (k + 1) - 1 = k
      BY <1>1, <3>1
    <3>3. f[k + 1] = Op(f[k], k + 1)
      BY <1>11, <3>2
    <3>4. Op(f[k], k + 1) \in A
      <4>1. p[k + 1] \in Spelled
        BY <1>1, <3>2
      <4>. QED
        BY <3>2, <4>1, StepType DEF A, Op
    <3>. QED
      BY <3>3, <3>4
  <2>3. S = Nat
    <3>1. S \in SUBSET Nat
      OBVIOUS
    <3>. HIDE DEF S
    <3>. QED
      BY <2>1, <2>2, <3>1, Induction
  <2>. QED
    BY <1>1, <2>3
<1>13. f \in [0..n -> A]
  BY <1>12
<1>14. f[n] = F[1..n]
  BY <1>1
<1>. HIDE DEF f
<1>15. WalksPath(f, p, dots)
  BY <1>2, <1>10, <1>11 DEF WalksPath, Op
<1>. QED
  BY <1>2, <1>3, <1>13, <1>14, <1>15 DEF A

\* What canon_path resolves a path to is canonical.
LEMMA FullIsCanon ==
    ASSUME NEW p \in Seq(Spelled)
    PROVE  Full(p) \in Seq(Cleaned(TRUE)) /\ IsCanon(Full(p))
<1>1. PICK f \in [0..Len(p) -> Seq(Cleaned(TRUE))] : CanonPath(p, TRUE) = f[Len(p)]
  BY CanonChain
<1>2. Len(p) \in 0..Len(p)
  OBVIOUS
<1>3. Full(p) \in Seq(Cleaned(TRUE))
  BY <1>1, <1>2 DEF Full
<1>4. ASSUME NEW i \in DOMAIN Full(p)
      PROVE  Full(p)[i] = Canonical(Full(p)[i]) /\ Full(p)[i].name \notin {"", ".", ".."}
  <2>1. Full(p)[i] \in Cleaned(TRUE)
    BY <1>3
  <2>2. PICK x \in (Names \cup {"a"}) \ Special(TRUE) : Full(p)[i] = Plain(x)
    BY <2>1 DEF Cleaned
  <2>3. Plain(x).name = x
    BY DEF Plain
  <2>4. x \notin {"", ".", ".."}
    BY DEF Special
  <2>. QED
    BY <2>2, <2>3, <2>4 DEF Canonical
<1>. QED
  BY <1>3, <1>4 DEF IsCanon

\* A canonical path is left as it is.
LEMMA CanonStays ==
    ASSUME NEW p \in Seq(Spelled), IsCanon(p), NEW dots \in BOOLEAN
    PROVE  CanonPath(p, dots) = p
<1>1. PICK f \in [0..Len(p) -> Seq(Cleaned(dots))] : WalksPath(f, p, dots) /\ CanonPath(p, dots) = f[Len(p)]
  BY CanonChain
<1>. DEFINE S == {k \in Nat : k <= Len(p) => f[k] = SubSeq(p, 1, k)}
<1>2. 0 \in S
  BY <1>1 DEF WalksPath
<1>3. \A k \in S : k + 1 \in S
  <2>1. SUFFICES ASSUME NEW k \in Nat, k \in S, k + 1 <= Len(p) PROVE f[k + 1] = SubSeq(p, 1, k + 1)
    OBVIOUS
  <2>2. f[k] = SubSeq(p, 1, k) /\ k + 1 \in 1..Len(p) /\ (k + 1) - 1 = k
    BY <2>1
  <2>3. f[k + 1] = Step(SubSeq(p, 1, k), p[k + 1], dots)
    BY <1>1, <2>2 DEF WalksPath
  <2>4. p[k + 1] = Canonical(p[k + 1]) /\ p[k + 1].name \notin {"", ".", ".."}
    <3>1. k + 1 \in DOMAIN p
      BY <2>2
    <3>. QED
      BY <3>1 DEF IsCanon
  <2>5. Step(SubSeq(p, 1, k), p[k + 1], dots) = Append(SubSeq(p, 1, k), Canonical(p[k + 1]))
    BY <2>4, Zenon DEF Step
  <2>6. Append(SubSeq(p, 1, k), p[k + 1]) = SubSeq(p, 1, k + 1)
    BY <2>2
  <2>. QED
    BY <2>3, <2>4, <2>5, <2>6
<1>4. S = Nat
  <2>1. S \in SUBSET Nat
    OBVIOUS
  <2>. HIDE DEF S
  <2>. QED
    BY <1>2, <1>3, <2>1, Induction
<1>5. f[Len(p)] = SubSeq(p, 1, Len(p))
  BY <1>4
<1>6. SubSeq(p, 1, Len(p)) = p
  OBVIOUS
<1>. QED
  BY <1>1, <1>5, <1>6

\* Two walks that have come to the same segments and go on alike end alike.
LEMMA WalksAgree ==
    ASSUME NEW f, NEW g, NEW p, NEW q, NEW a \in Nat, NEW b \in Nat, NEW n \in Nat,
           WalksPath(f, p, TRUE), WalksPath(g, q, TRUE), Len(p) \in Nat, Len(q) \in Nat,
           a + n <= Len(p), b + n <= Len(q),
           f[a] = g[b], \A j \in 1..n : p[a + j] = q[b + j]
    PROVE  f[a + n] = g[b + n]
<1>. DEFINE S == {j \in Nat : j <= n => f[a + j] = g[b + j]}
<1>1. 0 \in S
  OBVIOUS
<1>2. \A j \in S : j + 1 \in S
  <2>1. SUFFICES ASSUME NEW j \in Nat, j \in S, j + 1 <= n PROVE f[a + (j + 1)] = g[b + (j + 1)]
    OBVIOUS
  <2>2. f[a + j] = g[b + j] /\ p[a + (j + 1)] = q[b + (j + 1)]
    <3>1. j <= n /\ j + 1 \in 1..n
      BY <2>1
    <3>. QED
      BY <2>1, <3>1
  <2>3. a + (j + 1) \in 1..Len(p) /\ (a + (j + 1)) - 1 = a + j
    BY <2>1
  <2>4. b + (j + 1) \in 1..Len(q) /\ (b + (j + 1)) - 1 = b + j
    BY <2>1
  <2>5. f[a + (j + 1)] = Step(f[a + j], p[a + (j + 1)], TRUE)
    BY <2>3 DEF WalksPath
  <2>6. g[b + (j + 1)] = Step(g[b + j], q[b + (j + 1)], TRUE)
    BY <2>4 DEF WalksPath
  <2>. QED
    BY <2>2, <2>5, <2>6
<1>3. S = Nat
  <2>1. S \in SUBSET Nat
    OBVIOUS
  <2>. HIDE DEF S
  <2>. QED
    BY <1>1, <1>2, <2>1, Induction
<1>4. n \in S
  <2>. HIDE DEF S
  <2>. QED
    BY <1>3
<1>. QED
  BY <1>4
\* The segments of a detour.
LEMMA DetourIs ==
    ASSUME NEW d \in Detours
    PROVE  /\ d \in Seq(Spelled)
           /\ \/ Len(d) = 2 /\ d[1] = Plain("a") /\ d[2] = Plain("..")
              \/ Len(d) = 1 /\ d[1].name \in {"", "."}
<1>1. "" \in Names /\ "." \in Names /\ ".." \in Names
  BY PathAssumption
<1>2. \A x \in Names \cup {"a"} : Plain(x) \in Spelled /\ Plain(x).name = x
  BY DEF Plain, Spelled
<1>3. \A x, y \in Spelled : <<x>> \in Seq(Spelled) /\ <<x, y>> \in Seq(Spelled)
  OBVIOUS
<1>4. \A x, y : /\ Len(<<x>>) = 1 /\ <<x>>[1] = x
                /\ Len(<<x, y>>) = 2 /\ <<x, y>>[1] = x /\ <<x, y>>[2] = y
  OBVIOUS
<1>5. CASE d = <<Plain("a"), Plain("..")>>
  <2>1. d \in Seq(Spelled)
    BY <1>1, <1>2, <1>3, <1>5, Zenon
  <2>. QED
    BY <1>4, <1>5, <2>1, Zenon
<1>6. ASSUME NEW x \in {"", "."}, d = <<Plain(x)>>
      PROVE  d \in Seq(Spelled) /\ Len(d) = 1 /\ d[1].name \in {"", "."}
  <2>1. x \in Names
    BY <1>1, <1>6
  <2>2. d \in Seq(Spelled)
    BY <1>2, <1>3, <1>6, <2>1, Zenon
  <2>3. Len(d) = 1 /\ d[1].name = x
    BY <1>2, <1>4, <1>6, <2>1, Zenon
  <2>. QED
    BY <1>6, <2>2, <2>3
<1>. QED
  BY <1>5, <1>6 DEF Detours, Empty

Detoured(p, k, d) == SubSeq(p, 1, k) \o d \o SubSeq(p, k + 1, Len(p))
\* A detour through a directory and back, or a segment that says nothing, leaves what a path resolves
\* to; and the path it is in is not canonical.
LEMMA DetourResolves ==
    ASSUME NEW p \in Seq(Spelled), NEW k \in 0..Len(p), NEW d \in Detours
    PROVE  Full(Detoured(p, k, d)) = Full(p) /\ ~IsCanon(Detoured(p, k, d))
<1>. DEFINE q == Detoured(p, k, d)
            m == Len(d)
<1>3. d \in Seq(Spelled) /\ m \in 1..2
  <2>1. d \in Seq(Spelled) /\ (m = 1 \/ m = 2)
    BY DetourIs, Zenon
  <2>. HIDE DEF m
  <2>. QED
    BY <2>1
<1>4. Len(p) \in Nat /\ k \in Nat /\ k <= Len(p)
  OBVIOUS
<1>5. /\ SubSeq(p, 1, k) \in Seq(Spelled) /\ Len(SubSeq(p, 1, k)) = k
      /\ \A i \in 1..k : SubSeq(p, 1, k)[i] = p[i]
  BY <1>4
<1>6. /\ SubSeq(p, k + 1, Len(p)) \in Seq(Spelled) /\ Len(SubSeq(p, k + 1, Len(p))) = Len(p) - k
      /\ \A i \in 1..(Len(p) - k) : SubSeq(p, k + 1, Len(p))[i] = p[k + i]
  BY <1>4
<1>7. /\ q \in Seq(Spelled) /\ Len(q) = Len(p) + m
      /\ \A i \in 1..k : q[i] = p[i]
      /\ \A i \in 1..m : q[k + i] = d[i]
      /\ \A i \in 1..(Len(p) - k) : q[(k + m) + i] = p[k + i]
  <2>. DEFINE before == SubSeq(p, 1, k)
              after == SubSeq(p, k + 1, Len(p))
  <2>. HIDE DEF before, after
  <2>1. before \in Seq(Spelled) /\ Len(before) = k /\ after \in Seq(Spelled) /\ Len(after) = Len(p) - k
    BY <1>5, <1>6 DEF before, after
  <2>2. q = before \o d \o after
    BY DEF before, after, Detoured
  <2>3. /\ before \o d \in Seq(Spelled) /\ Len(before \o d) = k + m
        /\ \A i \in 1..k : (before \o d)[i] = before[i]
        /\ \A i \in 1..m : (before \o d)[k + i] = d[i]
    <3>1. before \in Seq(Spelled) /\ d \in Seq(Spelled)
      BY <1>3, <2>1
    <3>2. /\ before \o d \in Seq(Spelled) /\ Len(before \o d) = Len(before) + m
          /\ \A i \in 1..Len(before) : (before \o d)[i] = before[i]
          /\ \A i \in 1..m : (before \o d)[Len(before) + i] = d[i]
      BY <3>1, Joined
    <3>. QED
      BY <2>1, <3>2
  <2>. DEFINE left == before \o d
  <2>. HIDE DEF left, q
  <2>4. left \in Seq(Spelled) /\ Len(left) = k + m /\ q = left \o after
    BY <2>2, <2>3 DEF left
  <2>5. /\ q \in Seq(Spelled) /\ Len(q) = Len(p) + m
        /\ \A i \in 1..(k + m) : q[i] = left[i]
        /\ \A i \in 1..(Len(p) - k) : q[(k + m) + i] = after[i]
    <3>1. /\ left \o after \in Seq(Spelled) /\ Len(left \o after) = Len(left) + Len(after)
          /\ \A i \in 1..Len(left) : (left \o after)[i] = left[i]
          /\ \A i \in 1..Len(after) : (left \o after)[Len(left) + i] = after[i]
      <4>1. left \in Seq(Spelled) /\ after \in Seq(Spelled)
        BY <2>1, <2>4
      <4>. QED
        BY <4>1, Joined
    <3>. QED
      BY <1>3, <1>4, <2>1, <2>4, <3>1
  <2>6. \A i \in 1..k : i \in 1..(k + m)
    BY <1>3, <1>4
  <2>7. \A i \in 1..m : k + i \in 1..(k + m)
    BY <1>3, <1>4
  <2>8. (\A i \in 1..k : left[i] = p[i]) /\ \A i \in 1..m : left[k + i] = d[i]
    BY <1>5, <2>3 DEF left, before
  <2>9. \A i \in 1..(Len(p) - k) : after[i] = p[k + i]
    BY <1>6 DEF after
  <2>. QED
    BY <2>5, <2>6, <2>7, <2>8, <2>9
<1>. HIDE DEF q
<1>8. PICK f \in [0..Len(p) -> Seq(Cleaned(TRUE))] : WalksPath(f, p, TRUE) /\ CanonPath(p, TRUE) = f[Len(p)]
  BY CanonChain
<1>9. PICK g \in [0..Len(q) -> Seq(Cleaned(TRUE))] : WalksPath(g, q, TRUE) /\ CanonPath(q, TRUE) = g[Len(q)]
  BY <1>7, CanonChain
<1>10. f[k] = g[k]
  <2>1. f[0 + k] = g[0 + k]
    <3>1. f[0] = g[0] /\ \A j \in 1..k : p[0 + j] = q[0 + j]
      BY <1>4, <1>7, <1>8, <1>9 DEF WalksPath
    <3>2. 0 + k <= Len(p) /\ 0 + k <= Len(q) /\ Len(q) \in Nat
      BY <1>3, <1>4, <1>7
    <3>. QED
      BY <1>4, <1>8, <1>9, <3>1, <3>2, WalksAgree
  <2>. QED
    BY <1>4, <2>1
<1>11. g[k + m] = g[k]
  <2>1. g[k] \in Seq(Cleaned(TRUE))
    BY <1>3, <1>4, <1>7, <1>9
  <2>2. ASSUME NEW i \in 1..m PROVE g[k + i] = Step(g[k + (i - 1)], d[i], TRUE)
    <3>1. k + i \in 1..Len(q) /\ (k + i) - 1 = k + (i - 1)
      BY <1>3, <1>4, <1>7
    <3>2. g[k + i] = Step(g[(k + i) - 1], q[k + i], TRUE)
      BY <1>9, <3>1 DEF WalksPath
    <3>. QED
      BY <1>7, <3>1, <3>2
  <2>3. CASE m = 2 /\ d[1] = Plain("a") /\ d[2] = Plain("..")
    <3>1. m = 2 /\ d[1] = Plain("a") /\ d[2] = Plain("..")
      BY <2>3
    <3>2. g[k + 1] = Step(g[k], Plain("a"), TRUE) /\ g[k + 2] = Step(g[k + 1], Plain(".."), TRUE)
      BY <1>4, <2>2, <3>1
    <3>3. Plain("a").name = "a" /\ Plain("..").name = ".." /\ Canonical(Plain("a")) = Plain("a")
      BY DEF Plain, Canonical
    <3>4. "a" # "" /\ "a" # "." /\ "a" # ".." /\ ".." # "" /\ ".." # "."
      OBVIOUS
    <3>5. Step(g[k], Plain("a"), TRUE) = Append(g[k], Plain("a"))
      BY <3>3, <3>4, Zenon DEF Step
    <3>6. Step(g[k + 1], Plain(".."), TRUE) = IF g[k + 1] = <<>> THEN <<>> ELSE Front(g[k + 1])
      BY <3>3, <3>4, Zenon DEF Step
    <3>7. Append(g[k], Plain("a")) # <<>> /\ Front(Append(g[k], Plain("a"))) = g[k]
      <4>. DEFINE e == g[k]
                  x == Plain("a")
      <4>1. e \in Seq(Cleaned(TRUE))
        BY <2>1
      <4>2. x \in Cleaned(TRUE)
        BY <3>4 DEF Cleaned, Special
      <4>. HIDE DEF e, x
      <4>3. Len(Append(e, x)) = Len(e) + 1 /\ SubSeq(Append(e, x), 1, Len(e)) = e /\ Append(e, x) # <<>>
        BY <4>1, <4>2
      <4>. QED
        BY <4>1, <4>3 DEF Front, e, x
    <3>. QED
      BY <3>1, <3>2, <3>5, <3>6, <3>7
  <2>4. CASE m = 1 /\ d[1].name \in {"", "."}
    <3>1. m = 1 /\ d[1].name \in {"", "."}
      BY <2>4
    <3>2. g[k + 1] = Step(g[k], d[1], TRUE)
      <4>1. 1 \in 1..m /\ k + (1 - 1) = k
        <5>1. m = 1
          BY <3>1
        <5>. HIDE DEF m
        <5>. QED
          BY <1>4, <5>1
      <4>. QED
        BY <2>2, <4>1
    <3>3. Step(g[k], d[1], TRUE) = g[k]
      BY <3>1, Zenon DEF Step
    <3>. QED
      BY <3>1, <3>2, <3>3
  <2>. QED
    BY <2>3, <2>4, DetourIs
<1>12. f[Len(p)] = g[Len(q)]
  <2>. DEFINE b == k + m
              n == Len(p) - k
  <2>1. f[k + n] = g[b + n]
    <3>1. f[k] = g[b] /\ \A j \in 1..n : p[k + j] = q[b + j]
      BY <1>7, <1>10, <1>11
    <3>2. k + n <= Len(p) /\ b + n <= Len(q) /\ Len(q) \in Nat /\ b \in Nat /\ n \in Nat
      BY <1>3, <1>4, <1>7
    <3>. HIDE DEF b, n, m
    <3>. QED
      BY <1>4, <1>8, <1>9, <3>1, <3>2, WalksAgree
  <2>2. k + n = Len(p) /\ b + n = Len(q)
    BY <1>3, <1>4, <1>7
  <2>. QED
    BY <2>1, <2>2
<1>13. ~IsCanon(q)
  <2>1. d[m].name \in {"", ".", ".."}
    <3>1. Plain("..").name = ".."
      BY DEF Plain
    <3>. QED
      BY <3>1, DetourIs
  <2>2. m \in 1..m /\ k + m \in 1..Len(q)
    <3>1. m \in 1..2 /\ Len(q) = Len(p) + m
      BY <1>3, <1>7
    <3>. HIDE DEF m
    <3>. QED
      BY <1>4, <3>1
  <2>3. q[k + m] = d[m] /\ k + m \in DOMAIN q
    BY <1>7, <2>2
  <2>. QED
    BY <2>1, <2>3 DEF IsCanon
<1>. QED
  BY <1>8, <1>9, <1>12, <1>13 DEF Full, q

\* A canonical path fires what lies on or above it, of a deny rule and of an exemption.
LEMMA CanonFires ==
    ASSUME NEW dirs, NEW p, IsCanon(p), NEW deny \in BOOLEAN
    PROVE  Fires(dirs, p, deny) = Prefixed(dirs, p)
<1>1. Forms(p)[1] = p /\ Forms(p)[2] = p /\ Forms(p)[3] = p
  BY DEF Forms
<1>. DEFINE hits == [i \in 1..3 |-> Prefixed(dirs, Forms(p)[i])]
<1>2. \A i \in 1..3 : hits[i] = Prefixed(dirs, p)
  BY <1>1
<1>3. Fires(dirs, p, deny) = PathHit(hits, deny)
  BY DEF Fires
<1>. HIDE DEF hits
<1>4. PathHit(hits, deny) <=> Prefixed(dirs, p)
  <2>1. CASE deny = TRUE
    BY <1>2, <2>1 DEF PathHit
  <2>2. CASE deny = FALSE
    BY <1>2, <2>2 DEF PathHit
  <2>. QED
    BY <2>1, <2>2
<1>5. PathHit(hits, deny) \in BOOLEAN /\ Prefixed(dirs, p) \in BOOLEAN
  <2>1. Prefixed(dirs, p) \in BOOLEAN
    BY DEF Prefixed
  <2>2. PathHit(hits, deny) \in BOOLEAN
    BY <1>2, <2>1 DEF PathHit
  <2>. QED
    BY <2>1, <2>2
<1>. QED
  BY <1>3, <1>4, <1>5

\* Any other path fires on its three forms.
LEMMA FormsFire ==
    ASSUME NEW dirs, NEW p, ~IsCanon(p)
    PROVE  /\ Fires(dirs, p, TRUE) <=> Prefixed(dirs, p) \/ Prefixed(dirs, Lit(p)) \/ Prefixed(dirs, Full(p))
           /\ Fires(dirs, p, FALSE) <=> Prefixed(dirs, Lit(p)) /\ Prefixed(dirs, Full(p))
<1>1. Forms(p)[1] = p /\ Forms(p)[2] = Lit(p) /\ Forms(p)[3] = Full(p)
  BY DEF Forms
<1>. DEFINE hits == [i \in 1..3 |-> Prefixed(dirs, Forms(p)[i])]
<1>2. hits[1] = Prefixed(dirs, p) /\ hits[2] = Prefixed(dirs, Lit(p)) /\ hits[3] = Prefixed(dirs, Full(p))
  BY <1>1
<1>3. Fires(dirs, p, TRUE) = PathHit(hits, TRUE) /\ Fires(dirs, p, FALSE) = PathHit(hits, FALSE)
  BY DEF Fires
<1>. HIDE DEF hits
<1>4. PathHit(hits, TRUE) <=> \E i \in 1..3 : hits[i]
  BY DEF PathHit
<1>5. PathHit(hits, FALSE) <=> hits[2] /\ hits[3]
  BY DEF PathHit
<1>6. \A i \in 1..3 : i = 1 \/ i = 2 \/ i = 3
  OBVIOUS
<1>7. (\E i \in 1..3 : hits[i]) <=> hits[1] \/ hits[2] \/ hits[3]
  BY <1>6
<1>8. PathHit(hits, TRUE) <=> Prefixed(dirs, p) \/ Prefixed(dirs, Lit(p)) \/ Prefixed(dirs, Full(p))
  BY <1>2, <1>4, <1>7
<1>9. PathHit(hits, FALSE) <=> Prefixed(dirs, Lit(p)) /\ Prefixed(dirs, Full(p))
  BY <1>2, <1>5
<1>. QED
  BY <1>3, <1>8, <1>9

\* What was told of a path is what the two kinds of rule make of it.
PathsRight ==
    about = "path" => /\ asked \in PathCases
                      /\ told = [deny   |-> Fires(asked.dirs, asked.path, TRUE),
                                 exempt |-> Fires(asked.dirs, asked.path, FALSE)]

\* PathsRight is inductive: only AskPath tells of paths.
LEMMA PathsRightInvariant == Spec => []PathsRight
<1>1. Init => PathsRight
  BY DEF Init, PathsRight
<1>2. PathsRight /\ [Next]_vars => PathsRight'
  <2>. SUFFICES ASSUME PathsRight, [Next]_vars PROVE PathsRight'
    OBVIOUS
  <2>1. CASE AskPath
    BY <2>1 DEF AskPath, Ask, PathsRight
  <2>2. CASE AskAddress \/ AskLookup \/ AskVerdict \/ AskContainer \/ AskCadence \/ AskQuery
    <3>1. about' # "path"
      BY <2>2 DEF AskAddress, AskLookup, AskVerdict, AskContainer, AskCadence, AskQuery, Ask
    <3>. QED
      BY <3>1 DEF PathsRight
  <2>3. CASE UNCHANGED vars
    BY <2>3 DEF PathsRight, vars
  <2>. QED
    BY <2>1, <2>2, <2>3 DEF Next
<1>. QED
  BY <1>1, <1>2, PTL DEF Spec

\* The path of a case is one of spelled segments.
LEMMA CasePath ==
    ASSUME NEW c \in PathCases
    PROVE  c.path \in Seq(Spelled)
<1>1. c.path \in Seq(Segments)
  BY DecisionAssumption
<1>2. \A s \in Segments : s \in Spelled
  BY DEF Segments, Spelled
<1>3. PICK n \in Nat : c.path \in [1..n -> Segments]
  BY <1>1 DEF Seq
<1>4. c.path \in [1..n -> Spelled]
  BY <1>2, <1>3
<1>. QED
  BY <1>4 DEF Seq

\* DetoursAreCaught: for any names, directories and path, no detour, /./ or // gets a path past a deny
\* rule that fires on what it resolves to.
THEOREM DetoursTheorem == Spec => []DetoursAreCaught
<1>1. ASSUME PathsRight PROVE DetoursAreCaught
  <2>1. SUFFICES ASSUME about = "path", Fires(asked.dirs, Full(asked.path), TRUE),
                        NEW k \in 0..Len(asked.path), NEW d \in Detours
                 PROVE  Fires(asked.dirs, Detoured(asked.path, k, d), TRUE)
    BY DEF DetoursAreCaught, About, Detoured
  <2>2. asked.path \in Seq(Spelled)
    BY <1>1, <2>1, CasePath DEF PathsRight
  <2>3. IsCanon(Full(asked.path))
    BY <2>2, FullIsCanon
  <2>4. Prefixed(asked.dirs, Full(asked.path))
    BY <2>1, <2>3, CanonFires
  <2>5. Full(Detoured(asked.path, k, d)) = Full(asked.path) /\ ~IsCanon(Detoured(asked.path, k, d))
    BY <2>2, DetourResolves
  <2>. QED
    BY <2>4, <2>5, FormsFire
<1>. QED
  BY <1>1, PathsRightInvariant, PTL

\* ExemptionNotBorrowed: for any names, directories and path, an exemption fires only on a path that
\* says and resolves to what is exempt, and that a deny rule would have caught.
THEOREM ExemptionTheorem == Spec => []ExemptionNotBorrowed
<1>1. ASSUME PathsRight PROVE ExemptionNotBorrowed
  <2>1. SUFFICES ASSUME about = "path", told.exempt
                 PROVE  /\ told.deny /\ Fires(asked.dirs, Full(asked.path), FALSE)
                        /\ Prefixed(asked.dirs, Lit(asked.path))
    BY DEF ExemptionNotBorrowed, About
  <2>2. asked.path \in Seq(Spelled)
    BY <1>1, <2>1, CasePath DEF PathsRight
  <2>3. told.deny = Fires(asked.dirs, asked.path, TRUE) /\ Fires(asked.dirs, asked.path, FALSE)
    <3>1. told = [deny   |-> Fires(asked.dirs, asked.path, TRUE),
                  exempt |-> Fires(asked.dirs, asked.path, FALSE)]
      BY <1>1, <2>1 DEF PathsRight
    <3>2. told.deny = Fires(asked.dirs, asked.path, TRUE) /\ told.exempt = Fires(asked.dirs, asked.path, FALSE)
      BY <3>1, Zenon
    <3>. QED
      BY <2>1, <3>2, Zenon
  <2>4. IsCanon(Full(asked.path))
    BY <2>2, FullIsCanon
  <2>5. CASE IsCanon(asked.path)
    <3>1. Lit(asked.path) = asked.path /\ Full(asked.path) = asked.path
      BY <2>2, <2>5, CanonStays DEF Lit, Full
    <3>2. Prefixed(asked.dirs, asked.path)
      BY <2>3, <2>5, CanonFires
    <3>. QED
      BY <2>3, <2>5, <3>1, <3>2, CanonFires
  <2>6. CASE ~IsCanon(asked.path)
    BY <2>3, <2>4, <2>6, CanonFires, FormsFire
  <2>. QED
    BY <2>5, <2>6
<1>. QED
  BY <1>1, PathsRightInvariant, PTL
-----------------------------------------------------------------------------
(* The parts of a query.                                                   *)

Ampersand == Piece("&")
Unsplit == Pieces \ {Ampersand}
\* The parts of a query, one at least, none with the separator.
PartLists == Seq(Seq(Unsplit)) \ {<<>>}
Split(s) == SplitAt(s, LAMBDA x : x = Piece("&"))
SplitStep(parts, x) == IF x = Piece("&") THEN Append(parts, <<>>) ELSE Append(Front(parts), Append(Last(parts), x))
\* f[k] is what the first k pieces have been split into.
SplitsTo(f, s) == f[0] = <<<<>>>> /\ \A k \in 1..Len(s) : f[k] = SplitStep(f[k - 1], s[k])

\* A step adds a part, or a piece to the last.
LEMMA SplitStepType ==
    ASSUME NEW parts \in PartLists, NEW x \in Pieces
    PROVE  SplitStep(parts, x) \in PartLists
<1>1. parts \in Seq(Seq(Unsplit)) /\ parts # <<>>
  BY DEF PartLists
<1>2. CASE x = Piece("&")
  <2>1. <<>> \in Seq(Unsplit)
    OBVIOUS
  <2>2. Append(parts, <<>>) \in Seq(Seq(Unsplit)) /\ Append(parts, <<>>) # <<>>
    BY <1>1, <2>1, Added
  <2>. QED
    BY <1>2, <2>2 DEF SplitStep, PartLists
<1>3. CASE x # Piece("&")
  <2>1. Front(parts) \in Seq(Seq(Unsplit)) /\ Last(parts) \in Seq(Unsplit)
    BY <1>1, FrontAndLast
  <2>2. x \in Unsplit
    BY <1>3 DEF Unsplit, Ampersand
  <2>3. Append(Last(parts), x) \in Seq(Unsplit)
    BY <2>1, <2>2, Added
  <2>. DEFINE longer == Append(Front(parts), Append(Last(parts), x))
  <2>4. longer \in Seq(Seq(Unsplit)) /\ longer # <<>>
    BY <2>1, <2>3, Added
  <2>5. SplitStep(parts, x) = longer
    BY <1>3 DEF SplitStep
  <2>. HIDE DEF longer
  <2>. QED
    BY <2>4, <2>5 DEF PartLists
<1>. QED
  BY <1>2, <1>3

\* A query is split piece by piece.
LEMMA SplitChain ==
    ASSUME NEW q \in Seq(Pieces)
    PROVE  \E f \in [0..Len(q) -> PartLists] : SplitsTo(f, q) /\ Split(q) = f[Len(q)]
<1>1. PICK n \in Nat : q \in [1..n -> Pieces]
  BY DEF Seq
<1>2. Len(q) = n
  BY <1>1
<1>. DEFINE A == PartLists
            Op(parts, i) == SplitStep(parts, q[i])
            Body(h) == [s \in SUBSET (1..n) |-> IF s = {} THEN <<<<>>>> ELSE Op(h[s \ {Max(s)}], Max(s))]
            F == CHOOSE h : h = Body(h)
            step == [i \in 1..n |-> [parts \in A |-> Op(parts, i)]]
<1>3. Split(q) = F[1..n]
  BY <1>1 DEF Split, SplitAt, FoldLeft, MapThenFoldSet, SplitStep
<1>4. <<<<>>>> \in A /\ step \in [1..n -> [A -> A]]
  <2>1. ASSUME NEW i \in 1..n, NEW parts \in A PROVE Op(parts, i) \in A
    BY <1>1, SplitStepType
  <2>. HIDE DEF Op
  <2>2. step \in [1..n -> [A -> A]]
    <3>. HIDE DEF A
    <3>. QED
      BY <2>1
  <2>3. <<<<>>>> \in A
    <3>1. <<<<>>>> \in Seq(Seq(Unsplit)) /\ <<<<>>>> # <<>>
      OBVIOUS
    <3>. QED
      BY <3>1 DEF PartLists
  <2>. QED
    BY <2>2, <2>3
<1>. HIDE DEF A, Op
<1>5. PICK iter \in [SUBSET (1..n) -> A] : FoldsTo(iter, 1..n, <<<<>>>>, step)
  <2>. HIDE DEF step
  <2>. QED
    BY <1>1, <1>4, FoldExists
<1>6. ASSUME NEW s \in SUBSET (1..n), s # {} PROVE Max(s) \in 1..n
  BY <1>1, <1>6, MaxInside
<1>7. iter = Body(iter)
  <2>1. ASSUME NEW s \in SUBSET (1..n) PROVE iter[s] = IF s = {} THEN <<<<>>>> ELSE Op(iter[s \ {Max(s)}], Max(s))
    <3>1. CASE s = {}
      BY <1>5, <3>1 DEF FoldsTo
    <3>2. CASE s # {}
      <4>1. s \ {Max(s)} \in SUBSET (1..n) /\ Max(s) \in 1..n
        BY <1>6, <3>2
      <4>2. iter[s] = step[Max(s)][iter[s \ {Max(s)}]]
        BY <1>5, <3>2 DEF FoldsTo
      <4>3. iter[s \ {Max(s)}] \in A
        BY <1>5, <4>1
      <4>. QED
        BY <3>2, <4>1, <4>2, <4>3
    <3>. QED
      BY <3>1, <3>2
  <2>. QED
    BY <1>5, <2>1
<1>8. F = Body(F)
  <2>. HIDE DEF Body
  <2>. QED
    BY <1>7
<1>9. \A s \in SUBSET (1..n) : F[s] = IF s = {} THEN <<<<>>>> ELSE Op(F[s \ {Max(s)}], Max(s))
  <2>1. \A h : \A s \in SUBSET (1..n) : Body(h)[s] = IF s = {} THEN <<<<>>>> ELSE Op(h[s \ {Max(s)}], Max(s))
    OBVIOUS
  <2>. HIDE DEF F, Body
  <2>. QED
    BY <1>8, <2>1
<1>. HIDE DEF F
<1>. DEFINE f == [k \in 0..n |-> F[1..k]]
<1>10. f[0] = <<<<>>>>
  <2>1. 1..0 = {}
    OBVIOUS
  <2>2. {} \in SUBSET (1..n) /\ 0 \in 0..n
    BY <1>1
  <2>3. F[{}] = <<<<>>>>
    BY <1>9, <2>2
  <2>. QED
    BY <2>1, <2>2, <2>3
<1>11. ASSUME NEW k \in 1..n PROVE f[k] = Op(f[k - 1], k)
  <2>1. k \in Nat \ {0} /\ k \in 0..n /\ k - 1 \in 0..n /\ 1..k \in SUBSET (1..n)
    BY <1>1
  <2>2. Max(1..k) = k /\ (1..k) \ {k} = 1..(k - 1) /\ 1..k # {}
    BY <2>1, MaxInterval
  <2>3. F[1..k] = Op(F[1..(k - 1)], k)
    BY <1>9, <2>1, <2>2
  <2>. QED
    BY <2>1, <2>3
<1>12. \A k \in 0..n : f[k] \in A
  <2>. DEFINE S == {k \in Nat : k <= n => f[k] \in A}
  <2>. HIDE DEF f
  <2>1. 0 \in S
    BY <1>4, <1>10
  <2>2. \A k \in S : k + 1 \in S
    <3>1. SUFFICES ASSUME NEW k \in Nat, k \in S, k + 1 <= n PROVE f[k + 1] \in A
      OBVIOUS
    <3>2. f[k] \in A /\ k + 1 \in 1..n /\ (k + 1) - 1 = k
      BY <1>1, <3>1
    <3>3. f[k + 1] = Op(f[k], k + 1)
      BY <1>11, <3>2
    <3>4. Op(f[k], k + 1) \in A
      <4>1. q[k + 1] \in Pieces
        BY <1>1, <3>2
      <4>. QED
        BY <3>2, <4>1, SplitStepType DEF A, Op
    <3>. QED
      BY <3>3, <3>4
  <2>3. S = Nat
    <3>1. S \in SUBSET Nat
      OBVIOUS
    <3>. HIDE DEF S
    <3>. QED
      BY <2>1, <2>2, <3>1, Induction
  <2>. QED
    BY <1>1, <2>3
<1>13. f \in [0..n -> A]
  BY <1>12
<1>14. f[n] = F[1..n]
  BY <1>1
<1>. HIDE DEF f
<1>15. SplitsTo(f, q)
  BY <1>2, <1>10, <1>11 DEF SplitsTo, Op
<1>. QED
  BY <1>2, <1>3, <1>13, <1>14, <1>15 DEF A

\* One piece more takes one step more.
LEMMA SplitAdd ==
    ASSUME NEW s \in Seq(Pieces), NEW x \in Pieces
    PROVE  Split(s) \in PartLists /\ Split(Append(s, x)) = SplitStep(Split(s), x)
<1>. DEFINE n == Len(s)
            t == Append(s, x)
<1>1. n \in Nat /\ t \in Seq(Pieces) /\ Len(t) = n + 1 /\ t[n + 1] = x /\ \A i \in 1..n : t[i] = s[i]
  BY Added
<1>. HIDE DEF t
<1>2. PICK f \in [0..n -> PartLists] : SplitsTo(f, s) /\ Split(s) = f[n]
  BY SplitChain
<1>3. PICK g \in [0..Len(t) -> PartLists] : SplitsTo(g, t) /\ Split(t) = g[Len(t)]
  BY <1>1, SplitChain
<1>4. f[0] = <<<<>>>> /\ \A k \in 1..n : f[k] = SplitStep(f[k - 1], s[k])
  BY <1>2 DEF SplitsTo
<1>5. g[0] = <<<<>>>> /\ \A k \in 1..(n + 1) : g[k] = SplitStep(g[k - 1], t[k])
  BY <1>1, <1>3 DEF SplitsTo
<1>. HIDE DEF n
<1>. DEFINE N == {k \in Nat : k <= n => g[k] = f[k]}
<1>6. 0 \in N
  BY <1>1, <1>4, <1>5
<1>7. \A k \in N : k + 1 \in N
  <2>1. SUFFICES ASSUME NEW k \in N, k + 1 <= n PROVE g[k + 1] = f[k + 1]
    OBVIOUS
  <2>2. k + 1 \in 1..n /\ k + 1 \in 1..(n + 1) /\ (k + 1) - 1 = k /\ g[k] = f[k]
    <3>1. k \in Nat /\ k <= n
      BY <1>1, <2>1
    <3>2. g[k] = f[k]
      BY <3>1
    <3>. QED
      BY <1>1, <2>1, <3>1, <3>2
  <2>3. f[k + 1] = SplitStep(f[k], s[k + 1]) /\ g[k + 1] = SplitStep(g[k], t[k + 1])
    BY <1>4, <1>5, <2>2
  <2>. QED
    BY <1>1, <2>2, <2>3
<1>8. N = Nat
  <2>1. N \in SUBSET Nat
    OBVIOUS
  <2>. HIDE DEF N
  <2>. QED
    BY <1>6, <1>7, <2>1, Induction
<1>9. g[n] = f[n]
  <2>1. n \in N
    <3>. HIDE DEF N
    <3>. QED
      BY <1>1, <1>8
  <2>. QED
    BY <2>1
<1>10. g[n + 1] = SplitStep(g[n], x)
  <2>1. n + 1 \in 1..(n + 1) /\ (n + 1) - 1 = n
    BY <1>1
  <2>. QED
    BY <1>1, <1>5, <2>1
<1>11. f[n] \in PartLists
  BY <1>1, <1>2
<1>. QED
  BY <1>1, <1>2, <1>3, <1>9, <1>10, <1>11 DEF t

\* Nothing is split into one empty part.
LEMMA SplitEmpty == Split(<<>>) = <<<<>>>>
<1>1. <<>> \in Seq(Pieces) /\ Len(<<>>) = 0
  OBVIOUS
<1>2. PICK f \in [0..Len(<<>>) -> PartLists] : SplitsTo(f, <<>>) /\ Split(<<>>) = f[Len(<<>>)]
  BY <1>1, SplitChain
<1>. QED
  BY <1>1, <1>2 DEF SplitsTo

\* Parts put together again.
Spaced(parts) == [i \in DOMAIN parts |-> (IF i = 1 THEN <<>> ELSE <<Piece("&")>>) \o parts[i]]
Join(parts) == FlattenSeq(Spaced(parts))

\* The pieces the proofs name are pieces, and they differ.
LEMMA PieceTypes ==
    /\ Piece("&") \in Pieces /\ Piece("&") \notin Unsplit
    /\ Piece("=") \in Unsplit /\ Piece("?") \in Unsplit /\ Removed \in Unsplit
    /\ Unsplit \subseteq Pieces
    /\ Removed # Piece("?") /\ Removed # Piece("=") /\ Piece("&") # Piece("?")
<1>1. \A c \in Separators \cup Texts : Piece(c) \in Pieces /\ Piece(c).is = c
  BY DEF Piece, Pieces
<1>2. {"&", "=", "?", "~r"} \subseteq Separators \cup Texts
  BY DEF Separators, Texts
<1>3. \A c \in {"&", "=", "?", "~r"} : Piece(c) \in Pieces /\ Piece(c).is = c
  BY <1>1, <1>2
<1>. QED
  BY <1>3, "&" # "=", "&" # "?", "&" # "~r", "~r" # "?", "~r" # "=" DEF Unsplit, Ampersand, Removed

\* The parts as they are joined, each but the first after a separator.
LEMMA SpacedIs ==
    ASSUME NEW parts \in Seq(Seq(Unsplit))
    PROVE  /\ Spaced(parts) \in Seq(Seq(Pieces)) /\ Len(Spaced(parts)) = Len(parts)
           /\ \A i \in 1..Len(parts) : Spaced(parts)[i] = (IF i = 1 THEN <<>> ELSE <<Piece("&")>>) \o parts[i]
<1>1. PICK n \in Nat : parts \in [1..n -> Seq(Unsplit)]
  BY DEF Seq
<1>2. Len(parts) = n
  BY <1>1
<1>3. ASSUME NEW i \in 1..n PROVE (IF i = 1 THEN <<>> ELSE <<Piece("&")>>) \o parts[i] \in Seq(Pieces)
  <2>1. parts[i] \in Seq(Pieces)
    BY <1>1, PieceTypes, SeqWidens
  <2>2. <<>> \in Seq(Pieces) /\ <<Piece("&")>> \in Seq(Pieces)
    BY PieceTypes
  <2>. QED
    BY <2>1, <2>2
<1>4. Spaced(parts) = [i \in 1..n |-> (IF i = 1 THEN <<>> ELSE <<Piece("&")>>) \o parts[i]]
  BY <1>1 DEF Spaced
<1>5. Spaced(parts) \in [1..n -> Seq(Pieces)]
  BY <1>3, <1>4
<1>6. Spaced(parts) \in Seq(Seq(Pieces)) /\ Len(Spaced(parts)) = n
  BY <1>5
<1>. QED
  BY <1>2, <1>4, <1>6

\* One part is itself; one more comes after a separator.
LEMMA JoinAdd ==
    ASSUME NEW parts \in Seq(Seq(Unsplit)), NEW p \in Seq(Unsplit)
    PROVE  /\ Join(parts) \in Seq(Pieces)
           /\ parts = <<>> => Join(Append(parts, p)) = p
           /\ parts # <<>> => Join(Append(parts, p)) = Append(Join(parts), Piece("&")) \o p
<1>. DEFINE more == Append(parts, p)
            n == Len(parts)
            last == (IF parts = <<>> THEN <<>> ELSE <<Piece("&")>>) \o p
<1>1. /\ n \in Nat /\ more \in Seq(Seq(Unsplit)) /\ Len(more) = n + 1 /\ more[n + 1] = p
      /\ \A i \in 1..n : more[i] = parts[i]
  BY Added
<1>2. p \in Seq(Pieces) /\ <<Piece("&")>> \in Seq(Pieces) /\ <<>> \in Seq(Pieces)
  BY PieceTypes, SeqWidens
<1>3. last \in Seq(Pieces)
  BY <1>2
<1>4. Spaced(parts) \in Seq(Seq(Pieces)) /\ Len(Spaced(parts)) = n
  BY SpacedIs
<1>5. Spaced(more) = Append(Spaced(parts), last)
  <2>. DEFINE sp == Spaced(parts)
              sm == Spaced(more)
              ap == Append(sp, last)
  <2>1. /\ ap \in Seq(Seq(Pieces)) /\ Len(ap) = n + 1 /\ ap[n + 1] = last
        /\ \A i \in 1..n : ap[i] = sp[i]
    BY <1>3, <1>4, Added
  <2>2. /\ sm \in Seq(Seq(Pieces)) /\ Len(sm) = n + 1
        /\ \A i \in 1..(n + 1) : sm[i] = (IF i = 1 THEN <<>> ELSE <<Piece("&")>>) \o more[i]
    <3>. HIDE DEF more
    <3>. QED
      BY <1>1, SpacedIs
  <2>3. \A i \in 1..n : sp[i] = (IF i = 1 THEN <<>> ELSE <<Piece("&")>>) \o parts[i]
    BY SpacedIs
  <2>4. n + 1 = 1 <=> parts = <<>>
    <3>1. n = 0 <=> parts = <<>>
      OBVIOUS
    <3>. QED
      BY <1>1, <3>1
  <2>5. sm[n + 1] = last
    <3>1. sm[n + 1] = (IF n + 1 = 1 THEN <<>> ELSE <<Piece("&")>>) \o more[n + 1]
      <4>1. n + 1 \in 1..(n + 1)
        BY <1>1
      <4>. HIDE DEF sm, more, n
      <4>. QED
        BY <2>2, <4>1
    <3>. HIDE DEF sm, more, n
    <3>. QED
      BY <1>1, <2>4, <3>1
  <2>. HIDE DEF sp, sm, ap, more, last, n
  <2>6. ASSUME NEW i \in 1..(n + 1) PROVE sm[i] = ap[i]
    <3>1. CASE i = n + 1
      BY <2>1, <2>5, <3>1
    <3>2. CASE i # n + 1
      <4>1. i \in 1..n /\ more[i] = parts[i]
        BY <1>1, <3>2
      <4>2. sm[i] = (IF i = 1 THEN <<>> ELSE <<Piece("&")>>) \o more[i] /\ ap[i] = sp[i]
        BY <2>1, <2>2, <4>1
      <4>3. sp[i] = (IF i = 1 THEN <<>> ELSE <<Piece("&")>>) \o parts[i]
        BY <2>3, <4>1
      <4>. QED
        BY <4>1, <4>2, <4>3
    <3>. QED
      BY <3>1, <3>2
  <2>7. sm = ap
    BY <2>1, <2>2, <2>6
  <2>. QED
    BY <2>7 DEF sm, ap, sp
<1>. HIDE DEF last
<1>6. Join(parts) \in Seq(Pieces) /\ Join(more) = Join(parts) \o last
  BY <1>3, <1>4, <1>5, FlattenAdd DEF Join
<1>7. CASE parts = <<>>
  <2>1. Spaced(parts) = <<>>
    BY <1>4, <1>7
  <2>2. Join(parts) = <<>>
    BY <2>1, FlattenEmpty DEF Join
  <2>3. last = <<>> \o p
    BY <1>7 DEF last
  <2>. QED
    BY <1>2, <1>6, <1>7, <2>2, <2>3, JoinedAdd, PieceTypes
<1>8. CASE parts # <<>>
  <2>1. last = <<Piece("&")>> \o p
    BY <1>8 DEF last
  <2>2. Join(parts) \o <<Piece("&")>> = Append(Join(parts), Piece("&"))
    BY <1>2, <1>6, JoinedAdd, PieceTypes
  <2>3. (Join(parts) \o <<Piece("&")>>) \o p = Join(parts) \o (<<Piece("&")>> \o p)
    BY <1>2, <1>6, JoinedAll
  <2>. QED
    BY <1>6, <1>8, <2>1, <2>2, <2>3
<1>. QED
  BY <1>7, <1>8

\* Pieces that are no separator go on with the last part.
LEMMA SplitPlain ==
    ASSUME NEW s \in Seq(Pieces), NEW p \in Seq(Unsplit)
    PROVE  Split(s \o p) = Append(Front(Split(s)), Last(Split(s)) \o p)
<1>. DEFINE parts == Split(s)
            G == {u \in Seq(Unsplit) : Split(s \o u) = Append(Front(parts), Last(parts) \o u)}
<1>1. parts \in Seq(Seq(Unsplit)) /\ parts # <<>>
  <2>1. \E x : x \in Pieces
    BY PieceTypes
  <2>. QED
    BY <2>1, SplitAdd DEF PartLists
<1>2. Front(parts) \in Seq(Seq(Unsplit)) /\ Last(parts) \in Seq(Unsplit) /\ parts = Append(Front(parts), Last(parts))
  <2>. HIDE DEF parts
  <2>. QED
    BY <1>1, FrontAndLast
<1>3. <<>> \in G
  <2>1. <<>> \in Seq(Unsplit) /\ s \o <<>> = s
    OBVIOUS
  <2>2. Last(parts) \o <<>> = Last(parts)
    <3>. HIDE DEF parts
    <3>. QED
      BY <1>2
  <2>. QED
    BY <1>2, <2>1, <2>2
<1>4. ASSUME NEW u \in Seq(Unsplit), u \in G, NEW x \in Unsplit PROVE Append(u, x) \in G
  <2>1. Split(s \o u) = Append(Front(parts), Last(parts) \o u)
    BY <1>4
  <2>2. s \o u \in Seq(Pieces) /\ x \in Pieces /\ x # Piece("&") /\ u \in Seq(Pieces)
    BY PieceTypes, SeqWidens
  <2>3. s \o Append(u, x) = Append(s \o u, x)
    BY <2>2, JoinedAdd
  <2>4. Split(Append(s \o u, x)) = SplitStep(Split(s \o u), x)
    BY <2>2, SplitAdd
  <2>. DEFINE fr == Front(parts)
              la == Last(parts)
  <2>. HIDE DEF parts
  <2>5. fr \in Seq(Seq(Unsplit)) /\ la \in Seq(Unsplit) /\ la \o u \in Seq(Unsplit)
    BY <1>2, <1>4
  <2>. HIDE DEF fr, la
  <2>6. Front(Append(fr, la \o u)) = fr /\ Last(Append(fr, la \o u)) = la \o u
    BY <2>5, Added
  <2>7. SplitStep(Append(fr, la \o u), x) = Append(fr, Append(la \o u, x))
    BY <2>2, <2>6 DEF SplitStep
  <2>8. Append(la \o u, x) = la \o Append(u, x)
    <3>1. la \in Seq(Unsplit) /\ u \in Seq(Unsplit) /\ x \in Unsplit
      BY <1>4, <2>5
    <3>2. la \o Append(u, x) = Append(la \o u, x)
      BY <3>1
    <3>. QED
      BY <3>2
  <2>9. Append(u, x) \in Seq(Unsplit)
    BY <1>4, Added
  <2>10. Split(s \o Append(u, x)) = Append(fr, la \o Append(u, x))
    BY <2>1, <2>3, <2>4, <2>7, <2>8 DEF fr, la
  <2>. QED
    BY <2>9, <2>10 DEF fr, la
<1>5. \A u \in Seq(Unsplit) : u \in G
  <2>. HIDE DEF G
  <2>. QED
    BY <1>3, <1>4, SeqInduction
<1>. QED
  BY <1>5

\* What is split is always parts.
LEMMA SplitType ==
    ASSUME NEW s \in Seq(Pieces)
    PROVE  Split(s) \in Seq(Seq(Unsplit)) /\ Split(s) # <<>>
<1>1. \E x : x \in Pieces
  BY PieceTypes
<1>. QED
  BY <1>1, SplitAdd DEF PartLists

\* Of parts with one more, what comes before the last and the last.
LEMMA PartAdded ==
    ASSUME NEW parts \in Seq(Seq(Unsplit)), NEW p \in Seq(Unsplit)
    PROVE  Front(Append(parts, p)) = parts /\ Last(Append(parts, p)) = p
<1>. QED
  BY Added

\* Parts put together are split into the same parts.
LEMMA SplitJoin ==
    ASSUME NEW parts \in Seq(Seq(Unsplit)), parts # <<>>
    PROVE  Split(Join(parts)) = parts
<1>. DEFINE G == {ps \in Seq(Seq(Unsplit)) : ps # <<>> => Split(Join(ps)) = ps}
<1>1. <<>> \in G
  OBVIOUS
<1>2. ASSUME NEW ps \in Seq(Seq(Unsplit)), ps \in G, NEW p \in Seq(Unsplit) PROVE Append(ps, p) \in G
  <2>1. Append(ps, p) \in Seq(Seq(Unsplit))
    BY <1>2, Added
  <2>2. CASE ps = <<>>
    <3>1. Join(Append(ps, p)) = p
      BY <1>2, <2>2, JoinAdd
    <3>2. <<>> \in Seq(Pieces) /\ <<>> \o p = p
      OBVIOUS
    <3>3. Split(<<>> \o p) = Append(Front(Split(<<>>)), Last(Split(<<>>)) \o p)
      BY <3>2, SplitPlain
    <3>4. Front(<<<<>>>>) = <<>> /\ Last(<<<<>>>>) = <<>>
      <4>1. <<>> \in Seq(Seq(Unsplit)) /\ <<>> \in Seq(Unsplit)
        OBVIOUS
      <4>2. Front(Append(<<>>, <<>>)) = <<>> /\ Last(Append(<<>>, <<>>)) = <<>>
        BY <4>1, PartAdded
      <4>3. Append(<<>>, <<>>) = <<<<>>>>
        OBVIOUS
      <4>. QED
        BY <4>2, <4>3
    <3>5. Split(p) = Append(<<>>, p)
      BY <3>2, <3>3, <3>4, SplitEmpty
    <3>. QED
      BY <2>1, <2>2, <3>1, <3>5
  <2>3. CASE ps # <<>>
    <3>. DEFINE head == Append(Join(ps), Piece("&"))
    <3>1. Join(ps) \in Seq(Pieces) /\ Join(Append(ps, p)) = head \o p
      BY <1>2, <2>3, JoinAdd
    <3>2. head \in Seq(Pieces) /\ Split(head) = SplitStep(Split(Join(ps)), Piece("&"))
      BY <3>1, PieceTypes, Added, SplitAdd
    <3>3. Split(head) = Append(ps, <<>>)
      BY <1>2, <2>3, <3>2 DEF SplitStep
    <3>4. <<>> \in Seq(Unsplit) /\ <<>> \o p = p
      OBVIOUS
    <3>5. Front(Append(ps, <<>>)) = ps /\ Last(Append(ps, <<>>)) = <<>>
      BY <1>2, <3>4, PartAdded
    <3>. HIDE DEF head
    <3>6. Split(head \o p) = Append(Front(Split(head)), Last(Split(head)) \o p)
      BY <3>2, SplitPlain
    <3>7. Split(head \o p) = Append(ps, p)
      BY <3>3, <3>4, <3>5, <3>6
    <3>. QED
      BY <2>1, <3>1, <3>7
  <2>. QED
    BY <2>2, <2>3
<1>3. \A ps \in Seq(Seq(Unsplit)) : ps \in G
  <2>. HIDE DEF G
  <2>. QED
    BY <1>1, <1>2, SeqInduction
<1>. QED
  BY <1>3

\* A piece encoded once: what it reads as is kept, and no piece becomes or ceases to be a plain one.
OncePiece(x) == IF x.layers > 1 THEN [x EXCEPT !.layers = 1] ELSE x
\* Encoded once at most, a piece is of the same kind, and plain if it was.
LEMMA OncePieceIs ==
    ASSUME NEW x \in Pieces
    PROVE  /\ OncePiece(x) \in Pieces /\ OncePiece(x).layers <= 1 /\ OncePiece(x).is = x.is
           /\ \A c : OncePiece(x) = Piece(c) <=> x = Piece(c)
<1>1. x = [is |-> x.is, layers |-> x.layers] /\ x.is \in Separators \cup Texts /\ x.layers \in Nat
  BY DEF Pieces
<1>2. CASE x.layers > 1
  <2>1. OncePiece(x) = [is |-> x.is, layers |-> 1]
    BY <1>1, <1>2 DEF OncePiece
  <2>2. OncePiece(x) \in Pieces /\ OncePiece(x).layers = 1 /\ OncePiece(x).is = x.is
    BY <1>1, <2>1 DEF Pieces
  <2>3. \A c : Piece(c).layers = 0
    BY DEF Piece
  <2>4. x.layers # 0
    BY <1>1, <1>2
  <2>. QED
    BY <2>2, <2>3, <2>4
<1>3. CASE ~(x.layers > 1)
  BY <1>1, <1>3 DEF OncePiece
<1>. QED
  BY <1>2, <1>3

\* A query encoded once, piece by piece.
LEMMA OnceIs ==
    ASSUME NEW s \in Seq(Pieces)
    PROVE  /\ Once(s) \in Seq(Pieces) /\ Len(Once(s)) = Len(s)
           /\ \A i \in 1..Len(s) : Once(s)[i] = OncePiece(s[i])
<1>1. PICK n \in Nat : s \in [1..n -> Pieces]
  BY DEF Seq
<1>2. Len(s) = n
  BY <1>1
<1>3. Once(s) = [i \in 1..n |-> OncePiece(s[i])]
  BY <1>1 DEF Once, OncePiece
<1>4. Once(s) \in [1..n -> Pieces]
  BY <1>1, <1>3, OncePieceIs
<1>. QED
  BY <1>2, <1>3, <1>4

\* Once, piece by piece.
LEMMA OnceAdd ==
    ASSUME NEW s \in Seq(Pieces), NEW x \in Pieces
    PROVE  Once(Append(s, x)) = Append(Once(s), OncePiece(x))
<1>. DEFINE n == Len(s)
            t == Append(s, x)
            ot == Once(t)
            ao == Append(Once(s), OncePiece(x))
<1>1. /\ n \in Nat /\ t \in Seq(Pieces) /\ Len(t) = n + 1 /\ t[n + 1] = x
      /\ \A i \in 1..n : t[i] = s[i]
  BY Added
<1>2. OncePiece(x) \in Pieces /\ Once(s) \in Seq(Pieces) /\ Len(Once(s)) = n /\ \A i \in 1..n : Once(s)[i] = OncePiece(s[i])
  BY OnceIs, OncePieceIs
<1>3. /\ ao \in Seq(Pieces) /\ Len(ao) = n + 1 /\ ao[n + 1] = OncePiece(x)
      /\ \A i \in 1..n : ao[i] = OncePiece(s[i])
  BY <1>2, Added
<1>. HIDE DEF t
<1>4. ot \in Seq(Pieces) /\ Len(ot) = n + 1 /\ \A i \in 1..(n + 1) : ot[i] = OncePiece(t[i])
  BY <1>1, OnceIs
<1>. HIDE DEF ot, ao, n
<1>5. ASSUME NEW i \in 1..(n + 1) PROVE ot[i] = ao[i]
  <2>1. CASE i = n + 1
    BY <1>1, <1>3, <1>4, <2>1
  <2>2. CASE i # n + 1
    <3>1. i \in 1..n
      BY <1>1, <2>2
    <3>. QED
      BY <1>1, <1>3, <1>4, <3>1
  <2>. QED
    BY <2>1, <2>2
<1>6. ot = ao
  BY <1>3, <1>4, <1>5
<1>. QED
  BY <1>6 DEF ot, ao, t

\* Each part encoded once, and each scrubbed.
OnceAll(parts) == [i \in DOMAIN parts |-> Once(parts[i])]
ScrubAll(parts) == [i \in DOMAIN parts |-> ScrubPart(parts[i])]

\* A part has no separator, however it is encoded.
LEMMA OncePart ==
    ASSUME NEW p \in Seq(Unsplit)
    PROVE  /\ Once(p) \in Seq(Unsplit) /\ Len(Once(p)) = Len(p)
           /\ \A i \in 1..Len(p) : Once(p)[i] = OncePiece(p[i])
<1>1. PICK n \in Nat : p \in [1..n -> Unsplit]
  BY DEF Seq
<1>2. Len(p) = n
  BY <1>1
<1>3. Once(p) = [i \in 1..n |-> OncePiece(p[i])]
  BY <1>1 DEF Once, OncePiece
<1>4. \A x \in Unsplit : OncePiece(x) \in Unsplit
  BY OncePieceIs DEF Unsplit, Ampersand
<1>5. Once(p) \in [1..n -> Unsplit]
  BY <1>1, <1>3, <1>4
<1>. QED
  BY <1>2, <1>3, <1>5

\* The parts of a query, each encoded once at most.
LEMMA OnceAllIs ==
    ASSUME NEW parts \in Seq(Seq(Unsplit))
    PROVE  /\ OnceAll(parts) \in Seq(Seq(Unsplit)) /\ Len(OnceAll(parts)) = Len(parts)
           /\ \A i \in 1..Len(parts) : OnceAll(parts)[i] = Once(parts[i])
<1>1. PICK n \in Nat : parts \in [1..n -> Seq(Unsplit)]
  BY DEF Seq
<1>2. Len(parts) = n
  BY <1>1
<1>3. OnceAll(parts) = [i \in 1..n |-> Once(parts[i])]
  BY <1>1 DEF OnceAll
<1>4. OnceAll(parts) \in [1..n -> Seq(Unsplit)]
  BY <1>1, <1>3, OncePart
<1>. QED
  BY <1>2, <1>3, <1>4

\* One part more, with the others.
LEMMA OnceAllAdd ==
    ASSUME NEW parts \in Seq(Seq(Unsplit)), NEW p \in Seq(Unsplit)
    PROVE  OnceAll(Append(parts, p)) = Append(OnceAll(parts), Once(p))
<1>. DEFINE n == Len(parts)
            t == Append(parts, p)
            ot == OnceAll(t)
            ao == Append(OnceAll(parts), Once(p))
<1>1. /\ n \in Nat /\ t \in Seq(Seq(Unsplit)) /\ Len(t) = n + 1 /\ t[n + 1] = p
      /\ \A i \in 1..n : t[i] = parts[i]
  BY Added
<1>2. /\ Once(p) \in Seq(Unsplit) /\ OnceAll(parts) \in Seq(Seq(Unsplit)) /\ Len(OnceAll(parts)) = n
      /\ \A i \in 1..n : OnceAll(parts)[i] = Once(parts[i])
  BY OnceAllIs, OncePart
<1>3. /\ ao \in Seq(Seq(Unsplit)) /\ Len(ao) = n + 1 /\ ao[n + 1] = Once(p)
      /\ \A i \in 1..n : ao[i] = Once(parts[i])
  BY <1>2, Added
<1>. HIDE DEF t
<1>4. ot \in Seq(Seq(Unsplit)) /\ Len(ot) = n + 1 /\ \A i \in 1..(n + 1) : ot[i] = Once(t[i])
  BY <1>1, OnceAllIs
<1>. HIDE DEF ot, ao, n
<1>5. ASSUME NEW i \in 1..(n + 1) PROVE ot[i] = ao[i]
  <2>1. CASE i = n + 1
    BY <1>1, <1>3, <1>4, <2>1
  <2>2. CASE i # n + 1
    <3>1. i \in 1..n
      BY <1>1, <2>2
    <3>. QED
      BY <1>1, <1>3, <1>4, <3>1
  <2>. QED
    BY <2>1, <2>2
<1>6. ot = ao
  BY <1>3, <1>4, <1>5
<1>. QED
  BY <1>6 DEF ot, ao, t

\* Of a query encoded once the parts are those of the query, each encoded once.
LEMMA SplitOnce ==
    ASSUME NEW q \in Seq(Pieces)
    PROVE  Split(Once(q)) = OnceAll(Split(q))
<1>. DEFINE G == {s \in Seq(Pieces) : Split(Once(s)) = OnceAll(Split(s))}
<1>1. Once(<<>>) = <<>>
  BY DEF Once
<1>2. <<>> \in G
  <2>1. <<>> \in Seq(Seq(Unsplit)) /\ <<>> \in Seq(Unsplit) /\ <<>> \in Seq(Pieces)
    OBVIOUS
  <2>2. OnceAll(Append(<<>>, <<>>)) = Append(OnceAll(<<>>), Once(<<>>))
    BY <2>1, OnceAllAdd
  <2>3. OnceAll(<<>>) = <<>>
    BY DEF OnceAll
  <2>4. Append(<<>>, <<>>) = <<<<>>>>
    OBVIOUS
  <2>5. OnceAll(<<<<>>>>) = <<<<>>>>
    BY <1>1, <2>2, <2>3, <2>4
  <2>. QED
    BY <1>1, <2>1, <2>5, SplitEmpty
<1>3. ASSUME NEW s \in Seq(Pieces), s \in G, NEW x \in Pieces PROVE Append(s, x) \in G
  <2>. DEFINE parts == Split(s)
  <2>1. parts \in Seq(Seq(Unsplit)) /\ parts # <<>>
    BY SplitType
  <2>2. Split(Append(s, x)) = SplitStep(parts, x)
    BY SplitAdd
  <2>3. Split(Once(s)) = OnceAll(parts)
    BY <1>3
  <2>. HIDE DEF parts
  <2>4. Once(s) \in Seq(Pieces) /\ OncePiece(x) \in Pieces
    BY OnceIs, OncePieceIs
  <2>5. Split(Append(Once(s), OncePiece(x))) = SplitStep(OnceAll(parts), OncePiece(x))
    BY <2>3, <2>4, SplitAdd
  <2>6. Once(Append(s, x)) = Append(Once(s), OncePiece(x)) /\ Append(s, x) \in Seq(Pieces)
    BY OnceAdd, Added
  <2>7. SplitStep(OnceAll(parts), OncePiece(x)) = OnceAll(SplitStep(parts, x))
    <3>1. CASE x = Piece("&")
      <4>1. OncePiece(x) = Piece("&")
        BY <3>1, OncePieceIs
      <4>2. <<>> \in Seq(Unsplit)
        OBVIOUS
      <4>3. OnceAll(Append(parts, <<>>)) = Append(OnceAll(parts), Once(<<>>))
        BY <2>1, <4>2, OnceAllAdd
      <4>. QED
        BY <1>1, <3>1, <4>1, <4>3 DEF SplitStep
    <3>2. CASE x # Piece("&")
      <4>1. OncePiece(x) # Piece("&") /\ x \in Unsplit
        BY <3>2, OncePieceIs DEF Unsplit, Ampersand
      <4>. DEFINE fr == Front(parts)
                  la == Last(parts)
      <4>2. fr \in Seq(Seq(Unsplit)) /\ la \in Seq(Unsplit) /\ parts = Append(fr, la)
        BY <2>1, FrontAndLast
      <4>3. SplitStep(parts, x) = Append(fr, Append(la, x))
        BY <3>2 DEF SplitStep
      <4>. HIDE DEF fr, la
      <4>4. Append(la, x) \in Seq(Unsplit) /\ la \in Seq(Pieces)
        BY <4>1, <4>2, Added, SeqWidens, PieceTypes
      <4>5. OnceAll(SplitStep(parts, x)) = Append(OnceAll(fr), Once(Append(la, x)))
        BY <4>2, <4>3, <4>4, OnceAllAdd
      <4>6. Once(Append(la, x)) = Append(Once(la), OncePiece(x))
        BY <4>4, OnceAdd
      <4>7. OnceAll(parts) = Append(OnceAll(fr), Once(la))
        BY <4>2, OnceAllAdd
      <4>8. OnceAll(fr) \in Seq(Seq(Unsplit)) /\ Once(la) \in Seq(Unsplit)
        BY <4>2, OnceAllIs, OncePart
      <4>9. Front(OnceAll(parts)) = OnceAll(fr) /\ Last(OnceAll(parts)) = Once(la)
        BY <4>7, <4>8, PartAdded
      <4>. QED
        BY <4>1, <4>5, <4>6, <4>9 DEF SplitStep
    <3>. QED
      BY <3>1, <3>2
  <2>. QED
    BY <2>2, <2>5, <2>6, <2>7
<1>4. \A s \in Seq(Pieces) : s \in G
  <2>. HIDE DEF G
  <2>. QED
    BY <1>2, <1>3, SeqInduction
<1>. QED
  BY <1>4

-----------------------------------------------------------------------------
(* A part, scrubbed.                                                       *)

\* The first place of a sequence that has x.
PlaceOf(s, x, i) == i \in 1..Len(s) /\ s[i] = x /\ \A j \in 1..(i - 1) : s[j] # x

\* First is that place, and 0 if there is none.
LEMMA FirstPlace ==
    ASSUME NEW S, NEW s \in Seq(S), NEW x
    PROVE  \/ First(s, x) = 0 /\ \A i \in 1..Len(s) : s[i] # x
           \/ PlaceOf(s, x, First(s, x))
<1>. DEFINE n == Len(s)
            P == {i \in 1..n : s[i] = x}
<1>1. n \in Nat /\ DOMAIN s = 1..n
  OBVIOUS
<1>2. x \in ToSet(s) <=> P # {}
  BY <1>1 DEF ToSet
<1>3. CASE P = {}
  BY <1>2, <1>3 DEF First
<1>4. CASE P # {}
  <2>. DEFINE Place(i) == s[i] = x /\ \A j \in 1..(i - 1) : s[j] # x
  <2>1. PICK i \in 1..n : Place(i)
    <3>. DEFINE l == FirstOf(P)
    <3>1. l \in P /\ \A j \in P : l <= j
      <4>1. P \in SUBSET (1..n)
        OBVIOUS
      <4>. HIDE DEF P, n
      <4>. QED
        BY <1>1, <1>4, <4>1, FirstIs
    <3>. HIDE DEF l
    <3>2. l \in 1..n /\ s[l] = x
      BY <3>1
    <3>3. \A j \in 1..(l - 1) : j \notin P /\ j \in 1..n
      BY <1>1, <3>1, <3>2
    <3>. QED
      BY <3>2, <3>3
  <2>2. First(s, x) = CHOOSE k \in DOMAIN s : Place(k)
    BY <1>2, <1>4 DEF First
  <2>3. First(s, x) \in 1..n /\ Place(First(s, x))
    <3>. HIDE DEF Place, n
    <3>. QED
      BY <1>1, <2>1, <2>2
  <2>. QED
    BY <2>3 DEF PlaceOf
<1>. QED
  BY <1>3, <1>4

\* There is but one first place.
LEMMA FirstAt ==
    ASSUME NEW S, NEW s \in Seq(S), NEW x, NEW i, PlaceOf(s, x, i)
    PROVE  First(s, x) = i
<1>1. i \in 1..Len(s) /\ s[i] = x /\ \A j \in 1..(i - 1) : s[j] # x
  BY DEF PlaceOf
<1>2. PlaceOf(s, x, First(s, x))
  BY <1>1, FirstPlace
<1>. DEFINE k == First(s, x)
<1>3. k \in 1..Len(s) /\ s[k] = x /\ \A j \in 1..(k - 1) : s[j] # x
  BY <1>2 DEF PlaceOf
<1>. HIDE DEF k
<1>4. ~(k < i) /\ ~(i < k)
  <2>1. ~(k < i)
    <3>1. k < i => k \in 1..(i - 1)
      BY <1>1, <1>3
    <3>. QED
      BY <1>1, <1>3, <3>1
  <2>2. ~(i < k)
    <3>1. i < k => i \in 1..(k - 1)
      BY <1>1, <1>3
    <3>. QED
      BY <1>1, <1>3, <3>1
  <2>. QED
    BY <2>1, <2>2
<1>. QED
  BY <1>1, <1>3, <1>4 DEF k

\* A part is taken if its value would be, or its name.
Hits(p) ==
    IF First(p, Piece("=")) = 0 THEN CredValue(p)
    ELSE CredName(Before(p, First(p, Piece("=")))) \/ CredValue(After(p, First(p, Piece("="))))

\* What is left of a part: all of it, or its name and a mark.
LEMMA ScrubPartIs ==
    ASSUME NEW p
    PROVE  /\ ~Hits(p) => ScrubPart(p) = p
           /\ Hits(p) => ScrubPart(p) = IF First(p, Piece("=")) = 0 THEN <<Removed>>
                                        ELSE Append(SubSeq(p, 1, First(p, Piece("="))), Removed)
<1>. DEFINE eq == First(p, Piece("="))
<1>1. CASE eq = 0
  <2>1. ScrubPart(p) = IF CredValue(p) THEN <<Removed>> ELSE p
    BY <1>1, Zenon DEF ScrubPart
  <2>. QED
    BY <1>1, <2>1 DEF Hits
<1>2. CASE eq # 0
  <2>1. ScrubPart(p) = IF CredName(Before(p, eq)) \/ CredValue(After(p, eq)) THEN Append(SubSeq(p, 1, eq), Removed) ELSE p
    BY <1>2, Zenon DEF ScrubPart
  <2>. QED
    BY <1>2, <2>1 DEF Hits
<1>. QED
  BY <1>1, <1>2

\* A part stays one: it keeps its first piece if it has one, or that is what replaces it; and what has
\* been scrubbed is left as it is.
LEMMA ScrubPartStays ==
    ASSUME NEW p \in Seq(Unsplit)
    PROVE  /\ ScrubPart(p) \in Seq(Unsplit)
           /\ ScrubPart(p) = <<>> \/ ScrubPart(p)[1] = Removed \/ (p # <<>> /\ ScrubPart(p)[1] = p[1])
           /\ ScrubPart(ScrubPart(p)) = ScrubPart(p)
<1>. DEFINE eq == First(p, Piece("="))
            r == ScrubPart(p)
<1>0. Removed \in Unsplit
  BY PieceTypes
<1>1. CASE ~Hits(p)
  BY <1>1, ScrubPartIs
<1>2. CASE Hits(p) /\ eq = 0
  <2>1. r = <<Removed>>
    BY <1>2, ScrubPartIs
  <2>2. r \in Seq(Unsplit) /\ Len(r) = 1 /\ r[1] = Removed
    BY <1>0, <2>1
  <2>3. First(r, Piece("=")) = 0
    <3>1. ~PlaceOf(r, Piece("="), First(r, Piece("=")))
      BY <2>2, PieceTypes DEF PlaceOf
    <3>. HIDE DEF r
    <3>. QED
      BY <2>2, <3>1, FirstPlace
  <2>4. ScrubPart(r) = r
    <3>1. /\ ~Hits(r) => ScrubPart(r) = r
          /\ Hits(r) => ScrubPart(r) = <<Removed>>
      <4>. HIDE DEF r
      <4>. QED
        BY <2>3, ScrubPartIs
    <3>. QED
      BY <2>1, <3>1
  <2>. QED
    BY <2>2, <2>4
<1>3. CASE Hits(p) /\ eq # 0
  <2>. DEFINE h == SubSeq(p, 1, eq)
  <2>1. PlaceOf(p, Piece("="), eq)
    BY <1>3, FirstPlace
  <2>2. eq \in 1..Len(p) /\ p[eq] = Piece("=") /\ \A j \in 1..(eq - 1) : p[j] # Piece("=")
    BY <2>1 DEF PlaceOf
  <2>3. r = Append(h, Removed)
    BY <1>3, ScrubPartIs
  <2>. HIDE DEF eq, r
  <2>4. h \in Seq(Unsplit) /\ Len(h) = eq /\ \A j \in 1..eq : h[j] = p[j]
    BY <2>2, Sides
  <2>. HIDE DEF h
  <2>5. r \in Seq(Unsplit) /\ Len(r) = eq + 1 /\ r # <<>> /\ \A j \in 1..eq : r[j] = p[j]
    BY <1>0, <2>3, <2>4, Added
  <2>6. PlaceOf(r, Piece("="), eq)
    <3>1. eq \in 1..Len(r) /\ \A j \in 1..(eq - 1) : j \in 1..eq
      BY <2>2, <2>5
    <3>. QED
      BY <2>2, <2>5, <3>1 DEF PlaceOf
  <2>7. First(r, Piece("=")) = eq
    BY <2>5, <2>6, FirstAt
  <2>8. SubSeq(r, 1, eq) = h
    <3>1. eq \in 1..Len(r)
      BY <2>2, <2>5
    <3>2. /\ SubSeq(r, 1, eq) \in Seq(Unsplit) /\ Len(SubSeq(r, 1, eq)) = eq
          /\ \A j \in 1..eq : SubSeq(r, 1, eq)[j] = r[j]
      BY <2>5, <3>1, Sides
    <3>. DEFINE g == SubSeq(r, 1, eq)
    <3>. HIDE DEF g
    <3>3. g \in Seq(Unsplit) /\ Len(g) = eq /\ \A j \in 1..eq : g[j] = h[j]
      BY <2>4, <2>5, <3>2 DEF g
    <3>4. g = h
      BY <2>4, <3>3
    <3>. QED
      BY <3>4 DEF g
  <2>9. ScrubPart(r) = r
    <3>1. /\ ~Hits(r) => ScrubPart(r) = r
          /\ Hits(r) => ScrubPart(r) = IF eq = 0 THEN <<Removed>> ELSE Append(SubSeq(r, 1, eq), Removed)
      BY <2>7, ScrubPartIs
    <3>. QED
      BY <1>3, <2>3, <2>8, <3>1 DEF eq
  <2>10. p # <<>> /\ r[1] = p[1]
    <3>1. 1 \in 1..eq
      BY <2>2
    <3>. QED
      BY <2>2, <2>5, <3>1
  <2>. QED
    BY <2>5, <2>9, <2>10 DEF r
<1>. QED
  BY <1>1, <1>2, <1>3

\* Four passes decode text if they decode it encoded once, unless it is too deep: then it is taken.
LEMMA CredOnce ==
    ASSUME NEW s \in Seq(Pieces)
    PROVE  /\ CredValue(s) <=> CredValue(Once(s)) \/ TooDeep(s)
           /\ CredName(s) <=> CredName(Once(s)) \/ TooDeep(s)
<1>. DEFINE Read(q) == [i \in DOMAIN q |-> q[i].is]
<1>1. /\ Once(s) \in Seq(Pieces) /\ Len(Once(s)) = Len(s)
      /\ \A i \in 1..Len(s) : Once(s)[i] = OncePiece(s[i])
  BY OnceIs
<1>2. DOMAIN Once(s) = 1..Len(s) /\ DOMAIN s = 1..Len(s)
  BY <1>1
<1>3. \A i \in 1..Len(s) : s[i] \in Pieces
  OBVIOUS
<1>4. \A i \in 1..Len(s) : Once(s)[i].is = s[i].is /\ Once(s)[i].layers <= 1
  BY <1>1, <1>3, OncePieceIs
<1>5. Read(Once(s)) = Read(s)
  BY <1>2, <1>4
<1>6. ~TooDeep(Once(s))
  <2>1. ASSUME NEW i \in 1..Len(s) PROVE ~(Once(s)[i].layers > DecodePasses)
    <3>1. Once(s)[i].layers \in Nat /\ Once(s)[i].layers <= 1
      <4>1. OncePiece(s[i]) \in Pieces
        BY <1>3, OncePieceIs
      <4>. QED
        BY <1>1, <1>4, <4>1 DEF Pieces
    <3>. QED
      BY <3>1 DEF DecodePasses
  <2>. QED
    BY <1>2, <2>1 DEF TooDeep, ToSet
<1>7. /\ CredValue(Once(s)) <=> SuspectValue(Read(s)) \/ NestedCred(Read(s))
      /\ CredName(Once(s)) <=> SuspectName(Read(s))
  <2>1. Decode(Once(s)) = [ok |-> TRUE, text |-> Read(Once(s))]
    BY <1>6 DEF Decode
  <2>. HIDE DEF Read
  <2>2. Decode(Once(s)).ok /\ Decode(Once(s)).text = Read(s)
    BY <1>5, <2>1
  <2>. QED
    BY <2>2 DEF CredValue, CredName
<1>8. CASE TooDeep(s)
  <2>1. ~Decode(s).ok
    BY <1>8 DEF Decode
  <2>. QED
    BY <1>8, <2>1 DEF CredValue, CredName
<1>9. CASE ~TooDeep(s)
  <2>1. Decode(s) = [ok |-> TRUE, text |-> Read(s)]
    BY <1>9 DEF Decode
  <2>. HIDE DEF Read
  <2>2. Decode(s).ok /\ Decode(s).text = Read(s)
    BY <2>1
  <2>3. /\ CredValue(s) <=> SuspectValue(Read(s)) \/ NestedCred(Read(s))
        /\ CredName(s) <=> SuspectName(Read(s))
    BY <2>2 DEF CredValue, CredName
  <2>. QED
    BY <1>7, <1>9, <2>3
<1>. QED
  BY <1>8, <1>9

\* So a part is taken if it is taken encoded once, and if it is too deep.
LEMMA HitsOnce ==
    ASSUME NEW p \in Seq(Unsplit)
    PROVE  Hits(p) <=> Hits(Once(p)) \/ TooDeep(p)
<1>. DEFINE o == Once(p)
            eq == First(p, Piece("="))
<1>1. /\ o \in Seq(Unsplit) /\ Len(o) = Len(p) /\ \A i \in 1..Len(p) : o[i] = OncePiece(p[i])
  BY OncePart
<1>2. p \in Seq(Pieces)
  BY PieceTypes, SeqWidens
<1>3. \A i \in 1..Len(p) : p[i] \in Pieces /\ (o[i] = Piece("=") <=> p[i] = Piece("="))
  <2>1. \A i \in 1..Len(p) : p[i] \in Pieces
    BY <1>2
  <2>. QED
    BY <1>1, <2>1, OncePieceIs
<1>. HIDE DEF o
<1>4. CASE eq = 0
  <2>1. \A i \in 1..Len(p) : p[i] # Piece("=")
    <3>1. ~PlaceOf(p, Piece("="), eq)
      BY <1>4 DEF PlaceOf
    <3>. QED
      BY <3>1, FirstPlace
  <2>2. First(o, Piece("=")) = 0
    <3>1. ~PlaceOf(o, Piece("="), First(o, Piece("=")))
      BY <1>1, <1>3, <2>1 DEF PlaceOf
    <3>. QED
      BY <1>1, <3>1, FirstPlace
  <2>. QED
    BY <1>2, <1>4, <2>2, CredOnce DEF Hits, o
<1>5. CASE eq # 0
  <2>1. PlaceOf(p, Piece("="), eq)
    BY <1>5, FirstPlace
  <2>. HIDE DEF eq
  <2>2. eq \in 1..Len(p) /\ p[eq] = Piece("=") /\ \A j \in 1..(eq - 1) : p[j] # Piece("=") /\ j \in 1..Len(p)
    BY <2>1 DEF PlaceOf
  <2>3. PlaceOf(o, Piece("="), eq)
    BY <1>1, <1>3, <2>2 DEF PlaceOf
  <2>4. First(o, Piece("=")) = eq
    BY <1>1, <2>3, FirstAt
  <2>5. /\ Before(p, eq) \in Seq(Unsplit) /\ Len(Before(p, eq)) = eq - 1
        /\ \A j \in 1..(eq - 1) : Before(p, eq)[j] = p[j]
        /\ After(p, eq) \in Seq(Unsplit) /\ Len(After(p, eq)) = Len(p) - eq
        /\ \A j \in 1..(Len(p) - eq) : After(p, eq)[j] = p[eq + j]
    <3>1. eq \in 1..Len(p)
      BY <2>2
    <3>. QED
      BY <3>1, Sides
  <2>6. /\ Before(o, eq) \in Seq(Unsplit) /\ Len(Before(o, eq)) = eq - 1
        /\ \A j \in 1..(eq - 1) : Before(o, eq)[j] = o[j]
        /\ After(o, eq) \in Seq(Unsplit) /\ Len(After(o, eq)) = Len(p) - eq
        /\ \A j \in 1..(Len(p) - eq) : After(o, eq)[j] = o[eq + j]
    <3>1. o \in Seq(Unsplit) /\ eq \in 1..Len(o)
      BY <1>1, <2>2
    <3>2. Len(o) = Len(p)
      BY <1>1
    <3>3. /\ Before(o, eq) \in Seq(Unsplit) /\ Len(Before(o, eq)) = eq - 1
          /\ \A j \in 1..(eq - 1) : Before(o, eq)[j] = o[j]
          /\ After(o, eq) \in Seq(Unsplit) /\ Len(After(o, eq)) = Len(o) - eq
          /\ \A j \in 1..(Len(o) - eq) : After(o, eq)[j] = o[eq + j]
      BY <3>1, Sides
    <3>. QED
      BY <3>2, <3>3
  <2>. DEFINE b == Before(p, eq)
              a == After(p, eq)
              ob == Before(o, eq)
              oa == After(o, eq)
  <2>7. b \in Seq(Pieces) /\ a \in Seq(Pieces)
    BY <2>5, PieceTypes, SeqWidens
  <2>8. /\ Once(b) \in Seq(Unsplit) /\ Len(Once(b)) = eq - 1 /\ \A j \in 1..(eq - 1) : Once(b)[j] = OncePiece(b[j])
        /\ Once(a) \in Seq(Unsplit) /\ Len(Once(a)) = Len(p) - eq
        /\ \A j \in 1..(Len(p) - eq) : Once(a)[j] = OncePiece(a[j])
    BY <2>5, OncePart
  <2>. HIDE DEF b, a, ob, oa
  <2>9. ob = Once(b)
    <3>1. ASSUME NEW j \in 1..(eq - 1) PROVE ob[j] = Once(b)[j]
      <4>1. j \in 1..Len(p)
        BY <2>2
      <4>. QED
        BY <1>1, <2>5, <2>6, <2>8, <4>1 DEF ob, b
    <3>2. ob \in Seq(Unsplit) /\ Len(ob) = eq - 1
      BY <2>6 DEF ob
    <3>. QED
      BY <2>8, <3>1, <3>2
  <2>10. oa = Once(a)
    <3>1. ASSUME NEW j \in 1..(Len(p) - eq) PROVE oa[j] = Once(a)[j]
      <4>1. eq + j \in 1..Len(p)
        BY <2>2
      <4>2. oa[j] = o[eq + j] /\ a[j] = p[eq + j]
        BY <2>5, <2>6 DEF oa, a
      <4>. QED
        BY <1>1, <2>8, <4>1, <4>2
    <3>2. oa \in Seq(Unsplit) /\ Len(oa) = Len(p) - eq
      BY <2>6 DEF oa
    <3>. QED
      BY <2>8, <3>1, <3>2
  <2>11. TooDeep(p) <=> TooDeep(b) \/ TooDeep(a)
    <3>1. DOMAIN p = 1..Len(p) /\ DOMAIN b = 1..(eq - 1) /\ DOMAIN a = 1..(Len(p) - eq)
      BY <2>2, <2>5, <2>7 DEF b, a
    <3>2. \A j \in 1..(eq - 1) : j \in 1..Len(p) /\ b[j] = p[j]
      BY <2>2, <2>5 DEF b
    <3>3. \A j \in 1..(Len(p) - eq) : eq + j \in 1..Len(p) /\ a[j] = p[eq + j]
      BY <2>2, <2>5 DEF a
    <3>4. ~(p[eq].layers > DecodePasses)
      BY <2>2 DEF Piece, DecodePasses
    <3>5. ASSUME NEW i \in 1..Len(p), p[i].layers > DecodePasses PROVE TooDeep(b) \/ TooDeep(a)
      <4>1. CASE i < eq
        <5>1. i \in 1..(eq - 1)
          BY <2>2, <4>1
        <5>. QED
          BY <3>1, <3>2, <3>5, <5>1 DEF TooDeep, ToSet
      <4>2. CASE i = eq
        BY <3>4, <3>5, <4>2
      <4>3. CASE i > eq
        <5>1. i - eq \in 1..(Len(p) - eq) /\ eq + (i - eq) = i
          BY <2>2, <4>3
        <5>2. a[i - eq] = p[i]
          BY <3>3, <5>1
        <5>. QED
          BY <3>1, <3>5, <5>1, <5>2 DEF TooDeep, ToSet
      <4>. QED
        BY <2>2, <4>1, <4>2, <4>3
    <3>6. TooDeep(p) => TooDeep(b) \/ TooDeep(a)
      BY <3>1, <3>5 DEF TooDeep, ToSet
    <3>7. TooDeep(b) => TooDeep(p)
      BY <3>1, <3>2 DEF TooDeep, ToSet
    <3>8. TooDeep(a) => TooDeep(p)
      BY <3>1, <3>3 DEF TooDeep, ToSet
    <3>. QED
      BY <3>6, <3>7, <3>8
  <2>12. Hits(p) <=> CredName(b) \/ CredValue(a)
    BY <1>5 DEF Hits, eq, b, a
  <2>13. Hits(o) <=> CredName(Once(b)) \/ CredValue(Once(a))
    <3>1. Hits(o) <=> CredName(ob) \/ CredValue(oa)
      BY <1>5, <2>4 DEF Hits, ob, oa
    <3>. QED
      BY <2>9, <2>10, <3>1
  <2>. QED
    BY <2>7, <2>11, <2>12, <2>13, CredOnce DEF o
<1>. QED
  BY <1>4, <1>5

\* What replaces a part is in it if it was taken, or if it was there before.
LEMMA RemovedIn ==
    ASSUME NEW p \in Seq(Unsplit)
    PROVE  Removed \in ToSet(ScrubPart(p)) <=> Hits(p) \/ Removed \in ToSet(p)
<1>1. CASE ~Hits(p)
  BY <1>1, ScrubPartIs
<1>2. CASE Hits(p) /\ First(p, Piece("=")) = 0
  <2>1. ScrubPart(p) = <<Removed>>
    BY <1>2, ScrubPartIs
  <2>. QED
    BY <1>2, <2>1 DEF ToSet
<1>3. CASE Hits(p) /\ First(p, Piece("=")) # 0
  <2>. DEFINE eq == First(p, Piece("="))
              h == SubSeq(p, 1, eq)
              r == ScrubPart(p)
  <2>1. r = Append(h, Removed)
    BY <1>3, ScrubPartIs
  <2>2. eq \in 1..Len(p)
    BY <1>3, FirstPlace DEF PlaceOf
  <2>. HIDE DEF eq, r
  <2>3. h \in Seq(Unsplit) /\ Removed \in Unsplit
    BY <2>2, Sides, PieceTypes
  <2>. HIDE DEF h
  <2>4. r \in Seq(Unsplit) /\ Len(r) = Len(h) + 1 /\ r[Len(h) + 1] = Removed
    BY <2>1, <2>3, Added
  <2>5. Len(h) + 1 \in DOMAIN r
    <3>1. DOMAIN r = 1..Len(r) /\ Len(h) \in Nat
      BY <2>3, <2>4
    <3>. QED
      BY <2>4, <3>1
  <2>6. Removed \in ToSet(r)
    BY <2>4, <2>5 DEF ToSet
  <2>. QED
    BY <1>3, <2>6 DEF r
<1>. QED
  BY <1>1, <1>2, <1>3

\* A part is marked if, encoded once, it would be, or if it is encoded deeper than is decoded.
LEMMA PartAgrees ==
    ASSUME NEW p \in Seq(Unsplit)
    PROVE  Removed \in ToSet(ScrubPart(p)) <=> Removed \in ToSet(ScrubPart(Once(p))) \/ TooDeep(p)
<1>1. /\ Once(p) \in Seq(Unsplit) /\ Len(Once(p)) = Len(p)
      /\ \A i \in 1..Len(p) : Once(p)[i] = OncePiece(p[i])
  BY OncePart
<1>2. \A i \in 1..Len(p) : Once(p)[i] = Removed <=> p[i] = Removed
  <2>1. \A i \in 1..Len(p) : p[i] \in Pieces
    BY PieceTypes, SeqWidens
  <2>. QED
    BY <1>1, <2>1, OncePieceIs DEF Removed
<1>3. Removed \in ToSet(Once(p)) <=> Removed \in ToSet(p)
  <2>1. DOMAIN Once(p) = 1..Len(p) /\ DOMAIN p = 1..Len(p)
    BY <1>1
  <2>. QED
    BY <1>2, <2>1 DEF ToSet
<1>. QED
  BY <1>1, <1>3, HitsOnce, RemovedIn

-----------------------------------------------------------------------------
(* A query, scrubbed.                                                      *)

\* A query or part does not begin with a ?.
Bare(s) == s = <<>> \/ s[1] # Piece("?")

BeginsAlike(s) ==
    /\ Bare(s) => Bare(Split(s)[1])
    /\ Len(Split(s)) = 1 => Split(s)[1] = s

\* The first part begins as the query does.
LEMMA SplitBare ==
    ASSUME NEW q \in Seq(Pieces), Bare(q)
    PROVE  Bare(Split(q)[1])
<1>. DEFINE G == {s \in Seq(Pieces) : BeginsAlike(s)}
<1>1. <<>> \in G
  BY SplitEmpty DEF BeginsAlike, Bare
<1>2. ASSUME NEW s \in Seq(Pieces), s \in G, NEW x \in Pieces PROVE Append(s, x) \in G
  <2>. DEFINE parts == Split(s)
              t == Append(s, x)
  <2>1. parts \in Seq(Seq(Unsplit)) /\ parts # <<>> /\ Split(t) = SplitStep(parts, x)
    BY SplitType, SplitAdd
  <2>2. t \in Seq(Pieces) /\ Len(t) = Len(s) + 1 /\ t # <<>> /\ \A i \in 1..Len(s) : t[i] = s[i]
    BY Added
  <2>3. Bare(t) => Bare(s)
    <3>1. s # <<>> => 1 \in 1..Len(s)
      OBVIOUS
    <3>. QED
      BY <2>2, <3>1 DEF Bare
  <2>4. Len(parts) \in Nat \ {0} /\ parts = Append(Front(parts), Last(parts)) /\ Front(parts) \in Seq(Seq(Unsplit))
        /\ Last(parts) \in Seq(Unsplit) /\ Len(Front(parts)) = Len(parts) - 1
        /\ \A i \in 1..(Len(parts) - 1) : Front(parts)[i] = parts[i]
    <3>. HIDE DEF parts
    <3>. QED
      BY <2>1, FrontAndLast
  <2>5. /\ Bare(s) => Bare(parts[1])
        /\ Len(parts) = 1 => parts[1] = s
    <3>1. BeginsAlike(s)
      BY <1>2
    <3>. QED
      BY <3>1, Zenon DEF BeginsAlike
  <2>0. SUFFICES BeginsAlike(t)
    BY <2>2
  <2>. HIDE DEF parts, t
  <2>6. CASE x = Piece("&")
    <3>1. Split(t) = Append(parts, <<>>) /\ <<>> \in Seq(Unsplit)
      BY <2>1, <2>6 DEF SplitStep
    <3>2. Len(Append(parts, <<>>)) = Len(parts) + 1 /\ \A i \in 1..Len(parts) : Append(parts, <<>>)[i] = parts[i]
      BY <2>1, <3>1, Added
    <3>3. Split(t)[1] = parts[1] /\ Len(Split(t)) # 1
      BY <2>4, <3>1, <3>2
    <3>. QED
      BY <2>2, <2>3, <2>5, <3>3 DEF t, BeginsAlike
  <2>7. CASE x # Piece("&") /\ Len(parts) = 1
    <3>1. parts[1] = s /\ Last(parts) = s
      BY <2>5, <2>7 DEF Last
    <3>2. Front(parts) = <<>>
      BY <2>4, <2>7
    <3>3. Split(t) = Append(<<>>, t)
      BY <2>1, <2>7, <3>1, <3>2 DEF SplitStep, t
    <3>4. Append(<<>>, t)[1] = t /\ Len(Append(<<>>, t)) = 1
      OBVIOUS
    <3>. QED
      BY <2>2, <3>3, <3>4 DEF t, BeginsAlike
  <2>8. CASE x # Piece("&") /\ Len(parts) # 1
    <3>. DEFINE fr == Front(parts)
                la == Append(Last(parts), x)
    <3>1. Split(t) = Append(fr, la)
      BY <2>1, <2>8 DEF SplitStep
    <3>2. fr \in Seq(Seq(Unsplit)) /\ Len(fr) = Len(parts) - 1 /\ fr[1] = parts[1]
      BY <2>4, <2>8
    <3>3. la \in Seq(Unsplit)
      <4>1. x \in Unsplit
        BY <2>8 DEF Unsplit, Ampersand
      <4>. QED
        BY <2>4, <4>1, Added
    <3>. HIDE DEF fr, la
    <3>4. Len(Append(fr, la)) = Len(fr) + 1 /\ \A i \in 1..Len(fr) : Append(fr, la)[i] = fr[i]
      BY <3>2, <3>3, Added
    <3>5. Split(t)[1] = parts[1] /\ Len(Split(t)) # 1
      BY <2>4, <2>8, <3>1, <3>2, <3>4
    <3>. QED
      BY <2>2, <2>3, <2>5, <3>5 DEF t, BeginsAlike
  <2>. QED
    BY <2>6, <2>7, <2>8
<1>3. \A s \in Seq(Pieces) : s \in G
  <2>. HIDE DEF G
  <2>. QED
    BY <1>1, <1>2, SeqInduction
<1>4. q \in G
  <2>. HIDE DEF G
  <2>. QED
    BY <1>3
<1>. QED
  BY <1>4, Zenon DEF BeginsAlike

\* Parts put together begin as the first of them does, or with a separator.
LEMMA JoinBare ==
    ASSUME NEW parts \in Seq(Seq(Unsplit)), parts # <<>>, Bare(parts[1])
    PROVE  Bare(Join(parts))
<1>. DEFINE G == {ps \in Seq(Seq(Unsplit)) : ps # <<>> /\ Bare(ps[1]) => Bare(Join(ps))}
<1>1. <<>> \in G
  OBVIOUS
<1>2. ASSUME NEW ps \in Seq(Seq(Unsplit)), ps \in G, NEW p \in Seq(Unsplit) PROVE Append(ps, p) \in G
  <2>. DEFINE more == Append(ps, p)
  <2>1. more \in Seq(Seq(Unsplit)) /\ \A i \in 1..Len(ps) : more[i] = ps[i]
    BY Added
  <2>2. SUFFICES ASSUME Bare(more[1]) PROVE Bare(Join(more))
    BY <2>1
  <2>3. CASE ps = <<>>
    <3>1. more[1] = p
      BY <2>3
    <3>2. Join(more) = p
      BY <2>3, JoinAdd
    <3>. QED
      BY <2>2, <3>1, <3>2
  <2>4. CASE ps # <<>>
    <3>1. more[1] = ps[1]
      <4>1. 1 \in 1..Len(ps)
        BY <2>4
      <4>. QED
        BY <2>1, <4>1
    <3>2. Bare(Join(ps))
      BY <1>2, <2>2, <2>4, <3>1
    <3>. DEFINE j == Join(ps)
                head == Append(j, Piece("&"))
    <3>3. j \in Seq(Pieces) /\ Join(more) = head \o p
      BY <2>4, JoinAdd
    <3>. HIDE DEF j
    <3>4. /\ head \in Seq(Pieces) /\ Len(head) = Len(j) + 1 /\ head[Len(j) + 1] = Piece("&")
          /\ \A i \in 1..Len(j) : head[i] = j[i]
      BY <3>3, PieceTypes, Added
    <3>. HIDE DEF head
    <3>5. head[1] # Piece("?") /\ 1 \in 1..Len(head)
      <4>1. CASE j = <<>>
        BY <3>4, <4>1, PieceTypes
      <4>2. CASE j # <<>>
        <5>1. 1 \in 1..Len(j)
          BY <3>3, <4>2
        <5>. QED
          BY <3>2, <3>4, <4>2, <5>1 DEF Bare, j
      <4>. QED
        BY <4>1, <4>2
    <3>6. p \in Seq(Pieces)
      BY PieceTypes, SeqWidens
    <3>7. \A i \in 1..Len(head) : (head \o p)[i] = head[i]
      BY <3>4, <3>6, Joined
    <3>. QED
      BY <3>3, <3>5, <3>7 DEF Bare
  <2>. QED
    BY <2>3, <2>4
<1>3. \A ps \in Seq(Seq(Unsplit)) : ps \in G
  <2>. HIDE DEF G
  <2>. QED
    BY <1>1, <1>2, SeqInduction
<1>. QED
  BY <1>3

\* The parts of a query, each scrubbed.
LEMMA ScrubAllIs ==
    ASSUME NEW parts \in Seq(Seq(Unsplit))
    PROVE  /\ ScrubAll(parts) \in Seq(Seq(Unsplit)) /\ Len(ScrubAll(parts)) = Len(parts)
           /\ \A i \in 1..Len(parts) : ScrubAll(parts)[i] = ScrubPart(parts[i])
<1>1. PICK n \in Nat : parts \in [1..n -> Seq(Unsplit)]
  BY DEF Seq
<1>2. Len(parts) = n
  BY <1>1
<1>3. ScrubAll(parts) = [i \in 1..n |-> ScrubPart(parts[i])]
  BY <1>1 DEF ScrubAll
<1>4. ScrubAll(parts) \in [1..n -> Seq(Unsplit)]
  BY <1>1, <1>3, ScrubPartStays
<1>. QED
  BY <1>2, <1>3, <1>4

\* Parts that were scrubbed are left as they are.
LEMMA ScrubAllStays ==
    ASSUME NEW parts \in Seq(Seq(Unsplit))
    PROVE  ScrubAll(ScrubAll(parts)) = ScrubAll(parts)
<1>. DEFINE n == Len(parts)
            a == ScrubAll(parts)
            b == ScrubAll(a)
<1>1. n \in Nat /\ a \in Seq(Seq(Unsplit)) /\ Len(a) = n /\ \A i \in 1..n : a[i] = ScrubPart(parts[i])
  BY ScrubAllIs
<1>. HIDE DEF a
<1>2. b \in Seq(Seq(Unsplit)) /\ Len(b) = n /\ \A i \in 1..n : b[i] = ScrubPart(a[i])
  BY <1>1, ScrubAllIs
<1>. HIDE DEF b
<1>3. \A i \in 1..n : b[i] = a[i]
  <2>1. \A i \in 1..n : parts[i] \in Seq(Unsplit)
    OBVIOUS
  <2>. QED
    BY <1>1, <1>2, <2>1, ScrubPartStays
<1>4. a = b
  <2>. HIDE DEF n
  <2>1. DOMAIN a = 1..n /\ DOMAIN b = 1..n /\ a = [i \in 1..n |-> a[i]] /\ b = [i \in 1..n |-> b[i]]
    BY <1>1, <1>2
  <2>. QED
    BY <1>3, <2>1
<1>. QED
  BY <1>4 DEF a, b

\* What a sequence is after its first element.
LEMMA Rest ==
    ASSUME NEW S, NEW s \in Seq(S), 1 \in 1..Len(s)
    PROVE  /\ After(s, 1) \in Seq(S) /\ Len(After(s, 1)) = Len(s) - 1
           /\ \A j \in 1..(Len(s) - 1) : After(s, 1)[j] = s[1 + j]
<1>1. PICK i \in 1..Len(s) : i = 1
  OBVIOUS
<1>2. /\ After(s, i) \in Seq(S) /\ Len(After(s, i)) = Len(s) - i
      /\ \A j \in 1..(Len(s) - i) : After(s, i)[j] = s[i + j]
  BY Sides
<1>. QED
  BY <1>1, <1>2

\* A query begins with a ? that is set aside, or it is bare.
LEMMA LeadIs ==
    ASSUME NEW q \in Seq(Pieces)
    PROVE  /\ Bare(q) => Lead(q) = 0 /\ After(q, 0) = q /\ SubSeq(q, 1, 0) = <<>>
           /\ ~Bare(q) => /\ Lead(q) = 1 /\ 1 \in 1..Len(q) /\ q[1] = Piece("?")
                          /\ After(q, 1) \in Seq(Pieces) /\ SubSeq(q, 1, 1) = <<Piece("?")>>
<1>1. CASE Bare(q)
  <2>1. Lead(q) = 0
    BY <1>1 DEF Bare, Lead
  <2>2. After(q, 0) = q
    <3>1. SubSeq(q, 1, Len(q)) = q
      OBVIOUS
    <3>. QED
      BY <3>1 DEF After
  <2>3. SubSeq(q, 1, 0) = <<>>
    OBVIOUS
  <2>. QED
    BY <1>1, <2>1, <2>2, <2>3
<1>2. CASE ~Bare(q)
  <2>1. Lead(q) = 1 /\ q # <<>> /\ q[1] = Piece("?")
    BY <1>2 DEF Bare, Lead
  <2>2. 1 \in 1..Len(q)
    BY <2>1
  <2>. DEFINE h == SubSeq(q, 1, 1)
  <2>3. After(q, 1) \in Seq(Pieces) /\ h \in Seq(Pieces) /\ Len(h) = 1 /\ \A j \in 1..1 : h[j] = q[j]
    BY <2>2, Sides
  <2>. HIDE DEF h
  <2>4. h = <<Piece("?")>>
    <3>1. h[1] = Piece("?")
      BY <2>1, <2>3
    <3>. QED
      BY <2>3, <3>1
  <2>. QED
    BY <1>2, <2>1, <2>2, <2>3, <2>4 DEF h
<1>. QED
  BY <1>1, <1>2

\* The parts of a query, and those of the query encoded once.
LEMMA PartsAre ==
    ASSUME NEW q \in Seq(Pieces)
    PROVE  /\ Parts(q) \in Seq(Seq(Unsplit)) /\ Parts(q) # <<>>
           /\ Parts(Once(q)) = OnceAll(Parts(q))
           /\ Bare(q) => Bare(Parts(q)[1])
<1>1. \A s : Parts(s) = Split(After(s, Lead(s)))
  BY DEF Parts, Split
<1>. DEFINE o == Once(q)
<1>2. o \in Seq(Pieces) /\ Len(o) = Len(q) /\ \A i \in 1..Len(q) : o[i] = OncePiece(q[i])
  BY OnceIs
<1>. HIDE DEF o
<1>3. CASE Bare(q)
  <2>1. Parts(q) = Split(q)
    BY <1>1, <1>3, LeadIs
  <2>2. Bare(o)
    <3>1. CASE q = <<>>
      BY <1>2, <3>1 DEF Bare
    <3>2. CASE q # <<>>
      <4>1. 1 \in 1..Len(q) /\ q[1] \in Pieces /\ q[1] # Piece("?")
        BY <1>3, <3>2 DEF Bare
      <4>2. o[1] # Piece("?")
        BY <1>2, <4>1, OncePieceIs
      <4>. QED
        BY <4>2 DEF Bare
    <3>. QED
      BY <3>1, <3>2
  <2>3. Parts(o) = Split(o)
    BY <1>1, <1>2, <2>2, LeadIs
  <2>. QED
    BY <1>3, <2>1, <2>3, SplitType, SplitOnce, SplitBare DEF o
<1>4. CASE ~Bare(q)
  <2>1. /\ 1 \in 1..Len(q) /\ q[1] = Piece("?") /\ After(q, 1) \in Seq(Pieces)
        /\ Parts(q) = Split(After(q, 1))
    BY <1>1, <1>4, LeadIs
  <2>2. ~Bare(o)
    <3>1. q[1] \in Pieces /\ o[1] = Piece("?") /\ o # <<>>
      <4>1. q[1] \in Pieces
        BY <2>1
      <4>2. o[1] = Piece("?")
        BY <1>2, <2>1, <4>1, OncePieceIs
      <4>. QED
        BY <1>2, <2>1, <4>1, <4>2
    <3>. QED
      BY <3>1 DEF Bare
  <2>3. Parts(o) = Split(After(o, 1))
    BY <1>1, <1>2, <2>2, LeadIs
  <2>4. After(o, 1) = Once(After(q, 1))
    <3>. DEFINE ao == After(o, 1)
                oa == Once(After(q, 1))
                n == Len(q)
    <3>1. n \in Nat
      OBVIOUS
    <3>2. After(q, 1) \in Seq(Pieces) /\ Len(After(q, 1)) = n - 1 /\ \A j \in 1..(n - 1) : After(q, 1)[j] = q[1 + j]
      BY <2>1, Rest
    <3>3. ao \in Seq(Pieces) /\ Len(ao) = Len(o) - 1 /\ \A j \in 1..(Len(o) - 1) : ao[j] = o[1 + j]
      <4>1. o \in Seq(Pieces) /\ 1 \in 1..Len(o)
        BY <1>2, <2>1
      <4>. QED
        BY <4>1, Rest
    <3>4. oa \in Seq(Pieces) /\ Len(oa) = n - 1 /\ \A j \in 1..(n - 1) : oa[j] = OncePiece(After(q, 1)[j])
      BY <3>2, OnceIs
    <3>5. Len(o) = n /\ \A i \in 1..n : o[i] = OncePiece(q[i])
      BY <1>2
    <3>. HIDE DEF ao, oa, n
    <3>6. \A j \in 1..(n - 1) : ao[j] = oa[j]
      <4>1. \A j \in 1..(n - 1) : 1 + j \in 1..n
        BY <3>1
      <4>. QED
        BY <3>2, <3>3, <3>4, <3>5, <4>1
    <3>7. ao = oa
      BY <3>3, <3>4, <3>5, <3>6
    <3>. QED
      BY <3>7 DEF ao, oa
  <2>. QED
    BY <1>4, <2>1, <2>3, <2>4, SplitType, SplitOnce DEF o
<1>. QED
  BY <1>3, <1>4

\* What ships: the ? of the query, and its parts, each scrubbed, in their places.
LEMMA ScrubQueryIs ==
    ASSUME NEW q \in Seq(Pieces)
    PROVE  /\ ScrubQuery(q) \in Seq(Pieces)
           /\ Parts(ScrubQuery(q)) = ScrubAll(Parts(q))
           /\ ScrubQuery(ScrubQuery(q)) = ScrubQuery(q)
<1>. DEFINE parts == Parts(q)
            new == ScrubAll(parts)
            j == Join(new)
            told1 == ScrubQuery(q)
<1>1. parts \in Seq(Seq(Unsplit)) /\ parts # <<>> /\ (Bare(q) => Bare(parts[1]))
  BY PartsAre
<1>2. \A s : ScrubQuery(s) = SubSeq(s, 1, Lead(s)) \o Join(ScrubAll(Parts(s)))
  BY DEF ScrubQuery, Join, Spaced, ScrubAll
<1>3. \A s : Parts(s) = Split(After(s, Lead(s)))
  BY DEF Parts, Split
<1>. HIDE DEF parts
<1>4. new \in Seq(Seq(Unsplit)) /\ new # <<>> /\ new[1] = ScrubPart(parts[1]) /\ parts[1] \in Seq(Unsplit)
  <2>1. 1 \in 1..Len(parts)
    BY <1>1
  <2>2. new \in Seq(Seq(Unsplit)) /\ Len(new) = Len(parts) /\ new[1] = ScrubPart(parts[1])
    BY <1>1, <2>1, ScrubAllIs
  <2>. HIDE DEF new
  <2>. QED
    BY <1>1, <2>1, <2>2
<1>5. ScrubAll(new) = new
  BY <1>1, ScrubAllStays
<1>6. Bare(q) => Bare(new[1])
  BY <1>1, <1>4, ScrubPartStays, PieceTypes DEF Bare
<1>. HIDE DEF new
<1>7. j \in Seq(Pieces) /\ Split(j) = new /\ (Bare(q) => Bare(j))
  <2>1. j \in Seq(Pieces)
    <3>1. <<>> \in Seq(Unsplit)
      OBVIOUS
    <3>. QED
      BY <1>4, <3>1, JoinAdd
  <2>. QED
    BY <1>4, <1>6, <2>1, SplitJoin, JoinBare
<1>. HIDE DEF j
<1>8. told1 = SubSeq(q, 1, Lead(q)) \o j
  BY <1>2 DEF j, new, parts
<1>. HIDE DEF told1
<1>9. told1 \in Seq(Pieces) /\ Parts(told1) = new /\ SubSeq(told1, 1, Lead(told1)) = SubSeq(q, 1, Lead(q))
  <2>1. CASE Bare(q)
    <3>1. told1 = j
      BY <1>7, <1>8, <2>1, LeadIs
    <3>. QED
      BY <1>3, <1>7, <2>1, <3>1, LeadIs
  <2>2. CASE ~Bare(q)
    <3>. DEFINE lead == <<Piece("?")>>
    <3>1. Lead(q) = 1 /\ SubSeq(q, 1, Lead(q)) = lead
      BY <2>2, LeadIs
    <3>2. lead \in Seq(Pieces) /\ Len(lead) = 1 /\ lead[1] = Piece("?")
      BY PieceTypes
    <3>. HIDE DEF lead
    <3>3. told1 = lead \o j
      BY <1>8, <3>1
    <3>4. /\ told1 \in Seq(Pieces) /\ Len(told1) = 1 + Len(j) /\ told1[1] = Piece("?")
          /\ \A i \in 1..Len(j) : told1[1 + i] = j[i]
      <4>1. /\ lead \o j \in Seq(Pieces) /\ Len(lead \o j) = Len(lead) + Len(j)
            /\ \A i \in 1..Len(lead) : (lead \o j)[i] = lead[i]
            /\ \A i \in 1..Len(j) : (lead \o j)[Len(lead) + i] = j[i]
        BY <1>7, <3>2, Joined
      <4>. QED
        BY <3>2, <3>3, <4>1
    <3>5. 1 \in 1..Len(told1) /\ told1 # <<>> /\ Len(j) \in Nat
      BY <1>7, <3>4
    <3>6. ~Bare(told1)
      BY <3>4, <3>5 DEF Bare
    <3>7. Lead(told1) = 1 /\ SubSeq(told1, 1, 1) = lead
      BY <3>4, <3>6, LeadIs DEF lead
    <3>. DEFINE rest == After(told1, 1)
    <3>8. rest \in Seq(Pieces) /\ Len(rest) = Len(told1) - 1 /\ \A i \in 1..(Len(told1) - 1) : rest[i] = told1[1 + i]
      <4>1. told1 \in Seq(Pieces) /\ 1 \in 1..Len(told1)
        BY <3>4, <3>5
      <4>. QED
        BY <4>1, Rest
    <3>. HIDE DEF rest
    <3>9. rest = j
      <4>1. Len(told1) - 1 = Len(j)
        BY <3>4, <3>5
      <4>2. \A i \in 1..Len(j) : rest[i] = j[i]
        BY <3>4, <3>8, <4>1
      <4>. QED
        BY <1>7, <3>8, <4>1, <4>2
    <3>. QED
      BY <1>3, <1>7, <3>1, <3>4, <3>7, <3>9 DEF rest
  <2>. QED
    BY <2>1, <2>2
<1>10. ScrubQuery(told1) = told1
  BY <1>2, <1>5, <1>8, <1>9 DEF j
<1>. QED
  BY <1>9, <1>10 DEF told1, new, parts

\* What was told of a query is the query, scrubbed.
QueriesRight == about = "query" => asked.query \in QueryCases /\ told = ScrubQuery(asked.query)

\* QueriesRight is inductive: only AskQuery tells of queries.
LEMMA QueriesRightInvariant == Spec => []QueriesRight
<1>1. Init => QueriesRight
  BY DEF Init, QueriesRight
<1>2. QueriesRight /\ [Next]_vars => QueriesRight'
  <2>. SUFFICES ASSUME QueriesRight, [Next]_vars PROVE QueriesRight'
    OBVIOUS
  <2>1. CASE AskQuery
    BY <2>1 DEF AskQuery, Ask, QueriesRight
  <2>2. CASE AskAddress \/ AskLookup \/ AskPath \/ AskVerdict \/ AskContainer \/ AskCadence
    <3>1. about' # "query"
      BY <2>2 DEF AskAddress, AskLookup, AskPath, AskVerdict, AskContainer, AskCadence, Ask
    <3>. QED
      BY <3>1 DEF QueriesRight
  <2>3. CASE UNCHANGED vars
    BY <2>3 DEF QueriesRight, vars
  <2>. QED
    BY <2>1, <2>2, <2>3 DEF Next
<1>. QED
  BY <1>1, <1>2, PTL DEF Spec

\* EncodingHidesNothing: for any query, of pieces encoded any number of times, the parts replaced are
\* those that would be if each piece were encoded once, and those that four passes do not decode; the
\* parts keep their places; and a second scrub changes nothing.
THEOREM EncodingTheorem == Spec => []EncodingHidesNothing
<1>1. ASSUME QueriesRight PROVE EncodingHidesNothing
  <2>1. SUFFICES ASSUME about = "query"
                 PROVE  LET q == asked.query
                        IN /\ Len(Parts(told)) = Len(Parts(q))
                           /\ \A i \in DOMAIN Parts(q) :
                                 Scrubbed(told, i) = (Scrubbed(ScrubQuery(Once(q)), i) \/ TooDeep(Parts(q)[i]))
                           /\ ScrubQuery(told) = told
    BY DEF EncodingHidesNothing, About
  <2>. DEFINE q == asked.query
              parts == Parts(q)
              once == Once(q)
  <2>2. q \in Seq(Pieces) /\ told = ScrubQuery(q)
    BY <1>1, <2>1, DecisionAssumption DEF QueriesRight
  <2>. HIDE DEF q
  <2>3. once \in Seq(Pieces)
    BY <2>2, OnceIs
  <2>4. parts \in Seq(Seq(Unsplit)) /\ Parts(once) = OnceAll(parts)
    BY <2>2, PartsAre
  <2>5. Parts(told) = ScrubAll(parts) /\ ScrubQuery(told) = told
    BY <2>2, ScrubQueryIs
  <2>. HIDE DEF once, parts
  <2>6. Parts(ScrubQuery(once)) = ScrubAll(OnceAll(parts))
    BY <2>3, <2>4, ScrubQueryIs
  <2>7. Len(ScrubAll(parts)) = Len(parts) /\ \A i \in 1..Len(parts) : ScrubAll(parts)[i] = ScrubPart(parts[i])
    BY <2>4, ScrubAllIs
  <2>8. /\ OnceAll(parts) \in Seq(Seq(Unsplit)) /\ Len(OnceAll(parts)) = Len(parts)
        /\ \A i \in 1..Len(parts) : OnceAll(parts)[i] = Once(parts[i])
    BY <2>4, OnceAllIs
  <2>9. \A i \in 1..Len(parts) : ScrubAll(OnceAll(parts))[i] = ScrubPart(Once(parts[i]))
    <3>1. \A i \in 1..Len(OnceAll(parts)) : ScrubAll(OnceAll(parts))[i] = ScrubPart(OnceAll(parts)[i])
      BY <2>8, ScrubAllIs
    <3>. QED
      BY <2>8, <3>1
  <2>10. ASSUME NEW i \in DOMAIN parts
         PROVE  Scrubbed(told, i) = (Scrubbed(ScrubQuery(once), i) \/ TooDeep(parts[i]))
    <3>1. i \in 1..Len(parts) /\ parts[i] \in Seq(Unsplit)
      BY <2>4
    <3>2. Removed \in ToSet(ScrubPart(parts[i])) <=> Removed \in ToSet(ScrubPart(Once(parts[i]))) \/ TooDeep(parts[i])
      BY <3>1, PartAgrees
    <3>3. Parts(told)[i] = ScrubPart(parts[i]) /\ Parts(ScrubQuery(once))[i] = ScrubPart(Once(parts[i]))
      BY <2>5, <2>6, <2>7, <2>9, <3>1
    <3>. QED
      BY <3>2, <3>3 DEF Scrubbed
  <2>11. Len(Parts(told)) = Len(parts)
    BY <2>5, <2>7
  <2>. QED
    BY <2>5, <2>10, <2>11 DEF q, parts, once
<1>. QED
  BY <1>1, QueriesRightInvariant, PTL
=============================================================================
