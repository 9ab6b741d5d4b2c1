------------------------------ MODULE ClientIp ------------------------------
(***************************************************************************)
(* resolve_client_ip (src/camada/ip.py): the address a request is enforced *)
(* and reported under, from the socket peer, X-Forwarded-For and, behind   *)
(* Cloudflare, CF-Connecting-IP.                                           *)
(*                                                                         *)
(* An entry is what it reads as once trimmed, unmapped and rid of its      *)
(* port: an address, or text that is not one.  A range is a named set of   *)
(* addresses.  Definitions called ...Mutant are wrong on purpose.          *)
(***************************************************************************)
EXTENDS Integers, Sequences, SequencesExt

CONSTANTS
    Valid,              \* addresses
    Text,               \* what is not an address: a socket path, `unknown`
    Absent,             \* no peer, no header, no answer
    Loopback,           \* 127.0.0.0/8 and ::1
    Ranges, In          \* the CIDR ranges a tenant can list, and the addresses in each

Entries == Valid \cup Text
Cfgs ==
    [mode : {"none", "vercel"}] \cup [mode : {"hops"}, hops : Nat]
      \cup [mode : {"cidrs"}, cidrs : SUBSET Ranges, cloudflare : SUBSET Ranges]

ASSUME ClientIpAssumption ==
    /\ Valid \cap Text = {} /\ Absent \notin Entries
    /\ Loopback \subseteq Valid
    /\ In \in [Ranges -> SUBSET Valid]

-----------------------------------------------------------------------------
\* A hop inside a listed range; what is not an address never is.
Trusted(hop, ranges) == \E r \in ranges : hop \in In[r]

\* The socket's address, if it has one.
Sock(peer) == IF peer \in Valid THEN peer ELSE Absent

PeerStopsWalkMutant(peer, ranges) ==   \* an unreadable peer is taken for none
    peer \in Valid \ Loopback /\ ~Trusted(peer, ranges)
\* The peer is no proxy of the tenant's, or unreadable: the headers are anybody's.  No peer at all walks.
PeerStopsWalk(peer, ranges) ==
    /\ peer # Absent
    /\ peer \notin Valid \/ (peer \notin Loopback /\ ~Trusted(peer, ranges))

\* The first hop from the right outside the ranges, if there is one.
FirstOutside(chain, ranges) ==
    LET i == SelectLastInSeq(chain, LAMBDA hop : ~Trusted(hop, ranges))
    IN IF i = 0 THEN Absent ELSE chain[i]

CandidateMutant(xff, cfg) == IF cfg.mode = "cidrs" THEN Head(xff) ELSE Last(xff)   \* the left end is the client
\* What X-Forwarded-For says under each mode.
Candidate(xff, cfg) ==
    CASE cfg.mode = "hops"   -> IF cfg.hops \in DOMAIN xff THEN xff[Len(xff) + 1 - cfg.hops] ELSE Absent
      [] cfg.mode = "vercel" -> Last(xff)
      [] cfg.mode = "cidrs"  -> FirstOutside(xff, cfg.cidrs)

\* CF-Connecting-IP, if the first hop that is not the tenant's own is a Cloudflare edge.
CloudflareClient(peer, xff, cfg, cf) ==
    LET own == cfg.cidrs \ cfg.cloudflare
        chain == IF peer \in Valid \ Loopback THEN Append(xff, peer) ELSE xff
        hop == FirstOutside(chain, own)
    IN IF cf \in Valid /\ ~PeerStopsWalk(peer, cfg.cidrs) /\ Trusted(hop, cfg.cloudflare) THEN cf ELSE Absent

Resolve(peer, xff, cfg, cf) ==
    LET viaCf == IF cfg.mode = "cidrs" THEN CloudflareClient(peer, xff, cfg, cf) ELSE Absent
        stopped == cfg.mode = "cidrs" /\ PeerStopsWalk(peer, cfg.cidrs)
    IN CASE viaCf # Absent -> viaCf
         [] viaCf = Absent /\ (cfg.mode = "none" \/ xff = <<>> \/ stopped) -> Sock(peer)
         [] OTHER -> LET c == Candidate(xff, cfg) IN IF c \in Valid THEN c ELSE Sock(peer)
=============================================================================
