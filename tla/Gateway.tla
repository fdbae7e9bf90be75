------------------------------ MODULE Gateway -------------------------------
(***************************************************************************)
(* One session of the gateway: handle_client_in_mock and send_403_forbidden  *)
(* of verification/framac/wp_gateway.c, with the guards verification/cbmc/   *)
(* cbmc_gateway.c adds.  Client bytes arrive in pieces behind what is in the *)
(* buffer; a request that passes is pumped upstream, which only resets       *)
(* c2u_len, so earlier bytes stay behind it.  Arrival and pumping are        *)
(* external (gateway.c is not in the tree).                                 *)
(*                                                                         *)
(* The four patterns are sequences over a small alphabet, as short as their  *)
(* overlaps allow.                                                         *)
(***************************************************************************)
EXTENDS Integers, Sequences

CONSTANTS
  Letter, BufferSize, ScanLimit,
  GetVerb, PostVerb, Route, HttpVer,
  Upstream        \* the descriptors a session may have upstream, or -1

ASSUME GatewayConstants ==
  /\ BufferSize \in Nat /\ ScanLimit \in 0 .. BufferSize
  /\ \A pattern \in {GetVerb, PostVerb, Route, HttpVer} : pattern \in Seq(Letter) \ {<< >>}
  /\ Len(PostVerb) = Len(GetVerb) + 1 /\ Len(PostVerb) <= BufferSize
  /\ Upstream \subseteq Int

VARIABLES
  u_fd, state,
  c2u_buf, c2u_len,
  u2c,          \* what is buffered for the client: "reply" pieces and "forbidden"
  verdict       \* what the last inspection said of these bytes

sessionVars == <<u_fd, state, c2u_buf, c2u_len, u2c, verdict>>

-----------------------------------------------------------------------------
(* Upstream is closed unless its descriptor is 0, its pending replies are    *)
(* dropped, the answer is buffered whole.                                   *)
Send403 ==
  /\ u_fd' = (IF u_fd > 0 THEN -1 ELSE u_fd)
  /\ u2c' = <<"forbidden">>
  /\ state' = "draining"

(* Byte by byte, as the loops compare them.                                 *)
MatchAt(pattern, i) == \A k \in 1 .. Len(pattern) : c2u_buf[i + k] = pattern[k]

ScanLen == IF c2u_len < ScanLimit THEN c2u_len ELSE ScanLimit

(* Mutated: the loop ends one position early. *)
FoundEarly(pattern) == \E i \in 0 .. ScanLen - Len(pattern) - 1 : MatchAt(pattern, i)

Found(pattern) == \E i \in 0 .. ScanLen - Len(pattern) : MatchAt(pattern, i)

IsRequest == c2u_len > Len(GetVerb) /\ (MatchAt(GetVerb, 0) \/ MatchAt(PostVerb, 0))

HandleClientIn ==
  /\ state = "active" /\ verdict = "none"
  /\ \/ /\ IsRequest /\ ~Found(Route) /\ Found(HttpVer)
        /\ Send403
        /\ verdict' = "rejected"
     \/ /\ ~(IsRequest /\ ~Found(Route) /\ Found(HttpVer))
        /\ verdict' = "kept"
        /\ UNCHANGED <<u_fd, state, u2c>>
  /\ UNCHANGED <<c2u_buf, c2u_len>>

ClientSends(b) ==
  /\ state = "active" /\ c2u_len < BufferSize
  /\ c2u_buf' = [c2u_buf EXCEPT ![c2u_len + 1] = b]
  /\ c2u_len' = c2u_len + 1
  /\ verdict' = "none"
  /\ UNCHANGED <<u_fd, state, u2c>>

PumpUpstream ==
  /\ state = "active" /\ verdict = "kept" /\ c2u_len > 0
  /\ c2u_len' = 0 /\ verdict' = "none"
  /\ UNCHANGED <<u_fd, state, c2u_buf, u2c>>

UpstreamReplies ==
  /\ state = "active" /\ u_fd > 0 /\ u2c = << >>
  /\ u2c' = <<"reply">>
  /\ UNCHANGED <<u_fd, state, c2u_buf, c2u_len, verdict>>

SessionInit ==
  /\ u_fd \in Upstream
  /\ state = "active"
  /\ c2u_buf = [i \in 1 .. BufferSize |-> CHOOSE b \in Letter : TRUE]
  /\ c2u_len = 0
  /\ u2c = << >>
  /\ verdict = "none"

SessionNext ==
  HandleClientIn \/ PumpUpstream \/ UpstreamReplies \/ \E b \in Letter : ClientSends(b)

SessionSpec == SessionInit /\ [][SessionNext]_sessionVars

-----------------------------------------------------------------------------
(* Properties *)

Received == SubSeq(c2u_buf, 1, c2u_len)
IsPrefix(p, s) == Len(p) <= Len(s) /\ SubSeq(s, 1, Len(p)) = p
Occurs(p, s) == \E i \in 1 .. Len(s) : IsPrefix(p, SubSeq(s, i, Len(s)))

(* The verdict follows from the bytes received since the last request alone, *)
(* never from what an earlier one left in the buffer: a request that names   *)
(* the protocol and not the route within the scanned bytes is rejected, and  *)
(* nothing else is (wp_gateway.c:84-130).                                   *)
VerdictFromReceived ==
  LET verb == \/ IsPrefix(GetVerb, Received) /\ c2u_len > Len(GetVerb)
              \/ IsPrefix(PostVerb, Received)
      scanned == SubSeq(Received, 1, ScanLen)
  IN verdict # "none" =>
       (verdict = "rejected" <=> verb /\ ~Occurs(Route, scanned) /\ Occurs(HttpVer, scanned))
=============================================================================
