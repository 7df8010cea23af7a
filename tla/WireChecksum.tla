---- MODULE WireChecksum ----
(***************************************************************************)
(* The checksum of a packet (common.c), over a sender that fills one, a    *)
(* wire that may change one byte of it, and a receiver whose buffer still  *)
(* holds what it held beyond the bytes that were sent.                     *)
(***************************************************************************)
EXTENDS Naturals

CONSTANTS
  MaxPayload,  (* sizeof(msg_payload_u) (149)                               *)
  Bytes        (* the values a byte takes                                   *)

Header == 8                      (* sizeof(proto_hdr_t)                     *)
LENGTH == 4                      (* offsetof(proto_hdr_t, length)           *)
CHKSUM == 6                      (* offsetof(proto_hdr_t, chksum)           *)
Size   == Header + MaxPayload    (* sizeof(proto_packet_t)                  *)

(* A packet whose bytes add up to 2^16 could fold onto a smaller sum.        *)
ASSUME WireAssumption ==
  MaxPayload \in Nat /\ Bytes \subseteq 0 .. 255 /\ 255 * Size < 65536

VARIABLES
  pkt,      (* the packet, in the sender's memory and then the receiver's   *)
  stage,    (* where it is                                                  *)
  changed,  (* history: whether the wire changed a byte                     *)
  verified  (* what the receiver made of it                                 *)

wire_vars == <<pkt, stage, changed, verified>>

Word(p, at) == p[at] + 256 * p[at + 1]
SetWord(p, at, n) == [p EXCEPT ![at] = n % 256, ![at + 1] = n \div 256]

(* The carries above 16 bits, added in until there are none: two times at    *)
(* most for a sum of 32 bits.                                                *)
Carry(sum) == (sum % 65536) + (sum \div 65536)
Fold(sum) == Carry(Carry(sum))

(* The sum after the bytes before i, but for those skipped.                  *)
Sums(p, skipped) ==
  LET sum[i \in 0 .. Size] ==
        IF i = 0 THEN 0 ELSE sum[i - 1] + (IF i - 1 \in skipped THEN 0 ELSE p[i - 1])
  IN sum

(* Mutant: the payload alone is summed.                                      *)
checksum_bytes_payload(p, len) == 65535 - Fold(Sums(p, 0 .. Header - 1)[len])

(* __checksum_bytes__: all but the checksum field itself.                    *)
checksum_bytes(p, len) == 65535 - Fold(Sums(p, {CHKSUM, CHKSUM + 1})[len])

(* __chksum_len__: the length comes off the wire.                            *)
chksum_len(p) == LET len == Word(p, LENGTH) + Header IN IF len > Size THEN Size ELSE len

proto_generate_chksum(p) == checksum_bytes(p, chksum_len(p))
proto_verify_chksum(p)   == Word(p, CHKSUM) = proto_generate_chksum(p)

(* The header last, and the checksum last of it: until then its field, and    *)
(* what lies behind the payload, are whatever was there.                     *)
Send(n) ==
  /\ stage = "idle"
  /\ \E id, old \in Bytes, data \in [Header .. Size - 1 -> Bytes] :
       LET h == [i \in 0 .. Header - 1 |-> CASE i \in {0, 1} -> 165 [] i = 2 -> id [] i = CHKSUM -> old [] OTHER -> 0]
           p == SetWord([i \in 0 .. Size - 1 |-> IF i < Header THEN h[i] ELSE data[i]], LENGTH, n)
       IN pkt' = SetWord(p, CHKSUM, proto_generate_chksum(p))
  /\ stage' = "sent" /\ changed' = FALSE /\ verified' = FALSE

(* One byte of those sent arrives as another.                                *)
Corrupt ==
  /\ stage = "sent" /\ stage' = "in flight" /\ changed' = TRUE
  /\ \E i \in 0 .. Header + Word(pkt, LENGTH) - 1, b \in Bytes :
       b # pkt[i] /\ pkt' = [pkt EXCEPT ![i] = b]
  /\ UNCHANGED verified

Receive ==
  /\ stage \in {"sent", "in flight"} /\ stage' = "received"
  /\ verified' = proto_verify_chksum(pkt)
  /\ UNCHANGED <<pkt, changed>>

WireInit == pkt = <<>> /\ stage = "idle" /\ changed = FALSE /\ verified = FALSE
WireNext == (\E n \in 0 .. MaxPayload : Send(n)) \/ Corrupt \/ Receive
WireSpec == WireInit /\ [][WireNext]_wire_vars

----------------------------------------------------------------------------
(* The receiver takes what the sender meant, although its own checksum field *)
(* and all that lies behind the payload is whatever was there before; and it *)
(* refuses a packet with a byte changed, be it one of the length, which says *)
(* what is summed, or one of the checksum.                                   *)
OneChangeIsNoticed == stage = "received" => (verified <=> ~changed)
====
