----------------------------- MODULE WireFormat ------------------------------
(***************************************************************************)
(* What a link writes on its transport and how the other end reads it      *)
(* (copernica-common/src/serialization.rs, with the sizes of constants.rs),*)
(* and what a response carries (response_data.rs, narrow_waist_packet.rs). *)
(*                                                                         *)
(* Bytes are a sequence of fields, each of a size in bytes and with one    *)
(* value: what was written there at one go.  Readers ask for byte offsets, *)
(* as the code does; what they get is a field only if the offsets are its  *)
(* boundaries, and Torn otherwise.  Numbers are written byte by byte.      *)
(*                                                                         *)
(* Cryptography is ideal and outside: a cypher text is its secret and its  *)
(* plain text, a tag is that of one cypher text, a signature names its     *)
(* signer and what was signed.  A private identity stands for its public   *)
(* one.  Failed stands for an Err and for a panic: both end the thread     *)
(* that reads.                                                             *)
(***************************************************************************)
EXTENDS Naturals, Sequences, FiniteSets, SequencesExt

CONSTANTS
  Absent,               \* PublicIdentityInterface::Absent, and no tag
  Torn,                 \* what is read across the boundaries of fields
  Failed,               \* nothing could be read
  BloomFilterIndex      \* bloom_filter_index: four u16 for each string

\* `BFI`, of u16s.
Bfi == [1 .. 4 -> {i \in Nat : i < 65536}]

ASSUME BloomFilterIndexAssumption ==
  \A s \in DOMAIN BloomFilterIndex : BloomFilterIndex[s] \in Bfi

\* What is none of the values that stand for something else.
Ordinary(v) == v # Absent /\ v # Torn /\ v # Failed

\* Torn is no number, and no number's bytes.
ASSUME TornAssumption == Torn \notin Nat /\ Torn \notin [1 .. 8 -> Nat]

(* The sizes of constants.rs. *)
FRAGMENT_SIZE == 1024
LENGTH_OF_DATA_STARTING_POSITION == FRAGMENT_SIZE - 2
DATA_SIZE == FRAGMENT_SIZE - 3
NONCE_SIZE == 8
TAG_SIZE == 16
PID_SIZE == 32 + 32      \* ID_SIZE + CC_SIZE
SIG_SIZE == 64
BFI_BYTE_SIZE == 8
BFI_COUNT == 6
U64_SIZE == 8

\* Where the fields after the identity start, with and without a nonce and a tag.
CYPHERTEXT_LINK_TAG_START == PID_SIZE + NONCE_SIZE
CYPHERTEXT_LINK_REPLY_TO_SIZE_START == CYPHERTEXT_LINK_TAG_START + TAG_SIZE
CLEARTEXT_LINK_REPLY_TO_SIZE_START == PID_SIZE

CLEARTEXT_HBFI_SIZE == BFI_BYTE_SIZE * BFI_COUNT + U64_SIZE + PID_SIZE
CYPHERTEXT_HBFI_SIZE == CLEARTEXT_HBFI_SIZE + PID_SIZE
CLEARTEXT_RESPONSE_DATA_SIZE == FRAGMENT_SIZE
CYPHERTEXT_RESPONSE_DATA_SIZE == FRAGMENT_SIZE + TAG_SIZE
CLEARTEXT_REQUEST_SIZE == CLEARTEXT_HBFI_SIZE + NONCE_SIZE
CYPHERTEXT_REQUEST_SIZE == CYPHERTEXT_HBFI_SIZE + NONCE_SIZE
CLEARTEXT_RESPONSE_SIZE ==
  CLEARTEXT_RESPONSE_DATA_SIZE + CLEARTEXT_HBFI_SIZE + NONCE_SIZE + SIG_SIZE
CYPHERTEXT_RESPONSE_SIZE ==
  CYPHERTEXT_RESPONSE_DATA_SIZE + CYPHERTEXT_HBFI_SIZE + NONCE_SIZE + SIG_SIZE

HBFI_OFFSET_START == BFI_BYTE_SIZE * BFI_COUNT
HBFI_RESPONSE_KEY_START == HBFI_OFFSET_START + U64_SIZE
HBFI_REQUEST_KEY_START == HBFI_RESPONSE_KEY_START + PID_SIZE

ReplyToSize ==
  [Mpsc |-> 0, Rf |-> 4, MacAddr6 |-> 6, MacAddr8 |-> 8, UdpIp4 |-> 10, UdpIp6 |-> 22]
-----------------------------------------------------------------------------
(* Bytes. *)

Put(size, value) == IF size = 0 THEN << >> ELSE <<[size |-> size, value |-> value]>>

\* Where each field ends.
Ends(bytes) ==
  LET end[i \in 0 .. Len(bytes)] == IF i = 0 THEN 0 ELSE end[i - 1] + bytes[i].size
  IN  end

ByteCount(bytes) == Ends(bytes)[Len(bytes)]

Within(end, from, to) == {i \in 1 .. Cardinality(DOMAIN end) - 1 : from <= end[i - 1] /\ end[i] <= to}

Fields(bytes, is) == IF is = {} THEN << >> ELSE SubSeq(bytes, Min(is), Max(is))

OfSize(bytes, n) == IF ByteCount(bytes) = n THEN bytes ELSE Put(n, Torn)

\* The fields in the bytes from .. to - 1, in Rust `bytes[from..to]`.
Slice(bytes, from, to) == OfSize(Fields(bytes, Within(Ends(bytes), from, to)), to - from)

Value(bytes) == IF Len(bytes) = 1 THEN bytes[1].value ELSE Torn

\* The value of the one field of `size` bytes that starts at `from`.
Read(bytes, from, size) == Value(Slice(bytes, from, from + size))

\* A number read from bytes, unless they are torn.
ReadAs(Number(_), value) == IF value = Torn THEN Torn ELSE Number(value)

u16_to_u8(i) == <<(i \div 256) % 256, i % 256>>
u8_to_u16(b) == b[1] * 256 + b[2]

bfi_to_u8(bfi) ==
  [k \in 1 .. BFI_BYTE_SIZE |-> u16_to_u8(bfi[(k + 1) \div 2])[2 - (k % 2)]]
u8_to_bfi(b) == [k \in 1 .. 4 |-> u8_to_u16(<<b[2 * k - 1], b[2 * k]>>)]

\* x without its n last bytes.
ShiftedRight(x, n) ==
  LET shifted[k \in 0 .. n] == IF k = 0 THEN x ELSE shifted[k - 1] \div 256
  IN  shifted[n]
u64_to_u8(x) == [k \in 1 .. U64_SIZE |-> ShiftedRight(x, U64_SIZE - k) % 256]
u8_to_u64(v) ==
  LET number[k \in 0 .. U64_SIZE] == IF k = 0 THEN 0 ELSE number[k - 1] * 256 + v[k]
  IN  number[U64_SIZE]

\* A u16 written as two bytes of their own, the high one first.
PutU16(i) == Put(1, u16_to_u8(i)[1]) \o Put(1, u16_to_u8(i)[2])
U16(high, low) == IF Torn \in {high, low} THEN Torn ELSE u8_to_u16(<<high, low>>)
ReadU16(bytes, from) == U16(Read(bytes, from, 1), Read(bytes, from + 1, 1))
-----------------------------------------------------------------------------
(* Secrets and names. *)

SharedSecret(sid, pid, nonce) == [parties |-> {sid, pid}, nonce |-> nonce]

Encrypted(plain, secret) == [plain |-> plain, secret |-> secret]

\* Mutant of Decrypted: the tag is not compared; a changed cypher text has a changed plain text.
DecryptedUntagged(cypher, tag, secret) ==
  IF cypher # Torn THEN cypher.plain
  ELSE IF tag # Torn THEN [tag.plain EXCEPT ![1].value = Torn] ELSE Failed

\* `ctx.decrypt`: the tag must be that of this cypher text, under this secret.
Decrypted(cypher, tag, secret) ==
  IF cypher # Torn /\ tag = cypher /\ cypher.secret = secret THEN cypher.plain ELSE Failed

\* `HBFI::new`.
Hbfi(request_pid, response_pid, app, m0d, fun, arg, frm) ==
  [request_pid |-> request_pid, response_pid |-> response_pid,
   req |-> IF request_pid = Absent THEN <<0, 0, 0, 0>> ELSE BloomFilterIndex[request_pid],
   res |-> BloomFilterIndex[response_pid],
   app |-> BloomFilterIndex[app], m0d |-> BloomFilterIndex[m0d],
   fun |-> BloomFilterIndex[fun], arg |-> BloomFilterIndex[arg], frm |-> frm]

serialize_hbfi(h) ==
  Put(BFI_BYTE_SIZE, bfi_to_u8(h.res)) \o Put(BFI_BYTE_SIZE, bfi_to_u8(h.req))
  \o Put(BFI_BYTE_SIZE, bfi_to_u8(h.app)) \o Put(BFI_BYTE_SIZE, bfi_to_u8(h.m0d))
  \o Put(BFI_BYTE_SIZE, bfi_to_u8(h.fun)) \o Put(BFI_BYTE_SIZE, bfi_to_u8(h.arg))
  \o Put(U64_SIZE, u64_to_u8(h.frm)) \o Put(PID_SIZE, h.response_pid)
  \o (IF h.request_pid = Absent THEN << >> ELSE Put(PID_SIZE, h.request_pid))

\* The size that goes with it, a u8.
HbfiSize(bytes) == ByteCount(bytes) % 256

HbfiOf(bfis, frm, response_pid, request_pid) ==
  [res |-> bfis[1], req |-> bfis[2], app |-> bfis[3], m0d |-> bfis[4], fun |-> bfis[5],
   arg |-> bfis[6], frm |-> frm, response_pid |-> response_pid, request_pid |-> request_pid]

\* The names there are: of strings that are u16s, and with an offset that is a u64.
IsHbfi(h) ==
  LET bfis == <<h.res, h.req, h.app, h.m0d, h.fun, h.arg>>
  IN  /\ h = HbfiOf(bfis, h.frm, h.response_pid, h.request_pid)
      /\ \A i \in 1 .. BFI_COUNT : bfis[i] \in Bfi
      /\ h.frm \in Nat /\ ShiftedRight(h.frm, U64_SIZE) = 0

\* `deserialize_cyphertext_hbfi` and `deserialize_cleartext_hbfi`.
deserialize_hbfi(data, cyphertext) ==
  HbfiOf([i \in 1 .. BFI_COUNT |->
            ReadAs(u8_to_bfi, Read(data, (i - 1) * BFI_BYTE_SIZE, BFI_BYTE_SIZE))],
         ReadAs(u8_to_u64, Read(data, HBFI_OFFSET_START, U64_SIZE)),
         Read(data, HBFI_RESPONSE_KEY_START, PID_SIZE),
         IF cyphertext THEN Read(data, HBFI_REQUEST_KEY_START, PID_SIZE) ELSE Absent)
-----------------------------------------------------------------------------
(* The data of a response: [tag, data], the tag Absent in clear text. *)

\* Mutant of Padded: the bytes of the length are swapped.
PaddedLittle(payload) ==
  Put(payload.size, payload.value) \o Put(DATA_SIZE - payload.size, "padding")
  \o Put(1, "nonce") \o Put(1, u16_to_u8(payload.size)[2]) \o Put(1, u16_to_u8(payload.size)[1])

\* The payload fills up a fragment with padding, a random byte and its length.
Padded(payload) ==
  Put(payload.size, payload.value) \o Put(DATA_SIZE - payload.size, "padding")
  \o Put(1, "nonce") \o PutU16(payload.size)

\* A tag and a fragment; the tag of one in clear text is Absent.
ResponseData(tag, data) == [tag |-> tag, data |-> data]

Reversed(nonce) == <<"reversed", nonce>>

\* The cypher text of a payload; the secret is of the nonce reversed.
Cypher(response_sid, request_pid, payload, nonce) ==
  Encrypted(Padded(payload), SharedSecret(response_sid, request_pid, Reversed(nonce)))

\* `ResponseData::insert`.
insert(response_sid, request_pid, payload, nonce) ==
  LET cypher == Cypher(response_sid, request_pid, payload, nonce)
  IN  CASE payload.size > DATA_SIZE -> Failed
        [] payload.size <= DATA_SIZE /\ request_pid = Absent ->
             ResponseData(Absent, Padded(payload))
        [] payload.size <= DATA_SIZE /\ request_pid # Absent ->
             ResponseData(cypher, Put(FRAGMENT_SIZE, cypher))

FirstBytes(data, length) ==
  IF length = Torn \/ length > FRAGMENT_SIZE THEN Failed ELSE Slice(data, 0, length)

\* `Data::data`: as many bytes as the last two say.
DataOf(data) == FirstBytes(data, ReadU16(data, LENGTH_OF_DATA_STARTING_POSITION))

\* `ResponseData::extract`, by the one who asked.
extract(rd, request_sid, request_pid, response_pid, nonce) ==
  LET secret == SharedSecret(request_sid, response_pid, Reversed(nonce))
      plain == Decrypted(Read(rd.data, 0, FRAGMENT_SIZE), rd.tag, secret)
  IN  IF rd.tag = Absent THEN DataOf(rd.data)
      ELSE IF request_pid # request_sid \/ plain = Failed THEN Failed
      ELSE DataOf(plain)

serialize_response_data(rd) ==
  (IF rd.tag = Absent THEN << >> ELSE Put(TAG_SIZE, rd.tag)) \o rd.data

\* `Data::new` refuses what is not a fragment; the callers cut it to measure.
deserialize_response_data(data, cyphertext) ==
  IF cyphertext
  THEN ResponseData(Read(data, 0, TAG_SIZE), Slice(data, TAG_SIZE, CYPHERTEXT_RESPONSE_DATA_SIZE))
  ELSE ResponseData(Absent, data)

\* `manifest` of `manifest_data`: what is signed.
manifest(rd, hbfi, nonce) ==
  rd.data \o (IF rd.tag = Absent THEN << >> ELSE Put(TAG_SIZE, rd.tag))
  \o serialize_hbfi(hbfi) \o Put(NONCE_SIZE, nonce)
-----------------------------------------------------------------------------
(* Narrow waist packets. *)

Request(hbfi, nonce) == [kind |-> "Request", hbfi |-> hbfi, nonce |-> nonce]

Response(hbfi, nonce, signature, rd) ==
  [kind |-> "Response", hbfi |-> hbfi, nonce |-> nonce, signature |-> signature, data |-> rd]

\* `NarrowWaistPacket::response`: only by the one the request names.
respond(response_sid, hbfi, payload, nonce) ==
  LET rd == insert(response_sid, hbfi.request_pid, payload, nonce)
  IN  IF hbfi.response_pid # response_sid \/ rd = Failed THEN Failed
      ELSE Response(hbfi, nonce,
                    [signer |-> response_sid, of |-> manifest(rd, hbfi, nonce)], rd)

verify(nw) ==
  nw.kind = "Response" =>
    nw.signature = [signer |-> nw.hbfi.response_pid, of |-> manifest(nw.data, nw.hbfi, nw.nonce)]

\* The size of a packet is a u16, added up from the sizes of its parts.
Sized(sig, nonce, hbfi, rd) ==
  [size |-> (HbfiSize(hbfi) + ByteCount(sig) + NONCE_SIZE + ByteCount(rd)) % 65536,
   bytes |-> sig \o nonce \o hbfi \o rd]

serialize_narrow_waist_packet(nw) ==
  IF nw.kind = "Request"
  THEN Sized(<< >>, Put(NONCE_SIZE, nw.nonce), serialize_hbfi(nw.hbfi), << >>)
  ELSE Sized(Put(SIG_SIZE, nw.signature), Put(NONCE_SIZE, nw.nonce), serialize_hbfi(nw.hbfi),
             serialize_response_data(nw.data))

\* The cleartext and the cyphertext function of each name.
deserialize_request(data, cyphertext) ==
  Request(deserialize_hbfi(Slice(data, NONCE_SIZE, ByteCount(data)), cyphertext),
          Read(data, 0, NONCE_SIZE))

deserialize_response(data, hbfi_end, end, cyphertext) ==
  Response(deserialize_hbfi(Slice(data, SIG_SIZE + NONCE_SIZE, hbfi_end), cyphertext),
           Read(data, SIG_SIZE, NONCE_SIZE), Read(data, 0, SIG_SIZE),
           deserialize_response_data(Slice(data, hbfi_end, end), cyphertext))

OfKnownSize(data, size) ==
  CASE size \in {CLEARTEXT_REQUEST_SIZE, CYPHERTEXT_REQUEST_SIZE} ->
         deserialize_request(data, size = CYPHERTEXT_REQUEST_SIZE)
    [] size \in {CLEARTEXT_RESPONSE_SIZE, CYPHERTEXT_RESPONSE_SIZE} ->
         deserialize_response(
           data,
           SIG_SIZE + NONCE_SIZE + (IF size = CYPHERTEXT_RESPONSE_SIZE
                                    THEN CYPHERTEXT_HBFI_SIZE ELSE CLEARTEXT_HBFI_SIZE),
           size, size = CYPHERTEXT_RESPONSE_SIZE)
    [] OTHER -> Failed

\* Packets are told apart by their size alone.
deserialize_narrow_waist_packet(data) == OfKnownSize(data, ByteCount(data))
-----------------------------------------------------------------------------
(* Link packets: [reply_to, nw].  A link is its identity and the other end's. *)

ReplyTo(type, address) == [type |-> type, address |-> address]

\* The addresses there are; that of a channel is empty.
IsReplyTo(rt) ==
  /\ rt = ReplyTo(rt.type, rt.address)
  /\ rt.type \in DOMAIN ReplyToSize
  /\ rt.type = "Mpsc" => rt.address = Absent

serialize_reply_to(rt) == Put(ReplyToSize[rt.type], rt.address)

\* The type, too, is told by the size.
deserialize_reply_to(data) ==
  LET types == {t \in DOMAIN ReplyToSize : ReplyToSize[t] = ByteCount(data)}
  IN  IF types = {} THEN Failed
      ELSE IF data = << >> THEN ReplyTo("Mpsc", Absent)
      ELSE ReplyTo(CHOOSE t \in types : TRUE, Read(data, 0, ByteCount(data)))

Header(reply_to, nw_size) == Put(1, ByteCount(reply_to) % 256) \o PutU16(nw_size) \o reply_to

\* What precedes the header is the sender's identity and, on a link with a
\* remote identity, the nonce and the tag.
Wrapped(reply_to, nw, cypher, link, nonce) ==
  IF link.remote_pid = Absent
  THEN Put(PID_SIZE, link.sid) \o Header(reply_to, nw.size) \o nw.bytes
  ELSE Put(PID_SIZE, link.sid) \o Put(NONCE_SIZE, nonce) \o Put(TAG_SIZE, cypher)
       \o Header(reply_to, nw.size) \o Put(ByteCount(nw.bytes), cypher)

\* The cypher text of a packet that was written.
LinkCypher(nw, link, nonce) ==
  Encrypted(nw.bytes, SharedSecret(link.sid, link.remote_pid, nonce))

SealedPacket(reply_to, nw, link, nonce) ==
  Wrapped(reply_to, nw, LinkCypher(nw, link, nonce), link, nonce)

serialize_link_packet(lp, link, nonce) ==
  SealedPacket(serialize_reply_to(lp.reply_to), serialize_narrow_waist_packet(lp.nw), link, nonce)

\* Whether link packet `data`, with its header at `from`, is as long as that says.
IsWhole(data, from) ==
  /\ Torn \notin {Read(data, from, 1), ReadU16(data, from + 1)}
  /\ from + 3 + Read(data, from, 1) + ReadU16(data, from + 1) <= ByteCount(data)

\* The two parts after the header, of the lengths it says.
Parts(data, from) ==
  LET nw_start == from + 3 + Read(data, from, 1)
  IN  [reply_to |-> Slice(data, from + 3, nw_start),
       nw |-> Slice(data, nw_start, nw_start + ReadU16(data, from + 1))]

LinkPacket(reply_to, nw) ==
  IF Failed \in {reply_to, nw} THEN Failed ELSE [reply_to |-> reply_to, nw |-> nw]

cleartext_link_packet(data, from) ==
  IF ~IsWhole(data, from) THEN Failed
  ELSE LinkPacket(deserialize_reply_to(Parts(data, from).reply_to),
                  deserialize_narrow_waist_packet(Parts(data, from).nw))

Opened(plain) == IF plain = Failed THEN Failed ELSE deserialize_narrow_waist_packet(plain)

Verified(nw) == IF nw = Failed THEN Failed ELSE IF verify(nw) THEN nw ELSE Failed

cyphertext_link_packet(data, from, tag, secret) ==
  IF ~IsWhole(data, from) THEN Failed
  ELSE LinkPacket(deserialize_reply_to(Parts(data, from).reply_to),
                  Verified(Opened(Decrypted(Value(Parts(data, from).nw), tag, secret))))

deserialize_link_packet(data, link) ==
  IF link.remote_pid = Absent
  THEN cleartext_link_packet(data, CLEARTEXT_LINK_REPLY_TO_SIZE_START)
  ELSE cyphertext_link_packet(
         data, CYPHERTEXT_LINK_REPLY_TO_SIZE_START,
         Read(data, CYPHERTEXT_LINK_TAG_START, TAG_SIZE),
         SharedSecret(link.sid, Read(data, 0, PID_SIZE), Read(data, PID_SIZE, NONCE_SIZE)))
=============================================================================
