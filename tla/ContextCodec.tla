---------------------------- MODULE ContextCodec ----------------------------
(***************************************************************************)
(* The context-ID codec of the autoretrieve provider: makeContextID and    *)
(* readContextID (src/autoretrieve/autoretrieve.go, lines 348-380).        *)
(*                                                                         *)
(* A context ID is two big-endian unsigned fields of Width bytes each      *)
(* (first content ID and count, uint32 in the code: Width = 4, Radix =     *)
(* 256) followed by the peer ID's bytes, with no length prefix.  A byte is *)
(* a digit in 0..Radix-1, so that TLC can run the codec scaled down.       *)
(*                                                                         *)
(* The operators are checked by TLC on every input of a bounded domain:    *)
(* the variables only choose the input, and never change.                  *)
(***************************************************************************)
EXTENDS Integers, Sequences

CONSTANTS
    Radix,       \* values of a byte (256)
    Width,       \* bytes of a field (4 for uint32)
    Peers,       \* peer IDs
    PeerCode,    \* peer.ID.MarshalBinary: the bytes of each peer ID
    MaxContent   \* largest content ID the inputs use

ASSUME CodecAssumption ==
    /\ Radix \in Nat \ {0, 1}
    /\ Width \in Nat \ {0}
    /\ MaxContent \in Nat
    /\ Peers # {}
    /\ PeerCode \in [Peers -> Seq(0..Radix - 1)]
    \* a peer ID is its bytes: distinct peers have distinct encodings
    /\ \A p, q \in Peers : PeerCode[p] = PeerCode[q] => p = q

Bytes == 0..Radix - 1
FieldMax == Radix ^ Width          \* 2^32
HeaderLen == 2 * Width             \* the 8 bytes before the peer ID

(* The uint32(...) conversion of a Go uint: the value modulo 2^32.         *)
ToUint32(x) == x % FieldMax

(* binary.BigEndian.PutUint32 writing the digits least significant first.  *)
PutUintLittle(x) == [i \in 1..Width |-> (x \div Radix ^ (i - 1)) % Radix]

(* binary.BigEndian.PutUint32: most significant byte first.                *)
PutUint(x) == [i \in 1..Width |-> (x \div Radix ^ (Width - i)) % Radix]

(* binary.BigEndian.Uint32 reading the bytes least significant first.      *)
GetUintLittle(s) ==
    LET v[i \in 0..Width] == IF i = 0 THEN 0 ELSE v[i - 1] * Radix + s[Width + 1 - i]
    IN  v[Width]

(* binary.BigEndian.Uint32: the value of Width big-endian bytes.           *)
GetUint(s) ==
    LET v[i \in 0..Width] == IF i = 0 THEN 0 ELSE v[i - 1] * Radix + s[i]
    IN  v[Width]

(* makeContextID: both fields converted to uint32 and written big-endian,  *)
(* then the peer ID's bytes appended.  MarshalBinary of a peer ID does not *)
(* fail.                                                                    *)
MakeContextID(params) ==
    PutUint(ToUint32(params.first)) \o PutUint(ToUint32(params.count))
        \o PeerCode[params.provider]

(* The outcomes of readContextID: a panic of the slice expression          *)
(* contextID[8:] on a shorter input, the error of peer.IDFromBytes on a    *)
(* tail that is not exactly one peer ID, or the decoded parameters.        *)
Result(status, p, f, c) == [status |-> status, provider |-> p, first |-> f, count |-> c]
NoPeer == CHOOSE p \in Peers : TRUE

(* readContextID with a peer-ID parse that stops after a peer ID and       *)
(* ignores the bytes after it.                                              *)
ReadContextIDPrefix(b) ==
    IF Len(b) < HeaderLen
    THEN Result("panic", NoPeer, 0, 0)
    ELSE LET tail == SubSeq(b, HeaderLen + 1, Len(b))
             Starts(p) == Len(PeerCode[p]) <= Len(tail)
                            /\ SubSeq(tail, 1, Len(PeerCode[p])) = PeerCode[p]
         IN
         IF \A p \in Peers : ~Starts(p)
         THEN Result("malformed", NoPeer, 0, 0)
         ELSE Result("ok", CHOOSE p \in Peers : Starts(p),
                     GetUint(SubSeq(b, 1, Width)),
                     GetUint(SubSeq(b, Width + 1, HeaderLen)))

ReadContextID(b) ==
    IF Len(b) < HeaderLen
    THEN Result("panic", NoPeer, 0, 0)
    ELSE LET tail == SubSeq(b, HeaderLen + 1, Len(b)) IN
         IF \A p \in Peers : PeerCode[p] # tail
         THEN Result("malformed", NoPeer, 0, 0)
         ELSE Result("ok", CHOOSE p \in Peers : PeerCode[p] = tail,
                     GetUint(SubSeq(b, 1, Width)),
                     GetUint(SubSeq(b, Width + 1, HeaderLen)))

-----------------------------------------------------------------------------
(* The inputs: contextParams as Run builds them, and arbitrary byte        *)
(* strings as the lister may receive them, up to one byte longer than the *)
(* longest context ID.                                                      *)
Params == [provider : Peers, first : 0..MaxContent, count : 0..FieldMax - 1]
PeerLens == {Len(PeerCode[p]) : p \in Peers}
MaxLen == HeaderLen + CHOOSE n \in PeerLens : \A m \in PeerLens : m <= n
Strings == UNION {[1..n -> Bytes] : n \in 0..MaxLen + 1}

VARIABLES params, bytes

Init == bytes \in Strings /\ params \in Params
Next == UNCHANGED <<params, bytes>>
Spec == Init /\ [][Next]_<<params, bytes>>

-----------------------------------------------------------------------------
(* For every first content ID that fits in a uint32, readContextID gives   *)
(* back exactly the peer, first content ID and count makeContextID was     *)
(* given: the lister resolves the window Run advertised.                   *)
CodecRoundTrip ==
    params.first < FieldMax =>
        ReadContextID(MakeContextID(params))
            = Result("ok", params.provider, params.first, params.count)

(* Every byte string readContextID accepts is the context ID makeContextID *)
(* builds from what it decoded: decoding is unambiguous, as the routing    *)
(* network's byte-for-byte handle requires.                                 *)
DecodeReencodes ==
    LET r == ReadContextID(bytes) IN
    r.status = "ok" =>
        MakeContextID([provider |-> r.provider, first |-> r.first,
                       count |-> r.count]) = bytes

(* The spec's codec invariant for every content ID: decode(encode(peer,   *)
(* first, count)) = (peer, first, count).                                   *)
EveryBatchRoundTrips ==
    ReadContextID(MakeContextID(params)).first = params.first

(* The spec's decode contract: an input shorter than 8 bytes is rejected   *)
(* as malformed, not a crash of the lister.                                 *)
DecodeNeverPanics == ReadContextID(bytes).status # "panic"
=============================================================================
