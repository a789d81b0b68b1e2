------------------------------ MODULE Records ------------------------------
(***************************************************************************)
(* The byte formats of the pool: the serializer, the records the master    *)
(* keeps in its database, and the BlockMiner a job is made of.  A record   *)
(* is written, the bytes may lose their end, and are read back.            *)
(*                                                                         *)
(* Bytes and integers are scaled: a byte is below 2 * Half, an unsigned    *)
(* varint carries base-Half digits in at most MaxVarint bytes, a fixed     *)
(* integer has IntLen bytes, a hash HashLen.                               *)
(***************************************************************************)
EXTENDS Integers, Sequences, SequencesExt, FiniteSetsExt

CONSTANTS
    Half,       \* 128 in the code: the bit that says a varint goes on
    MaxVarint,  \* 10 in the code
    IntLen,     \* 8 in the code
    HashLen,    \* 32 in the code
    Samples     \* the records that are written

VARIABLES
    phase,   \* "new", "stored", "loaded"
    record,  \* what was written
    wire,    \* its bytes
    whole,   \* the bytes are complete
    result   \* what was read

vars == <<phase, record, wire, whole, result>>

-----------------------------------------------------------------------------
(* Serializer.                                                             *)

\* Mutant of AddUvarint: a digit too few when a value is exactly Half.
AddUvarintShort(n) ==
    LET u[k \in 0 .. n] ==
            IF k <= Half THEN <<k>> ELSE <<(k % Half) + Half>> \o u[k \div Half]
    IN  u[n]

AddUvarint(n) ==
    LET u[k \in 0 .. n] ==
            IF k < Half THEN <<k>> ELSE <<(k % Half) + Half>> \o u[k \div Half]
    IN  u[n]

\* Little-endian, as ReadUint64 reads it; q[i] is n without its first i - 1 bytes.
AddUint64(n) ==
    LET q[i \in 1 .. IntLen] == IF i = 1 THEN n ELSE q[i - 1] \div (2 * Half)
    IN  [i \in 1 .. IntLen |-> q[i] % (2 * Half)]

AddString(s) == AddUvarint(Len(s)) \o s

-----------------------------------------------------------------------------
(* Deserializer: the data that are left, the first error, the last value.  *)

Reader(data) == [data |-> data, ok |-> TRUE, val |-> 0]
Failed(d, zero) == [data |-> d.data, ok |-> FALSE, val |-> zero]
Taken(d, n, v) == [data |-> SubSeq(d.data, n + 1, Len(d.data)), ok |-> d.ok, val |-> v]

\* The value of the first n bytes in a base; v[i] is that of the last i of them.
LittleEndian(s, n, base) ==
    LET v[i \in 0 .. n] ==
            IF i = 0 THEN 0 ELSE (s[n - i + 1] % base) + base * v[i - 1]
    IN  v[n]

\* binary.Uvarint: an end that is missing is not an error, it is read as 0
\* bytes with the value 0.
ReadUvarint(d) ==
    LET ends == {i \in 1 .. Len(d.data) : d.data[i] < Half}
        n == IF ends = {} THEN 0 ELSE Min(ends)
    IN  IF ~d.ok \/ d.data = <<>> THEN Failed(d, 0)
        ELSE IF n > MaxVarint \/ (n = 0 /\ Len(d.data) > MaxVarint) THEN Failed(d, 0)
        ELSE Taken(d, n, LittleEndian(d.data, n, Half))

ReadUint64(d) ==
    IF ~d.ok \/ Len(d.data) < IntLen THEN Failed(d, 0)
    ELSE Taken(d, IntLen, LittleEndian(d.data, IntLen, 2 * Half))

ReadFixedByteArray(d, n) ==
    IF ~d.ok \/ Len(d.data) < n THEN Failed(d, <<>>)
    ELSE Taken(d, n, SubSeq(d.data, 1, n))

ReadUint8(d) == ReadFixedByteArray(d, 1)

ReadString(d) == LET len == ReadUvarint(d) IN ReadFixedByteArray(len, len.val)

-----------------------------------------------------------------------------
(* The records of the database.  Version is the byte they begin with.      *)

Version == <<0>>

SerializeShare(r) == Version \o AddString(r.Wallet) \o AddUint64(r.Diff) \o AddUint64(r.Time)

Ok(d, r) == [status |-> IF d.ok THEN "ok" ELSE "error", rec |-> r]

DeserializeShare(data) ==
    LET w == ReadString(ReadUint8(Reader(data)))
        d == ReadUint64(w)
        t == ReadUint64(d)
    IN  Ok(t, [kind |-> "share", Wallet |-> w.val, Diff |-> d.val, Time |-> t.val])

SerializeAddrInfo(r) ==
    Version \o AddUvarint(r.Balance) \o AddUvarint(r.BalancePending) \o AddUvarint(r.Paid)

DeserializeAddrInfo(data) ==
    LET b == ReadUvarint(ReadUint8(Reader(data)))
        q == ReadUvarint(b)
        p == ReadUvarint(q)
    IN  Ok(p, [kind |-> "addr", Balance |-> b.val, BalancePending |-> q.val, Paid |-> p.val])

\* Bals is written in the order in which the map is walked.
SerializeUnconfTx(r) ==
    Version \o AddUvarint(r.UnlockHeight) \o r.TxnBlockHash \o AddUvarint(Len(r.Bals))
        \o FlattenSeq([i \in DOMAIN r.Bals |->
                          AddString(r.Bals[i][1]) \o AddUvarint(r.Bals[i][2])])

\* A hash that is cut short panics; an error later is returned at the end.
DeserializeUnconfTx(data) ==
    LET h == ReadUvarint(ReadUint8(Reader(data)))
        x == ReadFixedByteArray(h, HashLen)
        n == ReadUvarint(x)
        b[i \in 0 .. n.val] ==
            IF i = 0 THEN [d |-> n, bals |-> <<>>]
            ELSE LET w == ReadString(b[i - 1].d)
                     v == ReadUvarint(w)
                 IN  [d |-> v, bals |-> Append(b[i - 1].bals, <<w.val, v.val>>)]
        last == b[n.val]
    IN  [status |-> IF ~x.ok THEN "panic" ELSE IF last.d.ok THEN "ok" ELSE "error",
         rest |-> last.d.data,
         rec |-> [UnlockHeight |-> h.val, TxnBlockHash |-> x.val, Bals |-> last.bals]]

SerializePendingBals(r) ==
    Version \o AddUvarint(r.LastHeight) \o AddUvarint(Len(r.UnconfirmedTxs))
        \o FlattenSeq([i \in DOMAIN r.UnconfirmedTxs |->
                          SerializeUnconfTx(r.UnconfirmedTxs[i])])

\* The entries follow one another without a length; the first that fails ends it.
DeserializePendingBals(data) ==
    LET h == ReadUvarint(ReadUint8(Reader(data)))
        n == ReadUvarint(h)
        e[i \in 0 .. n.val] ==
            IF i = 0
            THEN [status |-> IF n.ok THEN "ok" ELSE "error", rest |-> n.data, txs |-> <<>>]
            ELSE IF e[i - 1].status # "ok" THEN e[i - 1]
            ELSE LET u == DeserializeUnconfTx(e[i - 1].rest)
                 IN  [status |-> u.status, rest |-> u.rest,
                      txs |-> Append(e[i - 1].txs, u.rec)]
    IN  [status |-> e[n.val].status,
         rec |-> [kind |-> "pending", LastHeight |-> h.val, UnconfirmedTxs |-> e[n.val].txs]]

-----------------------------------------------------------------------------
(* BlockMiner: Workhash, Timestamp, Nonce, ExtraNonce, Publickey.  JobID   *)
(* and PoolNonce are the first bytes of ExtraNonce.  Timestamp and Nonce   *)
(* have IntLen bytes, the others HashLen.                                  *)

Set(b, from, val) ==
    [i \in DOMAIN b |-> IF i \in from + 1 .. from + Len(val) THEN val[i - from] ELSE b[i]]

BigEndian(n) == Reverse(AddUint64(n))

NewBlockMiner(work, extra, key, time) ==
    work \o BigEndian(time) \o BigEndian(0) \o extra \o key

\* The stamps of a job, set one after another.
Stamped(r) ==
    LET extraAt == HashLen + 2 * IntLen
        b0 == NewBlockMiner(r.Workhash, r.ExtraNonce, r.Publickey, 0)
        b1 == Set(b0, extraAt, r.JobID)
        b2 == Set(b1, extraAt + Len(r.JobID), r.PoolNonce)
        b3 == Set(b2, HashLen, BigEndian(r.Timestamp))
    IN  Set(b3, HashLen + IntLen, BigEndian(r.Nonce))

Part(b, from, n) == SubSeq(b, from + 1, from + n)

\* GetBlob leaves out Timestamp and Nonce.
GetBlob(b) ==
    Part(b, 0, HashLen) \o Part(b, HashLen + 2 * IntLen, HashLen)
        \o Part(b, 2 * HashLen + 2 * IntLen, HashLen)

NewBlockMinerFromBlob(blob) ==
    IF Len(blob) # 3 * HashLen THEN [status |-> "error", rec |-> <<>>]
    ELSE [status |-> "ok",
          rec |-> NewBlockMiner(Part(blob, 0, HashLen), Part(blob, HashLen, HashLen),
                                Part(blob, 2 * HashLen, HashLen), 0)]

-----------------------------------------------------------------------------
(* What the samples may be: strings of bytes, integers of IntLen bytes     *)
(* whose varint has at most MaxVarint, and stamps that fit in ExtraNonce.  *)

Byte == 0 .. 2 * Half - 1
Hash == [1 .. HashLen -> Byte]

IsUint64(n) ==
    /\ n \in Nat /\ Len(AddUvarint(n)) <= MaxVarint
    /\ \E s \in [1 .. IntLen -> Byte] : n = LittleEndian(s, IntLen, 2 * Half)

IsString(s) == s \in Seq(Byte) /\ IsUint64(Len(s))

UnconfTx == [UnlockHeight : Nat, TxnBlockHash : Hash, Bals : Seq(Seq(Byte) \X Nat)]

Encodable(t) ==
    /\ IsUint64(t.UnlockHeight) /\ IsUint64(Len(t.Bals))
    /\ \A i \in DOMAIN t.Bals : IsString(t.Bals[i][1]) /\ IsUint64(t.Bals[i][2])

IsShare(r) ==
    /\ r \in [kind : {"share"}, Wallet : Seq(Byte), Diff : Nat, Time : Nat]
    /\ IsString(r.Wallet) /\ IsUint64(r.Diff) /\ IsUint64(r.Time)

IsAddrInfo(r) ==
    /\ r \in [kind : {"addr"}, Balance : Nat, BalancePending : Nat, Paid : Nat]
    /\ IsUint64(r.Balance) /\ IsUint64(r.BalancePending) /\ IsUint64(r.Paid)

IsPendingBals(r) ==
    /\ r \in [kind : {"pending"}, LastHeight : Nat, UnconfirmedTxs : Seq(UnconfTx)]
    /\ IsUint64(r.LastHeight) /\ IsUint64(Len(r.UnconfirmedTxs))
    /\ \A i \in DOMAIN r.UnconfirmedTxs : Encodable(r.UnconfirmedTxs[i])

IsWork(r) ==
    /\ r.kind = "work"
    /\ r.Workhash \in Hash /\ r.ExtraNonce \in Hash /\ r.Publickey \in Hash
    /\ r.JobID \in Seq(Byte) /\ r.PoolNonce \in Seq(Byte)
    /\ Len(r.JobID) + Len(r.PoolNonce) <= HashLen

RecordsConstants ==
    /\ Half \in Nat /\ Half >= 2 /\ MaxVarint \in Nat
    /\ IntLen \in Nat \ {0} /\ HashLen \in Nat
    /\ \A r \in Samples :
         \/ r.kind = "share" /\ IsShare(r)
         \/ r.kind = "addr" /\ IsAddrInfo(r)
         \/ r.kind = "pending" /\ IsPendingBals(r)
         \/ IsWork(r)

-----------------------------------------------------------------------------
Serialize(r) ==
    CASE r.kind = "share" -> SerializeShare(r)
      [] r.kind = "addr" -> SerializeAddrInfo(r)
      [] r.kind = "pending" -> SerializePendingBals(r)
      [] r.kind = "work" -> GetBlob(Stamped(r))

Deserialize(kind, data) ==
    CASE kind = "share" -> DeserializeShare(data)
      [] kind = "addr" -> DeserializeAddrInfo(data)
      [] kind = "pending" -> DeserializePendingBals(data)
      [] kind = "work" -> NewBlockMinerFromBlob(data)

Init ==
    /\ phase = "new" /\ record \in Samples
    /\ wire = <<>> /\ whole = TRUE /\ result = [status |-> "none"]

Store ==
    /\ phase = "new" /\ phase' = "stored"
    /\ wire' = Serialize(record)
    /\ UNCHANGED <<record, whole, result>>

\* The last byte is lost.
Cut ==
    /\ phase = "stored" /\ wire # <<>>
    /\ wire' = SubSeq(wire, 1, Len(wire) - 1) /\ whole' = FALSE
    /\ UNCHANGED <<phase, record, result>>

Load ==
    /\ phase = "stored" /\ phase' = "loaded"
    /\ result' = Deserialize(record.kind, wire)
    /\ UNCHANGED <<record, wire, whole>>

Next == Store \/ Cut \/ Load
Spec == Init /\ [][Next]_vars

-----------------------------------------------------------------------------
(* Properties.                                                             *)

\* The bytes end within a varint.
EndsInVarint == wire # <<>> /\ wire[Len(wire)] >= Half

\* The record that a work blob stands for: everything but Timestamp and Nonce.
Unstamped(r) == NewBlockMiner(r.Workhash,
                              r.JobID \o r.PoolNonce
                                  \o SubSeq(r.ExtraNonce, Len(r.JobID \o r.PoolNonce) + 1, HashLen),
                              r.Publickey, 0)

\* What was written is what is read (database.go:28-179, serializer.go:32-59,
\* block_miner.go:33-149), at every size of its integers, with several entries
\* one behind the other and with stamps that overlap; and of a record that has
\* lost its end nothing is taken for good, except where the end was inside a
\* varint, which is read as 0 (deserializer.go:84-89).
ReadsWhatWasWritten ==
    phase = "loaded" =>
        IF whole
        THEN /\ result.status = "ok"
             /\ result.rec = IF record.kind = "work" THEN Unstamped(record) ELSE record
        ELSE result.status # "ok" \/ (record.kind # "work" /\ EndsInVarint)
=============================================================================
