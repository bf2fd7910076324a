-------------------------- MODULE NativeCallProofs --------------------------
(***************************************************************************)
(* The host's limits hold, every call is recorded and its receipt is honest, *)
(* and the call implements the ledger, for all limits, all children and all *)
(* documents.                                                               *)
(*                                                                          *)
(* WithinLimits is not inductive: it says nothing of what a call has        *)
(* reserved and not used yet.  Held adds, for each place document() can be  *)
(* at, what the reservation made in Begin still guarantees there.           *)
(* Flows follows what the child writes through the pipes, for the receipt;   *)
(* Granted says that the call under way would be admitted by what it has left *)
(* of its reservation, for the ledger that charges it all at once.           *)
(***************************************************************************)
EXTENDS NativeCall, TLAPS

Streaming == {"select", "read", "wait", "account"}

(* The directory is what the counters say, but for two streams being read.   *)
Counted ==
    /\ pc \in Streaming =>
         /\ disk.files = ledger.files + 2
         /\ disk.bytes = ledger.bytes + Total(got)
    /\ pc \notin Streaming \cup {"crashed"} =>
         /\ disk.files = ledger.files
         /\ disk.bytes = ledger.bytes

(* The file entries and the bytes a call still has reserved.                 *)
FilesHeld == IF pc = "directory" THEN 5
             ELSE IF pc = "stdin" THEN 4
             ELSE IF pc \in {"spawn"} \cup Streaming THEN 3
             ELSE IF pc = "receipt" THEN 1 ELSE 0

BytesHeld == IF pc \in {"directory", "stdin"} THEN len + ReceiptReserve
             ELSE IF pc \in {"spawn", "receipt"} THEN ReceiptReserve
             ELSE IF pc \in Streaming THEN Total(got) + allowance + ReceiptReserve
             ELSE 0

OutputHeld == IF pc \in Streaming THEN Total(got) + allowance ELSE 0

Held ==
    /\ ledger.files + FilesHeld <= Limits.capture_files
    /\ ledger.bytes + BytesHeld <= Limits.capture_bytes
    /\ ledger.output + OutputHeld <= Limits.native_output_bytes
    /\ pc = "receipt" => Total(got) <= Limits.native_output_bytes
    /\ pc = "crashed" => /\ disk.files <= Limits.capture_files
                         /\ disk.bytes <= Limits.capture_bytes

(* Five entries for each receipt, and those of the call under way.           *)
Recorded ==
    pc # "crashed" =>
      ledger.files = 1 + 5 * Len(calls)
                       + (IF pc = "stdin" THEN 1
                          ELSE IF pc \in {"spawn"} \cup Streaming THEN 2
                          ELSE IF pc = "receipt" THEN 4 ELSE 0)

Inv == TypeOK /\ Counted /\ Held /\ Recorded

----------------------------------------------------------------------------
LEMMA StreamsAreTwo == "stdout" \in Streams /\ "stderr" \in Streams
BY DEF Streams

LEMMA TotalIsNat == ASSUME NEW f \in [Streams -> Nat] PROVE Total(f) \in Nat
BY DEF Total, Streams

LEMMA DigitsAreNat ==
    ASSUME NEW n \in 0..Limits.native_output_bytes
    PROVE  Digits(n) \in Nat /\ Digits(n) <= Digits(Limits.native_output_bytes)
           /\ Digits(Limits.native_output_bytes) \in Nat
<1>1. Limits.native_output_bytes \in 0..Limits.native_output_bytes
  BY LimitsAssumption
<1>2. n <= Limits.native_output_bytes
  OBVIOUS
<1> QED BY <1>1, <1>2, DigitsAssumption

LEMMA ReserveIsNat == ReceiptReserve \in Nat
<1>1. Digits(Limits.native_output_bytes) \in Nat
  <2>1. 0 \in 0..Limits.native_output_bytes
    BY LimitsAssumption
  <2> QED BY <2>1, DigitsAreNat
<1> QED BY <1>1, SizeAssumption DEF ReceiptReserve

(* The receipt of any call fits in what was reserved for it.                 *)
LEMMA ReceiptFits ==
    ASSUME NEW sizes \in [Streams -> Nat], Total(sizes) <= Limits.native_output_bytes,
           NEW started \in BOOLEAN, NEW killed \in BOOLEAN
    PROVE  /\ ReceiptSize(sizes, started, killed) \in Nat
           /\ ReceiptSize(sizes, started, killed) <= ReceiptReserve
<1>1. /\ sizes["stdout"] \in 0..Limits.native_output_bytes
      /\ sizes["stderr"] \in 0..Limits.native_output_bytes
  BY StreamsAreTwo, LimitsAssumption DEF Total
<1>2. PICK D \in Nat : D = Digits(Limits.native_output_bytes)
  BY <1>1, DigitsAreNat
<1>3. PICK out \in 0..D : out = Digits(sizes["stdout"])
  BY <1>1, <1>2, DigitsAreNat
<1>4. PICK err \in 0..D : err = Digits(sizes["stderr"])
  BY <1>1, <1>2, DigitsAreNat
<1> QED BY <1>2, <1>3, <1>4, SizeAssumption DEF ReceiptSize, ReceiptReserve

----------------------------------------------------------------------------
LEMMA HeldIsNat ==
    ASSUME TypeOK PROVE FilesHeld \in Nat /\ BytesHeld \in Nat /\ OutputHeld \in Nat
<1>1. Total(got) \in Nat /\ len \in Nat /\ allowance \in Nat
  BY TotalIsNat DEF TypeOK
<1> QED BY <1>1, ReserveIsNat DEF FilesHeld, BytesHeld, OutputHeld

(* The typed numbers Held speaks of, as facts a leaf can take. *)
LEMMA LedgerTyped ==
    ASSUME TypeOK
    PROVE  /\ ledger.files \in Nat /\ ledger.bytes \in Nat /\ ledger.output \in Nat
           /\ disk.files \in Nat /\ disk.bytes \in Nat
           /\ Limits.capture_files \in Nat /\ Limits.capture_bytes \in Nat
           /\ Limits.native_output_bytes \in Nat
           /\ Len(calls) \in Nat
BY LimitsAssumption DEF TypeOK

LEMMA InitInv == Init => Inv
BY LimitsAssumption, StreamsAreTwo
   DEF Init, Inv, TypeOK, Counted, Held, Recorded, FilesHeld, BytesHeld, OutputHeld,
       Streaming, NoChild, NoBytes, Streams, PcValues, Refusals, Says

(* What stands between a state and its charges: the parts of Inv that only    *)
(* speak of pc, the counters and the reservations.                           *)
LEMMA BeginInv == ASSUME Inv, NEW n \in Lengths, Begin(n) PROVE Inv'
<1> USE ReserveIsNat DEF Inv, Begin, Refuse, Goto, charges, locals, process
<1>1. n \in Nat
  BY SizeAssumption
<1>2. CASE Reservation(n) = "none"
  <2>1. /\ pc' = "directory" /\ len' = n
        /\ UNCHANGED <<ledger, disk, calls, allowance, complete, registered, ready, got,
                       child, pipe, wrote, refusal>>
    BY <1>2
  <2>3. Expected(n) \in Nat
    BY <1>1, SizeAssumption DEF Expected
  <2>2. /\ ledger.files + 5 <= Limits.capture_files
        /\ ledger.bytes + n + Expected(n) + ReceiptReserve
              <= Limits.capture_bytes
    <3>1. ~(ledger.files + 5 > Limits.capture_files)
      BY <1>2 DEF Reservation
    <3>2. ~(ledger.bytes + n + Expected(n) + ReceiptReserve > Limits.capture_bytes)
      BY <1>2 DEF Reservation
    <3> QED BY <3>1, <3>2, <2>3, <1>1, LimitsAssumption DEF TypeOK
  <2>4. TypeOK'
    BY <2>1, <1>1 DEF TypeOK, PcValues
  <2>5. Counted'
    BY <2>1 DEF Counted, Streaming
  <2>6. Held'
    <3>1. FilesHeld' = 5 /\ BytesHeld' = n + ReceiptReserve /\ OutputHeld' = 0
      BY <2>1 DEF FilesHeld, BytesHeld, OutputHeld, Streaming
    <3>2. ledger.output <= Limits.native_output_bytes
      BY HeldIsNat, LedgerTyped DEF Held
    <3>3. ledger' = ledger /\ pc' = "directory"
      BY <2>1
    <3>4. ledger.files + FilesHeld' <= Limits.capture_files
      BY <2>2, <3>1
    <3>5. ledger.bytes + BytesHeld' <= Limits.capture_bytes
      BY <2>2, <2>3, <1>1, <3>1, LedgerTyped
    <3>6. ledger.output + OutputHeld' <= Limits.native_output_bytes
      BY <3>1, <3>2, LedgerTyped
    <3> QED BY <3>3, <3>4, <3>5, <3>6 DEF Held
  <2>7. Recorded'
    BY <2>1 DEF Recorded, Streaming
  <2> QED BY <2>4, <2>5, <2>6, <2>7
<1>3. CASE Reservation(n) # "none"
  <2>1. /\ pc' = "refused" /\ len' = n /\ refusal' \in Refusals
        /\ UNCHANGED <<ledger, disk, calls, allowance, complete, registered, ready, got,
                       child, pipe, wrote>>
    BY <1>3 DEF Reservation, Refusals
  <2>2. TypeOK'
    BY <2>1, <1>1 DEF TypeOK, PcValues
  <2>3. Counted' /\ Held' /\ Recorded'
    BY <2>1 DEF Counted, Held, Recorded, FilesHeld, BytesHeld, OutputHeld, Streaming, TypeOK
  <2> QED BY <2>2, <2>3
<1> QED BY <1>2, <1>3

(* Keep, wherever document() stands, once the reservation covers what it adds. *)
LEMMA KeepInv ==
    ASSUME Inv, NEW n \in Nat, NEW fits \in BOOLEAN, NEW label \in PcValues,
           Keep(n, fits, label),
           pc \in {"directory", "stdin", "receipt"},
           n <= BytesHeld,
           pc = "directory" => label = "stdin",
           pc = "stdin" => label = "spawn",
           pc = "receipt" => label = "judge",
           pc = "directory" => n = 0,
           pc = "stdin" => n = len,
           fits,
           calls' = IF pc' = "judge" THEN Append(calls, Receipt) ELSE calls
    PROVE  Inv'
<1> USE ReserveIsNat DEF Inv, Keep, Goto, locals, process
<1>0. /\ UNCHANGED <<len, allowance, complete, registered, ready, got,
                     child, pipe, wrote, refusal>>
      /\ Receipt \in [started : BOOLEAN, exit : Int, complete : BOOLEAN,
                      sizes : [Streams -> Nat]]
  BY DEF Receipt, TypeOK
<1>1. CASE /\ ledger' = [files |-> ledger.files + 1, bytes |-> ledger.bytes + n,
                         output |-> ledger.output]
           /\ disk' = [files |-> disk.files + 1, bytes |-> disk.bytes + n]
           /\ pc' = label
  <2>1. TypeOK'
    <3>1. calls' \in Seq([started : BOOLEAN, exit : Int, complete : BOOLEAN,
                          sizes : [Streams -> Nat]])
      <4>1. CASE calls' = calls
        BY <4>1 DEF TypeOK
      <4>2. CASE calls' = Append(calls, Receipt)
        <5> DEFINE Receipts == [started : BOOLEAN, exit : Int, complete : BOOLEAN,
                                sizes : [Streams -> Nat]]
        <5>1. calls \in Seq(Receipts) /\ Receipt \in Receipts
          BY <1>0 DEF TypeOK
        <5> HIDE DEF Receipts
        <5>2. Append(calls, Receipt) \in Seq(Receipts)
          BY <5>1
        <5> QED BY <4>2, <5>2 DEF Receipts
      <4> QED BY <4>1, <4>2
    <3>2. ledger' \in [files : Nat, bytes : Nat, output : Nat] /\ disk' \in [files : Nat, bytes : Nat]
      BY <1>1 DEF TypeOK
    <3> QED BY <1>0, <1>1, <3>1, <3>2 DEF TypeOK
  <2>2. Counted'
    BY <1>0, <1>1 DEF Counted, Streaming, TypeOK
  <2>3. Held'
    <3>1. FilesHeld' = FilesHeld - 1
      BY <1>1 DEF FilesHeld, Streaming
    <3>2. BytesHeld' \in Nat /\ n + BytesHeld' <= BytesHeld
      BY <1>0, <1>1 DEF BytesHeld, Streaming, TypeOK
    <3>3. OutputHeld' = 0 /\ OutputHeld = 0 /\ pc' \notin {"receipt", "crashed"}
      BY <1>1 DEF OutputHeld, Streaming
    <3>4. /\ ledger'.files = ledger.files + 1 /\ ledger'.bytes = ledger.bytes + n
          /\ ledger'.output = ledger.output
      BY <1>1
    <3>5. /\ ledger.files + FilesHeld <= Limits.capture_files
          /\ ledger.bytes + BytesHeld <= Limits.capture_bytes
          /\ ledger.output + OutputHeld <= Limits.native_output_bytes
      BY DEF Held
    <3>0. /\ FilesHeld \in Nat /\ BytesHeld \in Nat
          /\ ledger.files \in Nat /\ ledger.bytes \in Nat
          /\ Limits.capture_files \in Nat /\ Limits.capture_bytes \in Nat
      BY HeldIsNat, LedgerTyped
    <3>6. ledger'.files + FilesHeld' <= Limits.capture_files
      BY <3>0, <3>1, <3>4, <3>5
    <3>7. ledger'.bytes + BytesHeld' <= Limits.capture_bytes
      BY <3>0, <3>2, <3>4, <3>5
    <3>8. ledger'.output + OutputHeld' <= Limits.native_output_bytes
      BY <3>3, <3>4, <3>5
    <3> QED BY <3>3, <3>6, <3>7, <3>8 DEF Held
  <2>4. Recorded'
    <3>1. Len(calls) \in Nat
      BY DEF TypeOK
    <3>2. Len(calls') = IF pc = "receipt" THEN Len(calls) + 1 ELSE Len(calls)
      BY <1>0, <1>1 DEF TypeOK
    <3>3. ledger'.files = ledger.files + 1
      BY <1>1
    <3>4. CASE pc = "directory"
      BY <1>1, <3>1, <3>2, <3>3, <3>4, LedgerTyped DEF Recorded, Streaming
    <3>5. CASE pc = "stdin"
      BY <1>1, <3>1, <3>2, <3>3, <3>5, LedgerTyped DEF Recorded, Streaming
    <3>6. CASE pc = "receipt"
      BY <1>1, <3>1, <3>2, <3>3, <3>6, LedgerTyped DEF Recorded, Streaming
    <3> QED BY <3>4, <3>5, <3>6
  <2> QED BY <2>1, <2>2, <2>3, <2>4
<1>2. CASE /\ pc' = "crashed" /\ ledger' = ledger
           /\ \E written \in 0..n : disk' = [files |-> disk.files + 1,
                                             bytes |-> disk.bytes + written]
  <2>1. PICK written \in 0..n : disk' = [files |-> disk.files + 1,
                                         bytes |-> disk.bytes + written]
    BY <1>2
  <2>2. TypeOK'
    <3>1. disk' \in [files : Nat, bytes : Nat] /\ pc' \in PcValues /\ calls' = calls
      BY <1>2, <2>1 DEF TypeOK, PcValues
    <3> QED BY <1>0, <1>2, <3>1 DEF TypeOK
  <2>3. Counted' /\ Recorded'
    BY <1>2 DEF Counted, Recorded, Streaming
  <2>4. Held'
    <3>1. /\ disk'.files = ledger.files + 1 /\ disk'.bytes <= ledger.bytes + n
          /\ disk'.bytes \in Nat
      BY <2>1 DEF Counted, Streaming, TypeOK
    <3>2. FilesHeld >= 1 /\ OutputHeld = 0
      BY DEF FilesHeld, OutputHeld, Streaming
    <3>3. FilesHeld' = 0 /\ BytesHeld' = 0 /\ OutputHeld' = 0
      BY <1>2 DEF FilesHeld, BytesHeld, OutputHeld, Streaming
    <3>4. /\ ledger.files + FilesHeld <= Limits.capture_files
          /\ ledger.bytes + BytesHeld <= Limits.capture_bytes
          /\ ledger.output + OutputHeld <= Limits.native_output_bytes
      BY DEF Held
    <3>0. /\ FilesHeld \in Nat /\ BytesHeld \in Nat
          /\ ledger.files \in Nat /\ ledger.bytes \in Nat /\ ledger.output \in Nat
          /\ Limits.capture_files \in Nat /\ Limits.capture_bytes \in Nat
      BY HeldIsNat, LedgerTyped
    <3>7. n <= BytesHeld
      OBVIOUS
    <3>5. disk'.files <= Limits.capture_files /\ disk'.bytes <= Limits.capture_bytes
      BY <3>0, <3>1, <3>2, <3>4, <3>7
    <3>6. /\ ledger'.files + FilesHeld' <= Limits.capture_files
          /\ ledger'.bytes + BytesHeld' <= Limits.capture_bytes
          /\ ledger'.output + OutputHeld' <= Limits.native_output_bytes
      BY <1>2, <3>0, <3>2, <3>3, <3>4
    <3> QED BY <1>2, <3>5, <3>6 DEF Held
  <2> QED BY <2>2, <2>3, <2>4
<1> QED BY <1>1, <1>2

LEMMA MakeDirectoryInv == ASSUME Inv, MakeDirectory PROVE Inv'
<1>1. ledger.files + 1 <= Limits.capture_files
  BY LedgerTyped DEF Inv, MakeDirectory, Held, FilesHeld
<1>2. Keep(0, TRUE, "stdin") /\ calls' = calls
  BY <1>1 DEF MakeDirectory, Directory
<1>3. pc' # "judge"
  BY <1>2 DEF Keep, Goto
<1>4. BytesHeld \in Nat
  BY HeldIsNat DEF Inv
<1>5. pc = "directory" /\ 0 <= BytesHeld
  BY <1>4 DEF MakeDirectory
<1> QED BY <1>2, <1>3, <1>5, KeepInv DEF PcValues

LEMMA RetainInputInv == ASSUME Inv, RetainInput PROVE Inv'
<1>1. len \in Nat /\ ReceiptReserve \in Nat /\ BytesHeld = len + ReceiptReserve /\ FilesHeld = 4
  BY ReserveIsNat DEF Inv, TypeOK, RetainInput, BytesHeld, FilesHeld
<1>2. /\ ledger.files + FilesHeld <= Limits.capture_files
      /\ ledger.bytes + BytesHeld <= Limits.capture_bytes
  BY DEF Inv, Held
<1>3. /\ ledger.files \in Nat /\ ledger.bytes \in Nat
      /\ Limits.capture_files \in Nat /\ Limits.capture_bytes \in Nat
  BY LedgerTyped DEF Inv
<1>4. ledger.files + 1 <= Limits.capture_files /\ ledger.bytes + len <= Limits.capture_bytes
  BY <1>1, <1>2, <1>3
<1>5. Keep(len, TRUE, "spawn") /\ calls' = calls /\ pc = "stdin"
  BY <1>4 DEF RetainInput, Retain
<1>6. pc' # "judge"
  BY <1>5 DEF Keep, Goto
<1>7. len <= BytesHeld
  BY <1>1
<1> QED BY <1>1, <1>5, <1>6, <1>7, KeepInv DEF PcValues

LEMMA WriteReceiptInv == ASSUME Inv, WriteReceipt PROVE Inv'
<1> DEFINE size == ReceiptSize(got, child.started, child.killed)
<1>0. pc = "receipt"
  BY DEF WriteReceipt
<1>1. size \in Nat /\ size <= ReceiptReserve
  <2>1. Total(got) <= Limits.native_output_bytes
    BY <1>0 DEF Inv, Held
  <2> QED BY <2>1, ReceiptFits DEF Inv, TypeOK
<1> HIDE DEF size
<1>2. ReceiptReserve \in Nat /\ BytesHeld = ReceiptReserve /\ FilesHeld = 1
  BY <1>0, ReserveIsNat DEF BytesHeld, FilesHeld, Streaming
<1>3. /\ ledger.files + FilesHeld <= Limits.capture_files
      /\ ledger.bytes + BytesHeld <= Limits.capture_bytes
  BY DEF Inv, Held
<1>4. /\ ledger.files \in Nat /\ ledger.bytes \in Nat
      /\ Limits.capture_files \in Nat /\ Limits.capture_bytes \in Nat
  BY LedgerTyped DEF Inv
<1>5. ledger.files + 1 <= Limits.capture_files /\ ledger.bytes + size <= Limits.capture_bytes
  BY <1>1, <1>2, <1>3, <1>4
<1>6. /\ Retain(size, "judge")
      /\ calls' = IF pc' = "judge" THEN Append(calls, Receipt) ELSE calls
  BY DEF WriteReceipt, size
<1>7. Keep(size, TRUE, "judge")
  BY <1>5, <1>6 DEF Retain
<1>8. size <= BytesHeld
  BY <1>1, <1>2
<1> QED BY <1>0, <1>1, <1>6, <1>7, <1>8, KeepInv DEF PcValues

LEMMA SpawnInv == ASSUME Inv, Spawn PROVE Inv'
<1>0. pc = "spawn" /\ TypeOK
  BY DEF Spawn, Inv
<1>1. /\ ledger' = ledger /\ calls' = calls /\ len' = len /\ refusal' = refusal
      /\ disk' = [files |-> disk.files + 2, bytes |-> disk.bytes]
      /\ allowance' = Allowance /\ got' = NoBytes /\ pipe' = NoBytes /\ wrote' = NoBytes
      /\ ready' = {} /\ registered' \in SUBSET Streams /\ complete' \in BOOLEAN
      /\ pc' \in {"select", "account"}
  BY DEF Spawn, Goto
<1>2. Total(NoBytes) = 0 /\ NoBytes \in [Streams -> Nat]
  BY DEF Total, NoBytes, Streams
<1>3. /\ ledger.files + 3 <= Limits.capture_files
      /\ ledger.bytes + ReceiptReserve <= Limits.capture_bytes
      /\ ledger.output <= Limits.native_output_bytes
  <2>1. FilesHeld = 3 /\ BytesHeld = ReceiptReserve /\ OutputHeld = 0
    BY <1>0 DEF FilesHeld, BytesHeld, OutputHeld, Streaming
  <2>2. ledger.output \in Nat
    BY <1>0, LedgerTyped
  <2> QED BY <2>1, <2>2 DEF Inv, Held
<1>4. /\ ledger.files \in Nat /\ ledger.bytes \in Nat /\ ledger.output \in Nat
      /\ disk.files \in Nat /\ disk.bytes \in Nat
      /\ Limits.capture_files \in Nat /\ Limits.capture_bytes \in Nat
      /\ Limits.native_output_bytes \in Nat /\ ReceiptReserve \in Nat
  BY <1>0, LedgerTyped, ReserveIsNat
<1>5. /\ Allowance \in Nat
      /\ ledger.bytes + Allowance + ReceiptReserve <= Limits.capture_bytes
      /\ ledger.output + Allowance <= Limits.native_output_bytes
  BY <1>3, <1>4 DEF Allowance, Least
<1>6. TypeOK'
  <2>1. child' \in [started : BOOLEAN, alive : BOOLEAN, killed : BOOLEAN, open : SUBSET Streams, exit : Int,
                   says : Says \cup {"nothing"}, plan : [Streams -> Nat]]
    <3>1. CASE child' = NoChild
      <4> HIDE DEF NoBytes
      <4> QED BY <1>2, <3>1 DEF NoChild
    <3>2. CASE \E plan \in Plans : child' = Started(plan)
      <4>1. PICK plan \in Plans : child' = Started(plan)
        BY <3>2
      <4>2. plan \in [Streams -> Nat]
        BY SizeAssumption
      <4> QED BY <4>1, <4>2 DEF Started
    <3> QED BY <3>1, <3>2 DEF Spawn
  <2>2. disk' \in [files : Nat, bytes : Nat] /\ pc' \in PcValues
    BY <1>1, <1>4 DEF PcValues
  <2> HIDE DEF NoBytes
  <2> QED BY <1>0, <1>1, <1>2, <1>5, <2>1, <2>2 DEF TypeOK
<1>7. Counted'
  <2>1. disk.files = ledger.files /\ disk.bytes = ledger.bytes
    BY <1>0 DEF Inv, Counted, Streaming
  <2>2. disk'.files = ledger.files + 2 /\ disk'.bytes = ledger.bytes /\ Total(got') = 0
    BY <1>1, <1>2, <2>1
  <2> HIDE DEF NoBytes
  <2> QED BY <1>1, <1>4, <2>2 DEF Counted, Streaming
<1>8. Held'
  <2>1. FilesHeld' = 3 /\ BytesHeld' = 0 + Allowance + ReceiptReserve /\ OutputHeld' = 0 + Allowance
    BY <1>1, <1>2 DEF FilesHeld, BytesHeld, OutputHeld, Streaming, Total
  <2>2. /\ ledger'.files + FilesHeld' <= Limits.capture_files
        /\ ledger'.bytes + BytesHeld' <= Limits.capture_bytes
        /\ ledger'.output + OutputHeld' <= Limits.native_output_bytes
    BY <1>1, <1>3, <1>4, <1>5, <2>1
  <2> QED BY <1>1, <2>2 DEF Held
<1>9. Recorded'
  <2>1. ledger.files = 1 + 5 * Len(calls) + 2
    BY <1>0 DEF Inv, Recorded, Streaming
  <2> QED BY <1>1, <2>1 DEF Recorded, Streaming
<1> QED BY <1>6, <1>7, <1>8, <1>9 DEF Inv

(* Steps that leave the charges and the reservation alone. *)
LEMMA QuietInv ==
    ASSUME Inv, TypeOK', UNCHANGED <<ledger, disk, calls, len, allowance, got>>,
           \/ pc' = pc
           \/ pc \in Streaming /\ pc' \in Streaming
           \/ pc = "judge" /\ pc' \in {"idle", "refused"}
    PROVE  Inv'
<1>1. FilesHeld' = FilesHeld /\ BytesHeld' = BytesHeld /\ OutputHeld' = OutputHeld
  BY DEF FilesHeld, BytesHeld, OutputHeld, Streaming
<1>2. Counted' /\ Recorded'
  BY DEF Inv, Counted, Recorded, Streaming
<1>3. Held'
  BY <1>1 DEF Inv, Held, Streaming
<1> QED BY <1>2, <1>3 DEF Inv

LEMMA SelectInv == ASSUME Inv, Select PROVE Inv'
<1>1. /\ UNCHANGED <<ledger, disk, calls, len, allowance, complete, registered, got,
                     child, pipe, wrote, refusal>>
      /\ ready' \subseteq registered
      /\ pc \in Streaming /\ pc' \in {"read", "wait"}
  BY DEF Select, Goto, charges, process, Streaming, Inv, TypeOK
<1>2. TypeOK'
  BY <1>1 DEF Inv, TypeOK, PcValues
<1> QED BY <1>1, <1>2, QuietInv DEF Streaming

LEMMA WaitInv == ASSUME Inv, Wait PROVE Inv'
<1>1. UNCHANGED <<charges, locals, process, refusal>> /\ pc = "wait" /\ pc' = "account"
  BY DEF Wait, Goto
<1>2. TypeOK'
  BY <1>1 DEF charges, locals, process, Inv, TypeOK, PcValues
<1> QED BY <1>1, <1>2, QuietInv DEF Streaming, charges, locals

LEMMA JudgeInv == ASSUME Inv, Judge PROVE Inv'
<1>1. /\ UNCHANGED <<charges, locals, process>>
      /\ pc = "judge" /\ pc' \in {"idle", "refused"} /\ refusal' \in Refusals
  BY DEF Judge, Goto, Refuse, Verdict, Refusals, Inv, TypeOK
<1>2. TypeOK'
  BY <1>1 DEF charges, locals, process, Inv, TypeOK, PcValues
<1> QED BY <1>1, <1>2, QuietInv DEF charges, locals

LEMMA ChildInv == ASSUME Inv, Child PROVE Inv'
<1>1. UNCHANGED <<charges, pc, locals, refusal>>
  BY DEF Child, ChildProceeds, ChildWrites, ChildCloses, ChildExits
<1>2. CASE ChildExits
  <2>1. child' \in [started : BOOLEAN, alive : BOOLEAN, killed : BOOLEAN, open : SUBSET Streams, exit : Int,
                   says : Says \cup {"nothing"}, plan : [Streams -> Nat]]
    BY <1>2 DEF ChildExits, Inv, TypeOK
  <2>2. TypeOK'
    BY <1>1, <1>2, <2>1 DEF ChildExits, charges, locals, Inv, TypeOK
  <2> QED BY <1>1, <2>2, QuietInv DEF charges, locals
<1>4. CASE \E s \in Streams : ChildCloses(s)
  <2>1. child' \in [started : BOOLEAN, alive : BOOLEAN, killed : BOOLEAN, open : SUBSET Streams, exit : Int,
                   says : Says \cup {"nothing"}, plan : [Streams -> Nat]]
    BY <1>4 DEF ChildCloses, Inv, TypeOK
  <2>2. TypeOK'
    BY <1>1, <1>4, <2>1 DEF ChildCloses, charges, locals, Inv, TypeOK
  <2> QED BY <1>1, <2>2, QuietInv DEF charges, locals
<1>3. CASE \E s \in Streams : ChildWrites(s)
  <2>1. pipe' \in [Streams -> Nat] /\ wrote' \in [Streams -> Nat] /\ child' = child
    BY <1>3 DEF ChildWrites, Inv, TypeOK
  <2>2. TypeOK'
    BY <1>1, <2>1 DEF charges, locals, Inv, TypeOK
  <2> QED BY <1>1, <2>2, QuietInv DEF charges, locals
<1> QED BY <1>2, <1>3, <1>4 DEF Child, ChildProceeds

LEMMA AccountInv == ASSUME Inv, Account PROVE Inv'
<1>0. pc = "account" /\ pc' = "receipt" /\ TypeOK
      /\ UNCHANGED <<disk, calls, len, allowance, complete, registered, ready, got,
                     child, pipe, wrote, refusal>>
  BY DEF Account, Goto, Inv, locals, process
<1>1. /\ ledger'.files = ledger.files + 2
      /\ ledger'.bytes = ledger.bytes + Total(got)
      /\ ledger'.output = ledger.output + Total(got)
  BY DEF Account
<1>2. Total(got) \in Nat /\ allowance \in Nat /\ ReceiptReserve \in Nat
  BY <1>0, TotalIsNat, ReserveIsNat DEF TypeOK
<1>3. /\ ledger.files \in Nat /\ ledger.bytes \in Nat /\ ledger.output \in Nat
      /\ Limits.capture_files \in Nat /\ Limits.capture_bytes \in Nat
      /\ Limits.native_output_bytes \in Nat
  BY <1>0, LedgerTyped
<1>4. TypeOK'
  <2>1. ledger' \in [files : Nat, bytes : Nat, output : Nat]
    BY <1>2, <1>3 DEF Account
  <2> QED BY <1>0, <2>1 DEF TypeOK, PcValues
<1>5. Counted'
  BY <1>0, <1>1 DEF Inv, Counted, Streaming
<1>6. Held'
  <2>1. /\ FilesHeld = 3 /\ FilesHeld' = 1
        /\ BytesHeld = Total(got) + allowance + ReceiptReserve /\ BytesHeld' = ReceiptReserve
        /\ OutputHeld = Total(got) + allowance /\ OutputHeld' = 0
    BY <1>0 DEF FilesHeld, BytesHeld, OutputHeld, Streaming
  <2>2. /\ ledger.files + FilesHeld <= Limits.capture_files
        /\ ledger.bytes + BytesHeld <= Limits.capture_bytes
        /\ ledger.output + OutputHeld <= Limits.native_output_bytes
    BY DEF Inv, Held
  <2>3. /\ ledger'.files + FilesHeld' <= Limits.capture_files
        /\ ledger'.bytes + BytesHeld' <= Limits.capture_bytes
        /\ ledger'.output + OutputHeld' <= Limits.native_output_bytes
        /\ Total(got) <= Limits.native_output_bytes
    BY <1>1, <1>2, <1>3, <2>1, <2>2
  <2> QED BY <1>0, <2>3 DEF Held
<1>7. Recorded'
  BY <1>0, <1>1, <1>3, LedgerTyped DEF Inv, Recorded, Streaming
<1> QED BY <1>4, <1>5, <1>6, <1>7 DEF Inv

(* A read takes no more than the pipe holds and, of it, no more than the      *)
(* allowance is retained.                                                    *)
LEMMA ReadSizeBounds ==
    ASSUME TypeOK, NEW s \in Streams
    PROVE  /\ ReadSize(s) \in 0..pipe[s]
           /\ Least(ReadSize(s), allowance) \in 0..allowance
<1>1. pipe[s] \in Nat /\ allowance \in Nat /\ CHUNK_BYTES \in Nat
  BY SizeAssumption DEF TypeOK
<1>2. ReadSize(s) \in 0..pipe[s]
  BY <1>1 DEF ReadSize, Least
<1> QED BY <1>1, <1>2 DEF Least

(* What one stream grows by, both together grow by. *)
LEMMA TotalGrows ==
    ASSUME NEW f \in [Streams -> Nat], NEW s \in Streams, NEW n \in Nat
    PROVE  /\ [f EXCEPT ![s] = @ + n] \in [Streams -> Nat]
           /\ Total([f EXCEPT ![s] = @ + n]) = Total(f) + n
<1>1. s = "stdout" \/ s = "stderr"
  BY DEF Streams
<1>2. f["stdout"] \in Nat /\ f["stderr"] \in Nat
  BY StreamsAreTwo
<1>3. CASE s = "stdout"
  BY <1>2, <1>3, StreamsAreTwo DEF Total
<1>4. CASE s = "stderr"
  BY <1>2, <1>4, StreamsAreTwo DEF Total
<1> QED BY <1>1, <1>3, <1>4

LEMMA BlockInv ==
    ASSUME Inv, NEW s \in ready, Block(s), pc = "read", pc' \in {"select", "read"},
           UNCHANGED <<ledger, calls, len, refusal>>
    PROVE  Inv'
<1> DEFINE retained == Least(ReadSize(s), allowance)
           over     == retained < ReadSize(s)
<1>0. TypeOK /\ s \in Streams
  BY DEF Inv, TypeOK
<1>1. /\ retained \in 0..allowance /\ retained \in Nat
      /\ ReadSize(s) \in 0..pipe[s]
      /\ allowance \in Nat
  BY <1>0, ReadSizeBounds DEF TypeOK
<1>2. /\ disk' = [files |-> disk.files, bytes |-> disk.bytes + retained]
      /\ got' = [got EXCEPT ![s] = @ + retained]
      /\ allowance' = allowance - retained
      /\ complete' = (complete /\ ~over)
      /\ registered' = IF over THEN {} ELSE registered
      /\ ready' = IF over THEN {} ELSE ready \ {s}
      /\ pipe' = [pipe EXCEPT ![s] = @ - ReadSize(s)]
      /\ child' = IF over THEN Killed ELSE child
      /\ wrote' = wrote
  BY DEF Block
<1>3. over \in BOOLEAN
  OBVIOUS
<1> HIDE DEF retained, over
<1>4. got' \in [Streams -> Nat] /\ Total(got') = Total(got) + retained
  <2>1. got \in [Streams -> Nat]
    BY <1>0 DEF TypeOK
  <2>2. /\ [got EXCEPT ![s] = @ + retained] \in [Streams -> Nat]
        /\ Total([got EXCEPT ![s] = @ + retained]) = Total(got) + retained
    BY <1>0, <1>1, <2>1, TotalGrows
  <2> QED BY <1>2, <2>2
<1>5. /\ ledger.files \in Nat /\ ledger.bytes \in Nat /\ ledger.output \in Nat
      /\ disk.files \in Nat /\ disk.bytes \in Nat
      /\ Limits.capture_files \in Nat /\ Limits.capture_bytes \in Nat
      /\ Limits.native_output_bytes \in Nat /\ ReceiptReserve \in Nat
      /\ Total(got) \in Nat
  BY <1>0, LedgerTyped, ReserveIsNat, TotalIsNat DEF TypeOK
<1>6. TypeOK'
  <2>1. pipe' \in [Streams -> Nat]
    <3>1. pipe[s] - ReadSize(s) \in Nat
      BY <1>0, <1>1 DEF TypeOK
    <3> QED BY <1>0, <1>2, <3>1 DEF TypeOK
  <2>2. child' \in [started : BOOLEAN, alive : BOOLEAN, killed : BOOLEAN,
                    open : SUBSET Streams, exit : Int,
                    says : Says \cup {"nothing"}, plan : [Streams -> Nat]]
    BY <1>0, <1>2 DEF Killed, TypeOK
  <2>3. ready' \subseteq registered' /\ registered' \subseteq Streams
    BY <1>0, <1>2 DEF TypeOK
  <2>4. disk' \in [files : Nat, bytes : Nat] /\ allowance' \in Nat /\ complete' \in BOOLEAN
    BY <1>0, <1>1, <1>2, <1>3, <1>5 DEF TypeOK
  <2>5. /\ ledger' \in [files : Nat, bytes : Nat, output : Nat]
        /\ calls' \in Seq([started : BOOLEAN, exit : Int, complete : BOOLEAN,
                            sizes : [Streams -> Nat]])
        /\ pc' \in PcValues /\ len' \in Nat /\ refusal' \in Refusals
        /\ wrote' \in [Streams -> Nat]
    BY <1>0, <1>2 DEF TypeOK, PcValues
  <2> QED BY <1>4, <2>1, <2>2, <2>3, <2>4, <2>5 DEF TypeOK
<1>7. Counted'
  <2>1. disk.files = ledger.files + 2 /\ disk.bytes = ledger.bytes + Total(got)
    BY DEF Inv, Counted, Streaming
  <2>2. disk'.files = ledger'.files + 2 /\ disk'.bytes = ledger'.bytes + Total(got')
    BY <1>1, <1>2, <1>4, <1>5, <2>1
  <2> QED BY <2>2 DEF Counted, Streaming
<1>8. Held'
  <2>1. Total(got') + allowance' = Total(got) + allowance
    BY <1>1, <1>2, <1>4, <1>5
  <2>2. /\ FilesHeld' = FilesHeld /\ BytesHeld' = BytesHeld /\ OutputHeld' = OutputHeld
    BY <2>1 DEF FilesHeld, BytesHeld, OutputHeld, Streaming
  <2> QED BY <2>2 DEF Inv, Held
<1>9. Recorded'
  BY DEF Inv, Recorded, Streaming
<1> QED BY <1>6, <1>7, <1>8, <1>9 DEF Inv

LEMMA ReadBlockInv == ASSUME Inv, ReadBlock PROVE Inv'
<1>1. /\ pc = "read" /\ pc' \in {"select", "read"}
      /\ UNCHANGED <<ledger, calls, len, refusal>>
  BY DEF ReadBlock, Goto
<1>2. PICK s \in ready : EndOfStream(s) \/ Block(s)
  BY DEF ReadBlock
<1>3. CASE Block(s)
  BY <1>1, <1>3, BlockInv
<1>4. CASE EndOfStream(s)
  <2>1. /\ UNCHANGED <<disk, allowance, complete, got, child, pipe, wrote>>
        /\ registered' = registered \ {s} /\ ready' = ready \ {s}
    BY <1>4 DEF EndOfStream, process
  <2>2. TypeOK'
    BY <1>1, <2>1 DEF Inv, TypeOK, PcValues
  <2> QED BY <1>1, <2>1, <2>2, QuietInv DEF Streaming
<1> QED BY <1>2, <1>3, <1>4

LEMMA WriteFailsInv == ASSUME Inv, WriteFails PROVE Inv'
<1>0. /\ TypeOK /\ pc = "read" /\ pc' = "crashed"
      /\ UNCHANGED <<ledger, calls, locals, process, refusal>>
  BY DEF WriteFails, Goto, Inv
<1>1. PICK n \in 0..allowance : disk' = [files |-> disk.files, bytes |-> disk.bytes + n]
  <2>1. PICK s \in ready :
          \E n \in 0..Least(ReadSize(s), allowance) :
             disk' = [files |-> disk.files, bytes |-> disk.bytes + n]
    BY DEF WriteFails
  <2>2. s \in Streams /\ allowance \in Nat
    BY <1>0 DEF TypeOK
  <2>3. Least(ReadSize(s), allowance) \in 0..allowance
    BY <1>0, <2>2, ReadSizeBounds
  <2>4. PICK n \in 0..Least(ReadSize(s), allowance) :
          disk' = [files |-> disk.files, bytes |-> disk.bytes + n]
    BY <2>1
  <2>5. n \in 0..allowance
    BY <2>2, <2>3, <2>4
  <2> QED BY <2>4, <2>5
<1>2. /\ ledger.files \in Nat /\ ledger.bytes \in Nat /\ ledger.output \in Nat
      /\ disk.files \in Nat /\ disk.bytes \in Nat
      /\ Limits.capture_files \in Nat /\ Limits.capture_bytes \in Nat
      /\ Limits.native_output_bytes \in Nat /\ ReceiptReserve \in Nat
      /\ Total(got) \in Nat /\ allowance \in Nat
  BY <1>0, LedgerTyped, ReserveIsNat, TotalIsNat DEF TypeOK
<1>3. TypeOK'
  <2>1. disk' \in [files : Nat, bytes : Nat]
    BY <1>1, <1>2
  <2> QED BY <1>0, <2>1 DEF TypeOK, PcValues, locals, process
<1>4. Counted' /\ Recorded'
  BY <1>0 DEF Counted, Recorded, Streaming
<1>5. Held'
  <2>1. disk'.files = ledger.files + 2 /\ disk'.bytes = ledger.bytes + Total(got) + n
    BY <1>0, <1>1, <1>2 DEF Inv, Counted, Streaming
  <2>2. /\ FilesHeld = 3 /\ BytesHeld = Total(got) + allowance + ReceiptReserve
        /\ OutputHeld = Total(got) + allowance
        /\ FilesHeld' = 0 /\ BytesHeld' = 0 /\ OutputHeld' = 0
    BY <1>0 DEF FilesHeld, BytesHeld, OutputHeld, Streaming
  <2>3. /\ ledger.files + FilesHeld <= Limits.capture_files
        /\ ledger.bytes + BytesHeld <= Limits.capture_bytes
        /\ ledger.output + OutputHeld <= Limits.native_output_bytes
    BY DEF Inv, Held
  <2>4. /\ disk'.files <= Limits.capture_files /\ disk'.bytes <= Limits.capture_bytes
        /\ ledger.files + 0 <= Limits.capture_files
        /\ ledger.bytes + 0 <= Limits.capture_bytes
        /\ ledger.output + 0 <= Limits.native_output_bytes
    BY <1>1, <1>2, <2>1, <2>2, <2>3
  <2> QED BY <1>0, <2>2, <2>4 DEF Held
<1> QED BY <1>3, <1>4, <1>5 DEF Inv

LEMMA OpenFailsInv == ASSUME Inv, OpenFails PROVE Inv'
<1>0. /\ TypeOK /\ pc = "spawn" /\ pc' = "crashed"
      /\ UNCHANGED <<ledger, calls, locals, process, refusal>>
  BY DEF OpenFails, Goto, Inv
<1>1. PICK made \in 0..1 : disk' = [files |-> disk.files + made, bytes |-> disk.bytes]
  BY DEF OpenFails
<1>2. /\ ledger.files \in Nat /\ ledger.bytes \in Nat /\ ledger.output \in Nat
      /\ disk.files \in Nat /\ disk.bytes \in Nat
      /\ Limits.capture_files \in Nat /\ Limits.capture_bytes \in Nat
      /\ Limits.native_output_bytes \in Nat /\ ReceiptReserve \in Nat
  BY <1>0, LedgerTyped, ReserveIsNat
<1>3. TypeOK'
  <2>1. disk' \in [files : Nat, bytes : Nat]
    BY <1>1, <1>2
  <2> QED BY <1>0, <2>1 DEF TypeOK, PcValues, locals, process
<1>4. Counted' /\ Recorded'
  BY <1>0 DEF Counted, Recorded, Streaming
<1>5. Held'
  <2>1. disk.files = ledger.files /\ disk.bytes = ledger.bytes
    BY <1>0 DEF Inv, Counted, Streaming
  <2>2. /\ FilesHeld = 3 /\ BytesHeld = ReceiptReserve /\ OutputHeld = 0
        /\ FilesHeld' = 0 /\ BytesHeld' = 0 /\ OutputHeld' = 0
    BY <1>0 DEF FilesHeld, BytesHeld, OutputHeld, Streaming
  <2>3. /\ ledger.files + FilesHeld <= Limits.capture_files
        /\ ledger.bytes + BytesHeld <= Limits.capture_bytes
        /\ ledger.output + OutputHeld <= Limits.native_output_bytes
    BY DEF Inv, Held
  <2>4. /\ disk'.files <= Limits.capture_files /\ disk'.bytes <= Limits.capture_bytes
        /\ ledger.files + 0 <= Limits.capture_files
        /\ ledger.bytes + 0 <= Limits.capture_bytes
        /\ ledger.output + 0 <= Limits.native_output_bytes
    BY <1>1, <1>2, <2>1, <2>2, <2>3
  <2> QED BY <1>0, <2>2, <2>4 DEF Held
<1> QED BY <1>3, <1>4, <1>5 DEF Inv

LEMMA StutterInv == ASSUME Inv, UNCHANGED vars PROVE Inv'
<1>1. TypeOK'
  BY DEF Inv, TypeOK, vars, charges, locals, process
<1> QED BY <1>1, QuietInv DEF vars, charges, locals

LEMMA InvNext == ASSUME Inv, [Next]_vars PROVE Inv'
<1>1. CASE Reader
  BY <1>1, MakeDirectoryInv, RetainInputInv, SpawnInv, OpenFailsInv, SelectInv, ReadBlockInv,
     WriteFailsInv, WaitInv, AccountInv, WriteReceiptInv, JudgeInv DEF Reader
<1>2. CASE Child
  BY <1>2, ChildInv
<1>3. CASE \E n \in Lengths : Begin(n)
  BY <1>3, BeginInv
<1>4. CASE UNCHANGED vars
  BY <1>4, StutterInv
<1> QED BY <1>1, <1>2, <1>3, <1>4 DEF Next

LEMMA Inductive == Spec => []Inv
<1>1. Inv /\ [Next]_vars => Inv'
  BY InvNext
<1> QED BY <1>1, InitInv, PTL DEF Spec

(* Every variable keeps its type: counters, sizes and the allowance never go  *)
(* below zero.                                                               *)
THEOREM TypeCorrect == Spec => []TypeOK
<1>1. Inv => TypeOK
  BY DEF Inv
<1> QED BY <1>1, Inductive, PTL

(* Whatever the limits, the documents and the children: what is on disk never  *)
(* exceeds the host's limits, not even between two reads of a pipe.          *)
THEOREM LimitsHold == Spec => []WithinLimits
<1>1. Inv => WithinLimits
  <2> SUFFICES ASSUME Inv PROVE WithinLimits
    OBVIOUS
  <2>0. /\ ledger.files \in Nat /\ ledger.bytes \in Nat /\ ledger.output \in Nat
        /\ disk.files \in Nat /\ disk.bytes \in Nat
        /\ Limits.capture_files \in Nat /\ Limits.capture_bytes \in Nat
        /\ Limits.native_output_bytes \in Nat /\ ReceiptReserve \in Nat
        /\ Total(got) \in Nat /\ allowance \in Nat
        /\ FilesHeld \in Nat /\ BytesHeld \in Nat /\ OutputHeld \in Nat
    BY LedgerTyped, ReserveIsNat, TotalIsNat, HeldIsNat DEF Inv, TypeOK
  <2>1. /\ ledger.files + FilesHeld <= Limits.capture_files
        /\ ledger.bytes + BytesHeld <= Limits.capture_bytes
        /\ ledger.output + OutputHeld <= Limits.native_output_bytes
    BY DEF Inv, Held
  <2>2. ledger.output + Uncounted <= Limits.native_output_bytes
    <3>1. Uncounted <= OutputHeld /\ Uncounted \in Nat
      BY <2>0 DEF Uncounted, OutputHeld, Streaming
    <3> QED BY <2>0, <2>1, <3>1
  <2>3. disk.files <= Limits.capture_files /\ disk.bytes <= Limits.capture_bytes
    <3>1. CASE pc \in Streaming
      <4>1. disk.files = ledger.files + 2 /\ disk.bytes = ledger.bytes + Total(got)
        BY <3>1 DEF Inv, Counted
      <4>2. FilesHeld = 3 /\ BytesHeld = Total(got) + allowance + ReceiptReserve
        BY <3>1 DEF FilesHeld, BytesHeld, Streaming
      <4> QED BY <2>0, <2>1, <4>1, <4>2
    <3>2. CASE pc = "crashed"
      BY <3>2 DEF Inv, Held
    <3>3. CASE pc \notin Streaming \cup {"crashed"}
      <4>1. disk.files = ledger.files /\ disk.bytes = ledger.bytes
        BY <3>3 DEF Inv, Counted
      <4> QED BY <2>0, <2>1, <4>1
    <3> QED BY <3>1, <3>2, <3>3
  <2> QED BY <2>2, <2>3 DEF WithinLimits
<1> QED BY <1>1, Inductive, PTL

(* Every call that touched the directory has left its five entries and its    *)
(* receipt by the time document() answers, and the counters are exact.        *)
THEOREM CallsRecorded == Spec => []EveryCallRecorded
<1>1. Inv => EveryCallRecorded
  <2> SUFFICES ASSUME Inv, pc \in {"idle", "refused"}
               PROVE  /\ disk = [files |-> ledger.files, bytes |-> ledger.bytes]
                      /\ ledger.files = 1 + 5 * Len(calls)
    BY DEF EveryCallRecorded
  <2>1. disk.files = ledger.files /\ disk.bytes = ledger.bytes
    BY DEF Inv, Counted, Streaming
  <2>2. disk = [files |-> ledger.files, bytes |-> ledger.bytes]
    BY <2>1 DEF Inv, TypeOK
  <2>3. ledger.files = 1 + 5 * Len(calls)
    BY LedgerTyped DEF Inv, Recorded, Streaming
  <2> QED BY <2>2, <2>3
<1> QED BY <1>1, Inductive, PTL

----------------------------------------------------------------------------
(* What a child wrote is in the pipes, in the directory, or, of one that was  *)
(* killed, the one byte that showed it had more to say than it may.           *)
Flowing ==
    pc \in Streaming \cup {"receipt", "judge"} /\ child.started =>
      /\ child.alive => ~child.killed
      /\ ~child.killed =>
           /\ child.exit \in {0, 2}
           /\ \A s \in Streams \ child.open : wrote[s] = child.plan[s]
      /\ complete =>
           /\ ~child.killed
           /\ \A s \in Streams : wrote[s] = got[s] + pipe[s]
           /\ \A s \in Streams \ registered : pipe[s] = 0 /\ s \notin child.open
      /\ ~complete =>
           /\ child.killed /\ registered = {}
           /\ Total(wrote) = Total(pipe) + Total(got) + 1
      /\ pc \notin {"select", "read"} => registered = {}

Lifetime ==
    /\ pc \in {"select", "read", "wait"} => child.started
    /\ pc \in {"account", "receipt", "judge"} => ~child.alive

Waiting == \A s \in ready : Readable(s)

Underway == {"directory", "stdin", "spawn", "receipt"} \cup Streaming
(* What was reserved for the call under way would be granted again. *)
Granted == pc \in Underway => len \in Lengths /\ L!Admissible(len)

Flows == Flowing /\ Lifetime /\ Waiting

----------------------------------------------------------------------------
LEMMA FlowsInit == Init => Flows
BY DEF Init, Flows, Flowing, Lifetime, Waiting, Streaming, NoChild

(* A step that touches neither the child nor what flows from it. *)
LEMMA FlowsQuiet ==
    ASSUME Inv, Flows, UNCHANGED <<child, wrote, pipe, got, complete, registered>>,
           pc' \in Streaming \cup {"receipt", "judge"} => pc \in Streaming \cup {"receipt", "judge"},
           pc' \in {"select", "read", "wait"} => pc \in {"select", "read", "wait"},
           pc' \in {"wait", "account", "receipt", "judge"} =>
             pc \notin {"select", "read"} \/ registered = {},
           pc' \in {"account", "receipt", "judge"} =>
             pc \in {"account", "receipt", "judge"} \/ ~child.alive,
           \/ ready' = ready
           \/ ready' = {s \in registered : Readable(s)}
    PROVE  Flows'
<1>1. Flowing'
  <2> SUFFICES ASSUME pc' \in Streaming \cup {"receipt", "judge"}, child.started PROVE Flowing'
    BY DEF Flowing
  <2>1. /\ pc \in Streaming \cup {"receipt", "judge"}
        /\ pc' \notin {"select", "read"} =>
             pc \notin {"select", "read"} \/ registered = {}
    BY DEF Streaming
  <2>2. Total(wrote)' = Total(wrote) /\ Total(pipe)' = Total(pipe) /\ Total(got)' = Total(got)
    OBVIOUS
  <2> QED BY <2>1, <2>2 DEF Flows, Flowing
<1>2. Lifetime'
  BY DEF Flows, Lifetime
<1>3. Waiting'
  BY DEF Flows, Waiting, Readable
<1> QED BY <1>1, <1>2, <1>3 DEF Flows

LEMMA FlowsSpawn == ASSUME Inv, Spawn PROVE Flows'
<1>1. /\ pc = "spawn" /\ got' = NoBytes /\ pipe' = NoBytes /\ wrote' = NoBytes
  BY DEF Spawn
<1>4. ready' = {}
  BY DEF Spawn
<1>2. CASE /\ \E plan \in Plans : child' = Started(plan)
           /\ complete' = TRUE /\ registered' = Streams /\ pc' = "select"
  <2>1. PICK plan \in Plans : child' = Started(plan)
    BY <1>2
  <2>2. /\ child'.started /\ child'.alive /\ ~child'.killed /\ child'.exit = 0 /\ child'.open = Streams
    BY <2>1 DEF Started
  <2>3. \A s \in Streams : wrote'[s] = got'[s] + pipe'[s]
    BY <1>1 DEF NoBytes
  <2> QED BY <1>2, <1>4, <2>2, <2>3 DEF Flows, Flowing, Lifetime, Waiting
<1>3. CASE child' = NoChild /\ pc' = "account"
  BY <1>3, <1>4 DEF Flows, Flowing, Lifetime, Waiting, NoChild
<1> QED BY <1>2, <1>3 DEF Spawn, Goto

(* A stream is read to its end when its child has closed it and its pipe is empty. *)
LEMMA FlowsEndOfStream ==
    ASSUME Inv, Flows, NEW s \in ready, EndOfStream(s), pc = "read", pc' \in {"select", "read"}
    PROVE  Flows'
<1>0. /\ UNCHANGED <<got, child, pipe, wrote, complete, allowance>>
      /\ registered' = registered \ {s} /\ ready' = ready \ {s} /\ s \in Streams
      /\ pipe[s] \in Nat /\ allowance \in Nat /\ CHUNK_BYTES \in Nat \ {0}
  BY SizeAssumption DEF EndOfStream, process, Inv, TypeOK
<1>1. pipe[s] = 0
  BY <1>0 DEF EndOfStream, ReadSize, Least
<1>2. s \notin child.open
  BY <1>0, <1>1 DEF Flows, Waiting, Readable
<1>3. Total(wrote)' = Total(wrote) /\ Total(pipe)' = Total(pipe) /\ Total(got)' = Total(got)
  BY <1>0
<1>4. Flowing'
  BY <1>0, <1>1, <1>2, <1>3 DEF Flows, Flowing, Streaming
<1>5. Waiting'
  BY <1>0 DEF Flows, Waiting, Readable
<1> QED BY <1>0, <1>4, <1>5 DEF Flows, Lifetime

(* Both sums, when one stream changes. *)
LEMMA TotalShrinks ==
    ASSUME NEW f \in [Streams -> Nat], NEW s \in Streams, NEW n \in 0..f[s]
    PROVE  /\ [f EXCEPT ![s] = @ - n] \in [Streams -> Nat]
           /\ Total([f EXCEPT ![s] = @ - n]) = Total(f) - n
<1>1. s = "stdout" \/ s = "stderr"
  BY DEF Streams
<1>2. f["stdout"] \in Nat /\ f["stderr"] \in Nat
  BY StreamsAreTwo
<1>3. CASE s = "stdout"
  BY <1>2, <1>3, StreamsAreTwo DEF Total
<1>4. CASE s = "stderr"
  BY <1>2, <1>4, StreamsAreTwo DEF Total
<1> QED BY <1>1, <1>3, <1>4

LEMMA FlowsBlock ==
    ASSUME Inv, Flows, NEW s \in ready, Block(s), pc = "read", pc' \in {"select", "read"}
    PROVE  Flows'
<1> DEFINE taken    == ReadSize(s)
           retained == Least(taken, allowance)
           over     == retained < taken
<1>0. /\ TypeOK /\ s \in Streams /\ s \in registered
      /\ got \in [Streams -> Nat] /\ pipe \in [Streams -> Nat] /\ wrote \in [Streams -> Nat]
      /\ allowance \in Nat /\ CHUNK_BYTES \in Nat \ {0}
      /\ complete \in BOOLEAN
  BY SizeAssumption DEF Inv, TypeOK
<1>1. taken \in 0..pipe[s] /\ retained \in 0..allowance
  BY <1>0, ReadSizeBounds
<1>2. /\ got' = [got EXCEPT ![s] = @ + retained]
      /\ complete' = (complete /\ ~over)
      /\ registered' = IF over THEN {} ELSE registered
      /\ ready' = IF over THEN {} ELSE ready \ {s}
      /\ pipe' = [pipe EXCEPT ![s] = @ - taken]
      /\ child' = IF over THEN Killed ELSE child
      /\ wrote' = wrote
  BY DEF Block
<1>3. /\ over => taken = retained + 1
      /\ ~over => taken = retained
  <2>1. taken <= allowance + 1 /\ pipe[s] \in Nat
    BY <1>0 DEF ReadSize, Least
  <2> QED BY <1>0, <1>1, <2>1 DEF Least
<1>4. over \in BOOLEAN /\ taken \in Nat /\ retained \in Nat
  BY <1>0, <1>1
<1> HIDE DEF taken, retained, over
<1>5. /\ Total(got') = Total(got) + retained
      /\ Total(pipe') = Total(pipe) - taken
      /\ Total(got) \in Nat /\ Total(pipe) \in Nat /\ Total(wrote) \in Nat
  <2>1. Total([got EXCEPT ![s] = @ + retained]) = Total(got) + retained
    BY <1>0, <1>4, TotalGrows
  <2>2. Total([pipe EXCEPT ![s] = @ - taken]) = Total(pipe) - taken
    BY <1>0, <1>1, TotalShrinks
  <2> QED BY <1>0, <1>2, <2>1, <2>2, TotalIsNat
<1>6. /\ child.started /\ complete /\ ~child.killed
      /\ child.exit \in {0, 2}
      /\ \A t \in Streams \ child.open : wrote[t] = child.plan[t]
      /\ \A t \in Streams : wrote[t] = got[t] + pipe[t]
      /\ \A t \in Streams \ registered : pipe[t] = 0 /\ t \notin child.open
  BY <1>0 DEF Flows, Flowing, Lifetime, Streaming
<1>7. Total(wrote) = Total(got) + Total(pipe)
  <2>1. /\ wrote["stdout"] = got["stdout"] + pipe["stdout"]
        /\ wrote["stderr"] = got["stderr"] + pipe["stderr"]
        /\ got["stdout"] \in Nat /\ got["stderr"] \in Nat
        /\ pipe["stdout"] \in Nat /\ pipe["stderr"] \in Nat
    BY <1>0, <1>6, StreamsAreTwo
  <2> QED BY <2>1 DEF Total
<1>8. CASE over
  <2>1. /\ child'.started /\ ~child'.alive /\ child'.killed /\ registered' = {} /\ ready' = {}
        /\ complete' = FALSE
    BY <1>2, <1>8 DEF Killed
  <2>2. Total(wrote') = Total(pipe') + Total(got') + 1
    BY <1>2, <1>3, <1>4, <1>5, <1>7, <1>8
  <2>3. Flowing'
    BY <2>1, <2>2 DEF Flowing
  <2> QED BY <2>1, <2>3 DEF Flows, Lifetime, Waiting
<1>9. CASE ~over
  <2>1. child' = child /\ registered' = registered /\ ready' = ready \ {s} /\ complete' = complete
    BY <1>2, <1>4, <1>6, <1>9
  <2>2. /\ got'[s] = got[s] + taken /\ pipe'[s] = pipe[s] - taken
        /\ \A t \in Streams \ {s} : got'[t] = got[t] /\ pipe'[t] = pipe[t]
    BY <1>0, <1>2, <1>3, <1>9
  <2>3. \A t \in Streams : wrote'[t] = got'[t] + pipe'[t]
    <3>1. wrote[s] = got'[s] + pipe'[s]
      <4>1. wrote[s] = got[s] + pipe[s] /\ got[s] \in Nat /\ pipe[s] \in Nat
        BY <1>0, <1>6
      <4> QED BY <1>4, <2>2, <4>1
    <3> QED BY <1>2, <1>6, <2>2, <3>1
  <2>4. \A t \in Streams \ registered' : pipe'[t] = 0 /\ t \notin child'.open
    BY <1>0, <1>6, <2>1, <2>2
  <2>5. Flowing'
    <3>1. complete' /\ ~child'.killed /\ child'.exit \in {0, 2}
      BY <1>6, <2>1
    <3>2. \A t \in Streams \ child'.open : wrote'[t] = child'.plan[t]
      BY <1>2, <1>6, <2>1
    <3> QED BY <2>3, <2>4, <3>1, <3>2 DEF Flowing
  <2>6. Waiting'
    <3>1. \A t \in ready' : Readable(t) /\ pipe'[t] = pipe[t]
      BY <1>0, <2>1, <2>2 DEF Flows, Waiting, Inv, TypeOK
    <3> QED BY <2>1, <3>1 DEF Waiting, Readable
  <2> QED BY <1>6, <2>1, <2>5, <2>6 DEF Flows, Lifetime
<1> QED BY <1>4, <1>8, <1>9

LEMMA FlowsChild == ASSUME Inv, Flows, Child PROVE Flows'
<1>0. /\ child.alive /\ UNCHANGED <<charges, pc, locals, refusal>>
      /\ got \in [Streams -> Nat] /\ pipe \in [Streams -> Nat] /\ wrote \in [Streams -> Nat]
      /\ ready \subseteq Streams /\ registered \subseteq Streams
  BY DEF Child, ChildProceeds, ChildExits, ChildWrites, ChildCloses, Inv, TypeOK
<1>1. UNCHANGED <<got, complete, registered, ready>>
  BY <1>0 DEF locals
<1>2. ASSUME NEW s \in Streams, ChildWrites(s) PROVE Flows'
  <2>1. /\ wrote[s] < child.plan[s] /\ child' = child
        /\ pipe' = [pipe EXCEPT ![s] = @ + 1] /\ wrote' = [wrote EXCEPT ![s] = @ + 1]
    BY <1>2 DEF ChildWrites
  <2>2. /\ pipe'[s] = pipe[s] + 1 /\ wrote'[s] = wrote[s] + 1
        /\ \A t \in Streams \ {s} : pipe'[t] = pipe[t] /\ wrote'[t] = wrote[t]
        /\ got[s] \in Nat /\ pipe[s] \in Nat /\ wrote[s] \in Nat /\ child.plan[s] \in Nat
    BY <1>0, <2>1 DEF Inv, TypeOK
  <2>3. Flowing'
    <3> SUFFICES ASSUME pc \in Streaming \cup {"receipt", "judge"}, child.started PROVE Flowing'
      BY <1>0, <2>1 DEF Flowing
    <3>1. /\ child.alive => ~child.killed
          /\ ~child.killed =>
               /\ child.exit \in {0, 2}
               /\ \A t \in Streams \ child.open : wrote[t] = child.plan[t]
          /\ complete =>
               /\ \A t \in Streams : wrote[t] = got[t] + pipe[t]
               /\ \A t \in Streams \ registered : pipe[t] = 0 /\ t \notin child.open
          /\ ~complete => child.killed
          /\ pc \notin {"select", "read"} => registered = {}
      BY DEF Flows, Flowing
    <3>2. s \in child.open
      BY <1>0, <2>1, <2>2, <3>1
    <3>3. complete /\ ~child.killed
      BY <1>0, <3>1
    <3>4. \A t \in Streams : wrote'[t] = got'[t] + pipe'[t]
      BY <1>1, <2>2, <3>1, <3>3
    <3>5. \A t \in Streams \ child.open : wrote'[t] = child.plan[t]
      BY <2>2, <3>1, <3>2, <3>3
    <3>6. \A t \in Streams \ registered : pipe'[t] = 0 /\ t \notin child.open
      BY <2>2, <3>1, <3>2, <3>3
    <3> QED BY <1>0, <1>1, <2>1, <3>1, <3>3, <3>4, <3>5, <3>6 DEF Flowing
  <2>4. Waiting'
    BY <1>0, <1>1, <2>1, <2>2 DEF Flows, Waiting, Readable
  <2> QED BY <1>0, <2>1, <2>3, <2>4 DEF Flows, Lifetime
<1>3. ASSUME NEW s \in Streams, ChildCloses(s) PROVE Flows'
  <2>1. /\ wrote[s] = child.plan[s] /\ pipe' = pipe /\ wrote' = wrote
        /\ child'.started /\ child'.alive /\ ~child'.killed /\ child'.open = child.open \ {s}
        /\ child'.exit = 0 /\ child'.plan = child.plan
    BY <1>3 DEF ChildCloses
  <2>2. Flowing'
    <3> SUFFICES ASSUME pc \in Streaming \cup {"receipt", "judge"} PROVE Flowing'
      BY <1>0 DEF Flowing
    <3>0. child.started
      BY <1>0 DEF Flows, Lifetime, Streaming
    <3>1. ~child.killed /\ complete
      BY <1>0, <3>0 DEF Flows, Flowing
    <3> QED BY <1>0, <1>1, <2>1, <3>0, <3>1 DEF Flows, Flowing
  <2>3. Waiting'
    BY <1>1, <2>1 DEF Flows, Waiting, Readable
  <2> QED BY <1>0, <2>1, <2>2, <2>3 DEF Flows, Lifetime
<1>4. CASE ChildExits
  <2>1. /\ wrote = child.plan /\ pipe' = pipe /\ wrote' = wrote
        /\ child'.started /\ ~child'.alive /\ ~child'.killed /\ child'.open = {}
        /\ child'.exit \in {0, 2} /\ child'.plan = child.plan
    BY <1>4 DEF ChildExits
  <2>2. Flowing'
    <3> SUFFICES ASSUME pc \in Streaming \cup {"receipt", "judge"} PROVE Flowing'
      BY <1>0 DEF Flowing
    <3>0. child.started
      BY <1>0 DEF Flows, Lifetime, Streaming
    <3>1. ~child.killed /\ complete
      BY <1>0, <3>0 DEF Flows, Flowing
    <3> QED BY <1>0, <1>1, <2>1, <3>0, <3>1 DEF Flows, Flowing
  <2>3. Waiting'
    BY <1>1, <2>1 DEF Flows, Waiting, Readable
  <2> QED BY <1>0, <2>1, <2>2, <2>3 DEF Flows, Lifetime
<1> QED BY <1>2, <1>3, <1>4 DEF Child, ChildProceeds

LEMMA FlowsNext == ASSUME Inv, Flows, [Next]_vars PROVE Flows'
<1>1. CASE MakeDirectory \/ RetainInput
  BY <1>1, FlowsQuiet DEF MakeDirectory, RetainInput, Directory, Retain, Keep, Refuse, Goto, locals,
     process, Streaming
<1>2. CASE Spawn
  BY <1>2, FlowsSpawn
<1>3. CASE Select
  BY <1>3, FlowsQuiet DEF Select, Goto, charges, process, Streaming
<1>4. CASE ReadBlock
  <2>1. PICK s \in ready : EndOfStream(s) \/ Block(s)
    BY <1>4 DEF ReadBlock
  <2>2. pc = "read" /\ pc' \in {"select", "read"}
    BY <1>4 DEF ReadBlock, Goto
  <2> QED BY <2>1, <2>2, FlowsEndOfStream, FlowsBlock
<1>5. CASE OpenFails \/ WriteFails
  BY <1>5, FlowsQuiet DEF OpenFails, WriteFails, Goto, locals, process, Streaming
<1>6. CASE Wait
  BY <1>6, FlowsQuiet DEF Wait, Goto, locals, process, Streaming
<1>7. CASE Account
  BY <1>7, FlowsQuiet DEF Account, Goto, locals, process, Streaming
<1>8. CASE WriteReceipt
  BY <1>8, FlowsQuiet DEF WriteReceipt, Retain, Keep, Refuse, Goto, locals, process, Streaming
<1>9. CASE Judge
  BY <1>9, FlowsQuiet DEF Judge, Refuse, Goto, locals, process, Streaming
<1>10. CASE Child
  BY <1>10, FlowsChild
<1>11. CASE \E n \in Lengths : Begin(n)
  BY <1>11, FlowsQuiet DEF Begin, Refuse, Goto, charges, process, Streaming
<1>12. CASE UNCHANGED vars
  BY <1>12, FlowsQuiet DEF vars, charges, locals, process
<1> QED BY <1>1, <1>2, <1>3, <1>4, <1>5, <1>6, <1>7, <1>8, <1>9, <1>10, <1>11, <1>12
        DEF Next, Reader

(* A complete receipt stands for all that its child wrote before it ended by   *)
(* itself; an incomplete one for a killed child of which one byte more than   *)
(* was retained had been read.                                               *)
THEOREM ReceiptsHonest == Spec => []ReceiptIsHonest
<1>1. Init => Flows
  BY FlowsInit
<1>2. Inv /\ Flows /\ [Next]_vars => Flows'
  BY FlowsNext
<1>3. Inv /\ Flows => ReceiptIsHonest
  <2> SUFFICES ASSUME Inv, Flows, pc \in {"receipt", "judge"}, child.started
               PROVE  IF complete
                      THEN ~child.killed /\ got = wrote /\ child.exit \in {0, 2}
                      ELSE child.killed /\ Total(wrote) - Total(pipe) = Total(got) + 1
    BY DEF ReceiptIsHonest
  <2>1. registered = {}
    BY DEF Flows, Flowing
  <2>2. CASE complete
    <3>1. /\ ~child.killed /\ child.exit \in {0, 2}
          /\ \A s \in Streams : wrote[s] = got[s] + pipe[s] /\ pipe[s] = 0
      BY <2>1, <2>2 DEF Flows, Flowing
    <3>2. \A s \in Streams : wrote[s] = got[s]
      BY <3>1 DEF Inv, TypeOK
    <3>3. got = wrote
      BY <3>2 DEF Inv, TypeOK
    <3> QED BY <2>2, <3>1, <3>3
  <2>3. CASE ~complete
    <3>1. child.killed /\ Total(wrote) = Total(pipe) + Total(got) + 1
      BY <2>3 DEF Flows, Flowing
    <3>2. Total(wrote) \in Nat /\ Total(pipe) \in Nat /\ Total(got) \in Nat
      BY TotalIsNat DEF Inv, TypeOK
    <3> QED BY <2>3, <3>1, <3>2
  <2> QED BY <2>2, <2>3
<1> QED BY <1>1, <1>2, <1>3, Inductive, PTL DEF Spec

----------------------------------------------------------------------------
(* The refinement: every step is a step of the ledger or no step of it.       *)
CallCount == Len(calls)

LEMMA Mapped ==
    ASSUME Inv
    PROVE  /\ CallCount \in Nat
           /\ pc \notin {"crashed"} =>
                /\ Committed = [files |-> 1 + 5 * CallCount, bytes |-> ledger.bytes - CountedBytes,
                                output |-> ledger.output - CountedOutput]
                /\ Committed.files = 1 + 5 * CallCount
                /\ Committed.bytes = ledger.bytes - CountedBytes
                /\ Committed.output = ledger.output - CountedOutput
           /\ CountedBytes \in Nat /\ CountedOutput \in Nat
<1>1. CallCount \in Nat
  BY DEF Inv, TypeOK, CallCount
<1>2. Total(got) \in Nat /\ len \in Nat
  BY TotalIsNat DEF Inv, TypeOK
<1>3. pc # "crashed" =>
        Committed = [files |-> 1 + 5 * CallCount, bytes |-> ledger.bytes - CountedBytes,
                     output |-> ledger.output - CountedOutput]
  BY DEF Committed, CallCount
<1>4. CountedBytes \in Nat /\ CountedOutput \in Nat
  BY <1>2 DEF CountedBytes, CountedOutput
<1> QED BY <1>1, <1>3, <1>4

(* What the caller cannot see. *)
Unseen == UNCHANGED <<Committed, CallCount, Ended>>

LEMMA UnseenStutters == Unseen => UNCHANGED L!ledgerVars
BY DEF Unseen, L!ledgerVars, CallCount

LEMMA GrantedStays ==
    ASSUME Granted, Unseen, pc' \in Underway => pc \in Underway /\ len' = len
    PROVE  Granted'
<1> SUFFICES ASSUME pc' \in Underway PROVE len' \in Lengths /\ L!Admissible(len)'
  BY DEF Granted
<1>1. len \in Lengths /\ L!Admissible(len) /\ len' = len
  BY DEF Granted
<1>2. Committed' = Committed /\ CallCount' = CallCount
  BY DEF Unseen
<1> QED BY <1>1, <1>2 DEF L!Admissible, L!Within, L!Reserved, CallCount

LEMMA CrashSeen ==
    ASSUME Inv, Inv', pc \in Underway, pc' = "crashed", UNCHANGED <<ledger, calls>>,
           disk'.files \in ledger.files..(1 + 5 * CallCount + 5), disk'.bytes >= ledger.bytes
    PROVE  L!Crash
<1>1. Ended = "open" /\ Ended' = "crashed"
  BY DEF Ended, Underway, Streaming
<1>2. Committed' = [files |-> disk'.files, bytes |-> disk'.bytes, output |-> ledger.output]
  BY DEF Committed
<1>3. /\ ledger.files \in Nat /\ ledger.bytes \in Nat /\ ledger.output \in Nat
      /\ disk'.files \in Nat /\ disk'.bytes \in Nat
      /\ Limits.capture_bytes \in Nat /\ Limits.native_output_bytes \in Nat
  BY LedgerTyped, LimitsAssumption DEF Inv, TypeOK
<1>4. /\ CallCount \in Nat /\ CountedBytes \in Nat /\ CountedOutput \in Nat
      /\ Committed.files = 1 + 5 * CallCount
      /\ Committed.bytes = ledger.bytes - CountedBytes
      /\ Committed.output = ledger.output - CountedOutput
  BY Mapped DEF Underway, Streaming
<1>5. /\ disk'.files <= Limits.capture_files /\ disk'.bytes <= Limits.capture_bytes
      /\ ledger.output <= Limits.native_output_bytes
  <2>1. /\ disk'.files <= Limits.capture_files /\ disk'.bytes <= Limits.capture_bytes
    BY DEF Inv, Held
  <2>2. ledger.output + OutputHeld <= Limits.native_output_bytes /\ OutputHeld \in Nat
    BY HeldIsNat DEF Inv, Held
  <2> QED BY <1>3, <2>1, <2>2
<1>6. ledger.files >= 1 + 5 * CallCount
  BY <1>4 DEF Inv, Recorded, CallCount, Underway, Streaming
<1>7. /\ disk'.files \in Committed.files..(Committed.files + 5)
      /\ disk'.bytes \in Committed.bytes..Limits.capture_bytes
      /\ ledger.output \in Committed.output..Limits.native_output_bytes
  BY <1>3, <1>4, <1>5, <1>6
<1>8. Committed' \in [files  : Committed.files..(Committed.files + 5),
                      bytes  : Committed.bytes..Limits.capture_bytes,
                      output : Committed.output..Limits.native_output_bytes]
  BY <1>2, <1>7
<1>9. L!Within(Committed')
  BY <1>2, <1>5 DEF L!Within
<1> QED BY <1>1, <1>8, <1>9 DEF L!Crash

LEMMA KeepSeen ==
    ASSUME Inv, Inv', Granted, NEW n \in Nat, NEW fits \in BOOLEAN, NEW label, Keep(n, fits, label), fits,
           \/ pc = "directory" /\ label = "stdin" /\ n = 0
           \/ pc = "stdin" /\ label = "spawn" /\ n = len,
           calls' = calls
    PROVE  Granted' /\ (Unseen \/ L!Crash)
<1>0. /\ UNCHANGED <<len, got>> /\ CallCount' = CallCount
      /\ ledger.files \in Nat /\ ledger.bytes \in Nat /\ ledger.output \in Nat
      /\ disk.files \in Nat /\ disk.bytes \in Nat /\ CallCount \in Nat /\ len \in Nat
  BY LedgerTyped, Mapped DEF Inv, TypeOK, Keep, locals, CallCount
<1>1. CASE /\ ledger' = [files |-> ledger.files + 1, bytes |-> ledger.bytes + n,
                         output |-> ledger.output]
           /\ pc' = label
  <2>1. CountedOutput = 0 /\ CountedOutput' = 0 /\ CountedBytes = 0 /\ CountedBytes' = n
    BY <1>0, <1>1 DEF CountedOutput, CountedBytes
  <2>2. Committed' = Committed
    BY <1>0, <1>1, <2>1, Mapped DEF Committed
  <2>3. Ended' = Ended
    BY <1>1 DEF Ended
  <2>4. Unseen
    BY <1>0, <2>2, <2>3 DEF Unseen
  <2> QED BY <1>0, <1>1, <2>4, GrantedStays DEF Underway
<1>2. CASE /\ pc' = "crashed" /\ ledger' = ledger
           /\ \E written \in 0..n : disk' = [files |-> disk.files + 1,
                                             bytes |-> disk.bytes + written]
  <2>1. PICK written \in 0..n : disk' = [files |-> disk.files + 1, bytes |-> disk.bytes + written]
    BY <1>2
  <2>2. /\ disk.files = ledger.files /\ disk.bytes = ledger.bytes
        /\ ledger.files \in (1 + 5 * CallCount)..(1 + 5 * CallCount + 1)
    BY <1>0 DEF Inv, Counted, Recorded, Streaming, CallCount
  <2>3. disk'.files \in ledger.files..(1 + 5 * CallCount + 5) /\ disk'.bytes >= ledger.bytes
    BY <1>0, <2>1, <2>2
  <2>4. L!Crash
    BY <1>2, <2>3, CrashSeen DEF Underway
  <2> QED BY <1>2, <2>4 DEF Granted, Underway, Streaming
<1> QED BY <1>1, <1>2 DEF Keep, Goto

(* The places a reservation leads through without its caller noticing. *)
LEMMA QuietSeen ==
    ASSUME Inv, Granted, UNCHANGED <<ledger, calls, len>>,
           \/ pc = "spawn" /\ pc' \in {"select", "account"}
           \/ pc \in {"select", "read", "wait"} /\ pc' \in Streaming
    PROVE  Granted' /\ Unseen
<1>1. CountedOutput' = CountedOutput /\ CountedBytes' = CountedBytes
  BY DEF CountedOutput, CountedBytes, Streaming
<1>2. Unseen
  BY <1>1 DEF Unseen, Committed, Ended, CallCount, Streaming
<1> QED BY <1>2, GrantedStays DEF Underway, Streaming

LEMMA AccountSeen == ASSUME Inv, Granted, Account PROVE Granted' /\ Unseen
<1>0. /\ pc = "account" /\ pc' = "receipt" /\ UNCHANGED <<calls, len, got>>
      /\ ledger' = [files |-> ledger.files + 2, bytes |-> ledger.bytes + Total(got),
                    output |-> ledger.output + Total(got)]
  BY DEF Account, Goto, locals
<1>1. /\ ledger.bytes \in Nat /\ ledger.output \in Nat /\ len \in Nat /\ Total(got) \in Nat
  BY LedgerTyped, TotalIsNat DEF Inv, TypeOK
<1>2. /\ CountedOutput = 0 /\ CountedBytes = len
      /\ CountedOutput' = Total(got) /\ CountedBytes' = Total(got) + len
  BY <1>0, <1>1 DEF CountedOutput, CountedBytes
<1>3. /\ ledger'.bytes - CountedBytes' = ledger.bytes - CountedBytes
      /\ ledger'.output - CountedOutput' = ledger.output - CountedOutput
  BY <1>0, <1>1, <1>2
<1>4. Unseen
  BY <1>0, <1>3 DEF Unseen, Committed, Ended, CallCount
<1> QED BY <1>0, <1>4, GrantedStays DEF Underway, Streaming

LEMMA JudgeSeen == ASSUME Inv, Granted, Judge PROVE Granted' /\ Unseen
<1>0. /\ pc = "judge" /\ pc' = (IF Verdict = "none" THEN "idle" ELSE "refused")
      /\ UNCHANGED <<ledger, disk, calls, len, got>>
  BY DEF Judge, Refuse, Goto, charges, locals
<1>1. CountedOutput' = CountedOutput /\ CountedBytes' = CountedBytes
  BY <1>0 DEF CountedOutput, CountedBytes
<1>2. Unseen
  BY <1>0, <1>1 DEF Unseen, Committed, Ended, CallCount
<1> QED BY <1>0, <1>2, GrantedStays DEF Underway, Streaming

LEMMA ChildSeen == ASSUME Inv, Flows, Granted, Child PROVE Granted' /\ Unseen
<1>0. child.alive /\ UNCHANGED <<ledger, disk, calls, pc, len, got>>
  BY DEF Child, ChildProceeds, ChildExits, ChildWrites, ChildCloses, charges, locals
<1>1. pc # "judge"
  BY <1>0 DEF Flows, Lifetime
<1>2. CountedOutput' = CountedOutput /\ CountedBytes' = CountedBytes
  BY <1>0 DEF CountedOutput, CountedBytes
<1>3. Unseen
  BY <1>0, <1>1, <1>2 DEF Unseen, Committed, Ended, CallCount
<1> QED BY <1>0, <1>3, GrantedStays

LEMMA StutterSeen == ASSUME Granted, UNCHANGED vars PROVE Granted' /\ Unseen
<1>0. UNCHANGED <<ledger, disk, calls, pc, len, got, child, complete>>
  BY DEF vars, charges, locals, process
<1>1. Verdict' = Verdict
  BY <1>0 DEF Verdict, Expected
<1>2. CountedOutput' = CountedOutput /\ CountedBytes' = CountedBytes
  BY <1>0 DEF CountedOutput, CountedBytes
<1>3. Unseen
  BY <1>0, <1>1, <1>2 DEF Unseen, Committed, Ended, CallCount
<1> QED BY <1>0, <1>3, GrantedStays

(* The checks of Begin are the ledger's: the counters of an idle reader are    *)
(* what its caller sees.                                                     *)
LEMMA ReservationDecides ==
    ASSUME Inv, pc = "idle", NEW n \in Nat
    PROVE  Reservation(n) = "none" <=> L!Admissible(n)
<1>1. /\ CallCount \in Nat /\ n \in Nat /\ Expected(n) \in Nat /\ ReceiptReserve \in Nat
      /\ ledger.files \in Nat /\ ledger.bytes \in Nat /\ ledger.output \in Nat
      /\ Limits.native_calls \in Nat /\ MAX_BYTES \in Nat
      /\ Limits.capture_files \in Nat /\ Limits.capture_bytes \in Nat
      /\ Limits.native_output_bytes \in Nat
  <2>1. Expected(n) \in Nat /\ MAX_BYTES \in Nat /\ Limits.native_calls \in Nat
    BY SizeAssumption, LimitsAssumption DEF Expected
  <2>2. TypeOK /\ CallCount \in Nat
    BY Mapped DEF Inv
  <2> QED BY <2>1, <2>2, LedgerTyped, ReserveIsNat
<1>2. /\ Committed.files = ledger.files /\ Committed.bytes = ledger.bytes
      /\ Committed.output = ledger.output
  <2>1. CountedBytes = 0 /\ CountedOutput = 0
    BY DEF CountedBytes, CountedOutput
  <2>2. ledger.files = 1 + 5 * CallCount
    BY <1>1 DEF Inv, Recorded, CallCount, Streaming
  <2> QED BY <1>1, <2>1, <2>2, Mapped
<1>3. L!Admissible(n) <=>
        /\ n <= MAX_BYTES /\ CallCount < Limits.native_calls
        /\ ledger.files + 5 <= Limits.capture_files
        /\ ledger.bytes + n + Expected(n) + ReceiptReserve <= Limits.capture_bytes
        /\ ledger.output + Expected(n) <= Limits.native_output_bytes
  BY <1>2 DEF L!Admissible, L!Within, L!Reserved, CallCount
<1>4. Reservation(n) = "none" <=>
        /\ ~(n > MAX_BYTES) /\ ~(CallCount >= Limits.native_calls)
        /\ ~(ledger.output + Expected(n) > Limits.native_output_bytes)
        /\ ~(ledger.files + 5 > Limits.capture_files)
        /\ ~(ledger.bytes + n + Expected(n) + ReceiptReserve > Limits.capture_bytes)
  BY DEF Reservation, CallCount
<1> QED BY <1>1, <1>3, <1>4

LEMMA BeginSeen ==
    ASSUME Inv, NEW n \in Lengths, Begin(n)
    PROVE  Granted' /\ (Unseen \/ L!Declined(n))
<1>0. /\ pc = "idle" /\ len' = n /\ n \in Nat /\ UNCHANGED <<ledger, disk, calls, got>>
      /\ Reservation(n) = "none" <=> L!Admissible(n)
  BY ReservationDecides, SizeAssumption DEF Begin, charges
<1>1. /\ pc' \in {"directory", "refused"}
      /\ pc' = "directory" <=> Reservation(n) = "none"
  BY DEF Begin, Goto, Refuse
<1>2. /\ CountedOutput = 0 /\ CountedBytes = 0 /\ CountedOutput' = 0 /\ CountedBytes' = 0
      /\ UNCHANGED <<Committed, CallCount>>
  <2>1. CountedOutput = 0 /\ CountedBytes = 0 /\ CountedOutput' = 0 /\ CountedBytes' = 0
    BY <1>0, <1>1 DEF CountedOutput, CountedBytes
  <2> QED BY <1>0, <1>1, <2>1 DEF Committed, CallCount
<1>3. CASE pc' = "directory"
  <2>1. Unseen
    BY <1>0, <1>2, <1>3 DEF Unseen, Ended
  <2>2. L!Admissible(n)'
    BY <1>0, <1>1, <1>2, <1>3 DEF L!Admissible, L!Within, L!Reserved, CallCount
  <2> QED BY <1>0, <2>1, <2>2 DEF Granted
<1>4. CASE pc' = "refused"
  <2>1. ~L!Admissible(n) /\ Ended = "open" /\ Ended' = "refused"
    BY <1>0, <1>1, <1>4 DEF Ended
  <2>2. L!Declined(n)
    BY <1>2, <2>1 DEF L!Declined, CallCount
  <2> QED BY <1>4, <2>2 DEF Granted, Underway, Streaming
<1> QED BY <1>1, <1>3, <1>4

(* The receipt is written: the whole call is charged at once. *)
LEMMA WriteReceiptSeen ==
    ASSUME Inv, Inv', Granted, WriteReceipt
    PROVE  Granted' /\ (L!Crash \/ \E verdict \in {"open", "refused"} : L!Call(len, verdict))
<1> DEFINE size == ReceiptSize(got, child.started, child.killed)
           total == Total(got)
<1>0. /\ pc = "receipt" /\ Keep(size, /\ ledger.files + 1 <= Limits.capture_files
                                      /\ ledger.bytes + size <= Limits.capture_bytes, "judge")
      /\ calls' = IF pc' = "judge" THEN Append(calls, Receipt) ELSE calls
  BY DEF WriteReceipt, Retain
<1>1. /\ ledger.files \in Nat /\ ledger.bytes \in Nat /\ ledger.output \in Nat
      /\ disk.files \in Nat /\ disk.bytes \in Nat /\ len \in Nat /\ total \in Nat
      /\ total <= Limits.native_output_bytes /\ ledger.output <= Limits.native_output_bytes
      /\ ReceiptReserve \in Nat /\ CallCount \in Nat
      /\ Limits.capture_files \in Nat /\ Limits.capture_bytes \in Nat
      /\ Limits.native_output_bytes \in Nat
  <2>1. TypeOK /\ CallCount \in Nat
    BY Mapped DEF Inv
  <2>2. len \in Nat /\ total \in Nat
    BY <2>1, TotalIsNat DEF TypeOK
  <2>3. total <= Limits.native_output_bytes /\ ledger.output + 0 <= Limits.native_output_bytes
    BY <1>0 DEF Inv, Held, OutputHeld, Streaming
  <2> QED BY <2>1, <2>2, <2>3, LedgerTyped, ReserveIsNat
<1>2. size \in 1..ReceiptReserve
  <2>1. size \in Nat /\ size <= ReceiptReserve
    BY <1>0, <1>1, ReceiptFits DEF Inv, TypeOK
  <2>2. size >= 1
    <3>1. Digits(got["stdout"]) \in Nat /\ Digits(got["stderr"]) \in Nat
      <4>1. /\ got["stdout"] \in 0..Limits.native_output_bytes
            /\ got["stderr"] \in 0..Limits.native_output_bytes
        <5>1. got["stdout"] \in Nat /\ got["stderr"] \in Nat
          BY StreamsAreTwo DEF Inv, TypeOK
        <5> QED BY <1>1, <5>1 DEF Total
      <4> QED BY <4>1, DigitsAreNat
    <3> QED BY <3>1, SizeAssumption DEF ReceiptSize
  <2> QED BY <1>1, <2>1, <2>2
<1> HIDE DEF size
<1>3. ledger.files + 1 <= Limits.capture_files /\ ledger.bytes + size <= Limits.capture_bytes
  <2>1. /\ ledger.files + 1 <= Limits.capture_files
        /\ ledger.bytes + ReceiptReserve <= Limits.capture_bytes
    BY <1>0 DEF Inv, Held, FilesHeld, BytesHeld, Streaming
  <2> QED BY <1>1, <1>2, <2>1
<1>4. CASE /\ ledger' = [files |-> ledger.files + 1, bytes |-> ledger.bytes + size,
                         output |-> ledger.output]
           /\ pc' = "judge"
  <2>1. CallCount' = CallCount + 1
    BY <1>0, <1>4 DEF CallCount, Inv, TypeOK, Receipt
  <2>2. L!Admissible(len) /\ Ended = "open" /\ Ended' \in {"open", "refused"}
    BY <1>0, <1>4 DEF Granted, Underway, Ended
  <2>3. /\ CountedOutput = total /\ CountedBytes = total + len
        /\ CountedOutput' = 0 /\ CountedBytes' = 0
    BY <1>0, <1>1, <1>4 DEF CountedOutput, CountedBytes
  <2>4. /\ Committed.files = 1 + 5 * CallCount /\ Committed.bytes = ledger.bytes - (total + len)
        /\ Committed.output = ledger.output - total
    BY <1>0, <2>3, Mapped
  <2>5. Committed' = [files |-> 1 + 5 * CallCount', bytes |-> ledger'.bytes - 0,
                      output |-> ledger'.output - 0]
    BY <1>4, <2>3 DEF Committed, CallCount
  <2>6. Committed' = L!Charged(len, total, size)
    <3>1. /\ 1 + 5 * CallCount' = Committed.files + 5
          /\ ledger'.bytes - 0 = Committed.bytes + len + total + size
          /\ ledger'.output - 0 = Committed.output + total
      BY <1>1, <1>2, <1>4, <2>1, <2>4
    <3> QED BY <2>5, <3>1 DEF L!Charged
  <2>7. L!Within(Committed')
    <3>1. ledger.files + 1 = 1 + 5 * (CallCount + 1)
      BY <1>0, <1>1 DEF Inv, Recorded, CallCount, Streaming
    <3>2. /\ Committed'.files <= Limits.capture_files
          /\ Committed'.bytes <= Limits.capture_bytes
          /\ Committed'.output <= Limits.native_output_bytes
      BY <1>1, <1>2, <1>3, <1>4, <2>1, <2>5, <3>1
    <3> QED BY <3>2 DEF L!Within
  <2>8. total \in L!Outputs /\ size \in L!Receipts
    BY <1>1, <1>2, <2>4 DEF L!Outputs, L!Receipts
  <2>9. L!Call(len, Ended')
    BY <2>1, <2>2, <2>6, <2>7, <2>8 DEF L!Call, CallCount
  <2> QED BY <1>4, <2>2, <2>9 DEF Granted, Underway, Streaming
<1>5. CASE /\ pc' = "crashed" /\ ledger' = ledger
           /\ \E written \in 0..size : disk' = [files |-> disk.files + 1,
                                                bytes |-> disk.bytes + written]
  <2>1. PICK written \in 0..size :
          disk' = [files |-> disk.files + 1, bytes |-> disk.bytes + written]
    BY <1>5
  <2>2. /\ disk.files = ledger.files /\ disk.bytes = ledger.bytes
        /\ ledger.files = 1 + 5 * CallCount + 4
    BY <1>0, <1>1 DEF Inv, Counted, Recorded, Streaming, CallCount
  <2>3. disk'.files \in ledger.files..(1 + 5 * CallCount + 5) /\ disk'.bytes >= ledger.bytes
    BY <1>1, <1>2, <2>1, <2>2
  <2>4. L!Crash
    BY <1>0, <1>5, <2>3, CrashSeen DEF Underway
  <2> QED BY <1>5, <2>4 DEF Granted, Underway, Streaming
<1> QED BY <1>0, <1>3, <1>4, <1>5 DEF Keep, Goto

LEMMA WriteFailsSeen == ASSUME Inv, Inv', Granted, WriteFails PROVE Granted' /\ L!Crash
<1>0. /\ pc = "read" /\ pc' = "crashed" /\ UNCHANGED <<ledger, calls>>
      /\ \E n \in Nat : disk' = [files |-> disk.files, bytes |-> disk.bytes + n]
  <2>1. pc = "read" /\ pc' = "crashed" /\ UNCHANGED <<ledger, calls>>
    BY DEF WriteFails, Goto
  <2>2. PICK s \in ready : \E n \in 0..Least(ReadSize(s), allowance) :
          disk' = [files |-> disk.files, bytes |-> disk.bytes + n]
    BY DEF WriteFails
  <2> QED BY <2>1, <2>2
<1>1. PICK n \in Nat : disk' = [files |-> disk.files, bytes |-> disk.bytes + n]
  BY <1>0
<1>2. /\ ledger.files \in Nat /\ ledger.bytes \in Nat /\ Total(got) \in Nat /\ CallCount \in Nat
  BY LedgerTyped, TotalIsNat, Mapped DEF Inv, TypeOK
<1>3. /\ disk.files = ledger.files + 2 /\ disk.bytes = ledger.bytes + Total(got)
      /\ ledger.files = 1 + 5 * CallCount + 2
  BY <1>0, <1>2 DEF Inv, Counted, Recorded, Streaming, CallCount
<1>4. disk'.files \in ledger.files..(1 + 5 * CallCount + 5) /\ disk'.bytes >= ledger.bytes
  BY <1>1, <1>2, <1>3
<1>5. L!Crash
  BY <1>0, <1>4, CrashSeen DEF Underway, Streaming
<1> QED BY <1>0, <1>5 DEF Granted, Underway, Streaming

LEMMA OpenFailsSeen == ASSUME Inv, Inv', Granted, OpenFails PROVE Granted' /\ L!Crash
<1>0. pc = "spawn" /\ pc' = "crashed" /\ UNCHANGED <<ledger, calls>>
  BY DEF OpenFails, Goto
<1>1. PICK made \in 0..1 : disk' = [files |-> disk.files + made, bytes |-> disk.bytes]
  BY DEF OpenFails
<1>2. ledger.files \in Nat /\ ledger.bytes \in Nat /\ CallCount \in Nat
  BY LedgerTyped, Mapped DEF Inv
<1>3. /\ disk.files = ledger.files /\ disk.bytes = ledger.bytes
      /\ ledger.files = 1 + 5 * CallCount + 2
  BY <1>0, <1>2 DEF Inv, Counted, Recorded, Streaming, CallCount
<1>4. disk'.files \in ledger.files..(1 + 5 * CallCount + 5) /\ disk'.bytes >= ledger.bytes
  BY <1>1, <1>2, <1>3
<1>5. L!Crash
  BY <1>0, <1>4, CrashSeen DEF Underway, Streaming
<1> QED BY <1>0, <1>5 DEF Granted, Underway, Streaming

LEMMA RefinementStep ==
    ASSUME Inv, Inv', Flows, Granted, [Next]_vars
    PROVE  Granted' /\ [L!LedgerNext]_(L!ledgerVars)
<1>1. CASE MakeDirectory
  <2>1. /\ pc = "directory" /\ calls' = calls
        /\ Keep(0, ledger.files + 1 <= Limits.capture_files, "stdin")
    BY <1>1 DEF MakeDirectory, Directory
  <2>2. ledger.files + 1 <= Limits.capture_files
    BY <2>1, LedgerTyped DEF Inv, Held, FilesHeld
  <2>3. Keep(0, TRUE, "stdin")
    BY <2>1, <2>2
  <2>4. Granted' /\ (Unseen \/ L!Crash)
    BY <2>1, <2>3, KeepSeen
  <2> QED BY <2>4, UnseenStutters DEF L!LedgerNext
<1>2. CASE RetainInput
  <2>1. /\ pc = "stdin" /\ calls' = calls /\ len \in Nat
        /\ Keep(len, /\ ledger.files + 1 <= Limits.capture_files
                     /\ ledger.bytes + len <= Limits.capture_bytes, "spawn")
    BY <1>2 DEF RetainInput, Retain, Inv, TypeOK
  <2>2. ledger.files + 1 <= Limits.capture_files /\ ledger.bytes + len <= Limits.capture_bytes
    <3>1. /\ ledger.files + 4 <= Limits.capture_files
          /\ ledger.bytes + (len + ReceiptReserve) <= Limits.capture_bytes
      BY <2>1 DEF Inv, Held, FilesHeld, BytesHeld
    <3> QED BY <2>1, <3>1, LedgerTyped, ReserveIsNat DEF Inv
  <2>3. Keep(len, TRUE, "spawn")
    BY <2>1, <2>2
  <2>4. Granted' /\ (Unseen \/ L!Crash)
    BY <2>1, <2>3, KeepSeen
  <2> QED BY <2>4, UnseenStutters DEF L!LedgerNext
<1>3. CASE Spawn \/ Select \/ ReadBlock \/ Wait
  <2>1. /\ UNCHANGED <<ledger, calls, len>>
        /\ \/ pc = "spawn" /\ pc' \in {"select", "account"}
           \/ pc \in {"select", "read", "wait"} /\ pc' \in Streaming
    BY <1>3 DEF Spawn, Select, ReadBlock, Wait, Goto, charges, locals, Streaming
  <2>2. Granted' /\ Unseen
    BY <2>1, QuietSeen
  <2> QED BY <2>2, UnseenStutters
<1>4. CASE Account \/ Judge \/ Child \/ UNCHANGED vars
  BY <1>4, AccountSeen, JudgeSeen, ChildSeen, StutterSeen, UnseenStutters
<1>5. CASE OpenFails \/ WriteFails
  BY <1>5, OpenFailsSeen, WriteFailsSeen DEF L!LedgerNext
<1>6. CASE WriteReceipt
  <2>1. len \in Lengths
    BY <1>6 DEF WriteReceipt, Granted, Underway
  <2> QED BY <1>6, <2>1, WriteReceiptSeen DEF L!LedgerNext
<1>7. CASE \E n \in Lengths : Begin(n)
  <2>1. PICK n \in Lengths : Begin(n)
    BY <1>7
  <2> QED BY <2>1, BeginSeen, UnseenStutters DEF L!LedgerNext
<1> QED BY <1>1, <1>2, <1>3, <1>4, <1>5, <1>6, <1>7 DEF Next, Reader

(* The detailed call implements the ledger its caller counts on: whatever the  *)
(* child, the pipes and the file system do, a call is declined before any      *)
(* work, or charged whole with its receipt, or cut off by a file system error. *)
THEOREM CallImplementsLedger == Spec => ImplementsLedger
<1>1. Init => L!LedgerInit
  BY DEF Init, L!LedgerInit, L!Fresh, Committed, CountedBytes, CountedOutput, Ended
<1>2. Init => Flows /\ Granted
  BY FlowsInit DEF Init, Granted, Underway, Streaming
<1>3. Inv /\ Inv' /\ Flows /\ Granted /\ [Next]_vars =>
        Flows' /\ Granted' /\ [L!LedgerNext]_(L!ledgerVars)
  BY FlowsNext, RefinementStep
<1> QED BY <1>1, <1>2, <1>3, Inductive, PTL DEF Spec, ImplementsLedger, L!LedgerSpec
============================================================================
