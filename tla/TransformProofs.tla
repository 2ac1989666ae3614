--------------------------- MODULE TransformProofs ---------------------------
(***************************************************************************)
(* Proofs about module Transform, for every instruction set, every         *)
(* address and every length of the code: the edits of TUnit keep its       *)
(* tables current and its rip-relative operands resolved (first part),     *)
(* hence so does every transform and every undo (second part).             *)
(*                                                                         *)
(* The edits are compared row by row: an instruction, its size and its     *)
(* offset "fit" if the operand resolves from there.  Every edit moves rows *)
(* by some distance and adjusts their operands by minus that distance.     *)
(***************************************************************************)
EXTENDS Transform, NatLemmas

\* What the search needs of a TUnit: its tables are current and its operands resolve.
Sound(t) ==
    /\ t \in TUnitType
    /\ check_invariants(t)
    /\ RipsResolve(t)

\* One row of the tables: the size is the instruction's, the operand resolves from this
\* offset, and what it dereferences is a known target.
Fits(instr, size, off, targets) ==
    /\ instr \in Instr
    /\ size \in Nat
    /\ off \in Int
    /\ size = instr.shape.size
    /\ is_rip(instr) => RipOffset + off + size + instr.disp = instr.glob
    /\ instr.shape.rip = "mem" => instr.glob \in targets

\* The offsets are the running sum of the sizes.
RunningSum(sizes, offsets, n) ==
    /\ offsets[1] = 0
    /\ \A i \in 2..n : offsets[i] = offsets[i-1] + sizes[i-1]

\* All rows fit, the leading label is in place, the offsets add up.
Tables(code, sizes, offsets, targets, n) ==
    /\ code \in [1..n -> Instr]
    /\ sizes \in [1..n -> Nat]
    /\ offsets \in [1..n -> Int]
    /\ targets \in SUBSET Int
    /\ \A i \in 1..n : Fits(code[i], sizes[i], offsets[i], targets)
    /\ code[1].shape.kind = "label"
    /\ RunningSum(sizes, offsets, n)

\* The TUnit t has these tables.
Record(t, code, sizes, offsets, targets, n) ==
    /\ t.code = code /\ t.sizes = sizes /\ t.offsets = offsets /\ t.targets = targets
    /\ Len(code) = n

\* Adjusting an operand by minus the distance its instruction moves keeps what it
\* resolves to: the one step all edits of TUnit rest on.
LEMMA FitsAdjust ==
    ASSUME NEW instr, NEW size, NEW off, NEW targets, NEW d \in Int, NEW e \in Int, e = off + d,
           Fits(instr, size, off, targets)
    PROVE  Fits(AdjustIfRip(instr, -d), size, e, targets)
  BY RipOffsetAssumption DEF Fits, AdjustIfRip, adjust_rip, is_rip, Instr

\* adjust_rip only touches the displacement.
LEMMA AdjustShape ==
    ASSUME NEW instr \in Instr, NEW d
    PROVE  AdjustIfRip(instr, d).shape = instr.shape
  BY DEF AdjustIfRip, adjust_rip, Instr

\* A sound TUnit, unfolded into tables whose every row fits.
LEMMA SoundTables ==
    ASSUME NEW t, Sound(t)
    PROVE  /\ Len(t.code) \in Nat \ {0}
           /\ Record(t, t.code, t.sizes, t.offsets, t.targets, Len(t.code))
           /\ Tables(t.code, t.sizes, t.offsets, t.targets, Len(t.code))
<1> DEFINE n == Len(t.code)
<1>1. /\ n \in Nat \ {0}
      /\ t.code \in [1..n -> Instr] /\ t.sizes \in [1..n -> Nat] /\ t.offsets \in [1..n -> Int]
      /\ t.targets \in SUBSET Int
  BY DEF Sound, TUnitType, check_invariants, invariant_hex_sizes, invariant_hex_offsets, invariant_first_instr_is_label
<1>2. \A i \in 1..n : is_rip(t.code[i]) => Resolved(t.code, t.sizes, t.offsets, i) = t.code[i].glob
  BY DEF Sound, RipsResolve, RipTarget
<1>3. \A i \in 1..n : t.code[i].shape.rip = "mem" => Resolved(t.code, t.sizes, t.offsets, i) \in t.targets
  BY DEF Sound, check_invariants, invariant_rip_offsets, Dereferenced
<1>4. \A i \in 1..n : t.code[i].shape.rip = "mem" => is_rip(t.code[i])
  BY DEF is_rip
<1>5. \A i \in 1..n : t.sizes[i] = t.code[i].shape.size
  BY DEF Sound, check_invariants, invariant_hex_sizes, hex_size
<1>6. \A i \in 1..n : Fits(t.code[i], t.sizes[i], t.offsets[i], t.targets)
  BY <1>1, <1>2, <1>3, <1>4, <1>5 DEF Fits, Resolved
<1>7. RunningSum(t.sizes, t.offsets, n)
  <2>1. t.offsets[1] = 0
    BY <1>1 DEF Sound, check_invariants, invariant_hex_offsets
  <2>2. ASSUME NEW i \in 2..n
        PROVE  t.offsets[i] = t.offsets[i-1] + t.sizes[i-1]
    <3>1. i-1 \in 1..n
      BY <1>1
    <3>2. t.offsets[i] = t.offsets[i-1] + t.code[i-1].shape.size
      BY DEF Sound, check_invariants, invariant_hex_offsets, hex_size
    <3>3. QED  BY <1>5, <3>1, <3>2
  <2>3. QED  BY <2>1, <2>2 DEF RunningSum
<1>8. t.code[1].shape.kind = "label"
  BY DEF Sound, check_invariants, invariant_first_instr_is_label
<1>9. QED
  BY <1>1, <1>6, <1>7, <1>8 DEF Tables, Record

\* The converse: tables whose every row fits make a sound TUnit.
LEMMA TablesSound ==
    ASSUME NEW code, NEW sizes, NEW offsets, NEW targets, NEW n \in Nat \ {0},
           Tables(code, sizes, offsets, targets, n)
    PROVE  Sound([code |-> code, sizes |-> sizes, offsets |-> offsets, targets |-> targets])
<1> DEFINE t == [code |-> code, sizes |-> sizes, offsets |-> offsets, targets |-> targets]
<1>1. /\ t.code = code /\ t.sizes = sizes /\ t.offsets = offsets /\ t.targets = targets
  OBVIOUS
<1>2. code \in [1..n -> Instr] /\ sizes \in [1..n -> Nat] /\ offsets \in [1..n -> Int]
  BY DEF Tables, Fits
<1>3. /\ code \in Seq(Instr) /\ sizes \in Seq(Nat) /\ offsets \in Seq(Int)
      /\ Len(code) = n /\ Len(sizes) = n /\ Len(offsets) = n
  BY <1>2, FunctionIsSeq
<1>4. t \in TUnitType
  BY <1>3 DEF TUnitType, Tables
<1>5. /\ invariant_first_instr_is_label(t) /\ invariant_hex_sizes(t) 
  BY <1>1, <1>3 DEF Tables, Fits, invariant_first_instr_is_label, invariant_hex_sizes, hex_size
<1>6. invariant_hex_offsets(t)
  <2>1. ASSUME NEW i \in 2..n
        PROVE  offsets[i] = offsets[i-1] + hex_size(code[i-1])
    <3>1. i-1 \in 1..n
      OBVIOUS
    <3>2. QED  BY <3>1 DEF Tables, Fits, RunningSum, hex_size
  <2>2. QED  BY <1>1, <1>3, <2>1 DEF Tables, RunningSum, invariant_hex_offsets
<1>7. RipsResolve(t)
  BY <1>1, <1>3 DEF Tables, Fits, RipsResolve, RipTarget, Resolved
<1>8. invariant_rip_offsets(t)
  <2> SUFFICES ASSUME NEW i \in 1..n, code[i].shape.rip = "mem"
               PROVE  Resolved(code, sizes, offsets, i) \in targets
    BY <1>1, <1>3 DEF invariant_rip_offsets, Dereferenced
  <2>1. is_rip(code[i])
    BY DEF is_rip
  <2>2. QED  BY <2>1 DEF Tables, Fits, Resolved
<1>9. QED
  BY <1>4, <1>5, <1>6, <1>7, <1>8 DEF Sound, check_invariants

\* How the lemmas on the edits build such tables from their parts.
LEMMA MakeTables ==
    ASSUME NEW code, NEW sizes, NEW offsets, NEW targets, NEW n \in Nat \ {0},
           code = [i \in 1..n |-> code[i]],
           sizes = [i \in 1..n |-> sizes[i]],
           offsets = [i \in 1..n |-> offsets[i]],
           targets \in SUBSET Int,
           \A i \in 1..n : Fits(code[i], sizes[i], offsets[i], targets),
           code[1].shape.kind = "label",
           RunningSum(sizes, offsets, n)
    PROVE  Sound([code |-> code, sizes |-> sizes, offsets |-> offsets, targets |-> targets])
<1>1. \A i \in 1..n : code[i] \in Instr /\ sizes[i] \in Nat /\ offsets[i] \in Int
  BY DEF Fits
<1>2. code \in [1..n -> Instr] /\ sizes \in [1..n -> Nat] /\ offsets \in [1..n -> Int]
  BY <1>1
<1>3. QED  BY <1>2, TablesSound DEF Tables

\* TUnit::remove: the rows behind the removed one close up and still fit.
LEMMA RemoveTables ==
    ASSUME NEW n \in Nat \ {0}, NEW c, NEW s, NEW o, NEW T, Tables(c, s, o, T, n),
           NEW t, Record(t, c, s, o, T, n),
           NEW k \in 2..n
    PROVE  Sound(remove(t, k))
<1> DEFINE d == 0 - s[k]
           code == [i \in 1..(n-1) |-> IF i < k THEN c[i] ELSE AdjustIfRip(c[i+1], -d)]
           sizes == [i \in 1..(n-1) |-> IF i < k THEN s[i] ELSE s[i+1]]
           offsets == [i \in 1..(n-1) |-> IF i < k THEN o[i] ELSE o[i+1] + d]
<1>1. k \in 1..n /\ n - 1 \in Nat \ {0}
  OBVIOUS
<1>2. /\ \A i \in 1..n : s[i] \in Int /\ o[i] \in Int /\ Fits(c[i], s[i], o[i], T)
      /\ d \in Int
      /\ T \in SUBSET Int
  BY <1>1 DEF Tables
<1>3. ASSUME NEW i \in 1..(n-1)
      PROVE  Fits(code[i], sizes[i], offsets[i], T)
  <2>1. CASE i < k
    BY <1>2, <2>1
  <2>2. CASE ~(i < k)
    <3>1. i+1 \in 1..n
      OBVIOUS
    <3>2. Fits(c[i+1], s[i+1], o[i+1], T) /\ o[i+1] \in Int
      BY <1>2, <3>1 
    <3> HIDE DEF d
    <3>3. Fits(AdjustIfRip(c[i+1], -d), s[i+1], o[i+1] + d, T)
      BY <1>2, <3>2, FitsAdjust
    <3>4. QED  BY <2>2, <3>3
  <2>3. QED  BY <2>1, <2>2
<1>4. RunningSum(sizes, offsets, n-1)
  <2>1. o[1] = 0 /\ \A i \in 2..n : o[i] = o[i-1] + s[i-1]
    BY DEF Tables, RunningSum
  <2>2. offsets[1] = 0
    BY <1>1, <2>1
  <2>3. ASSUME NEW i \in 2..(n-1)
        PROVE  offsets[i] = offsets[i-1] + sizes[i-1]
    <3>1. /\ i-1 \in 1..n /\ i+1 \in 2..n /\ i-1 \in 1..(n-1) /\ i \in 1..(n-1)
          /\ (i+1)-1 = i /\ (i-1)+1 = i
      OBVIOUS
    <3>2. o[i] = o[i-1] + s[i-1] /\ o[i+1] = o[i] + s[i]
      BY <2>1, <3>1
    <3>3. QED  BY <1>2, <3>1, <3>2
  <2>4. QED  BY <2>2, <2>3 DEF RunningSum
<1>5. code[1].shape.kind = "label"
  BY <1>1 DEF Tables
<1>6. QED
  <2> HIDE DEF code, sizes, offsets
  <2>1. /\ code = [i \in 1..(n-1) |-> code[i]]
        /\ sizes = [i \in 1..(n-1) |-> sizes[i]]
        /\ offsets = [i \in 1..(n-1) |-> offsets[i]]
    BY DEF code, sizes, offsets
  <2>2. Sound([code |-> code, sizes |-> sizes, offsets |-> offsets, targets |-> T])
    BY <1>1, <1>2, <1>3, <1>4, <1>5, <2>1, MakeTables
  <2>3. remove(t, k) = [code |-> code, sizes |-> sizes, offsets |-> offsets, targets |-> T]
    BY DEF Record, remove, code, sizes, offsets
  <2>4. QED  BY <2>2, <2>3

\* TUnit::insert: the new row fits if its operand was right for that place, and the
\* rows behind it make room and still fit.
LEMMA InsertTables ==
    ASSUME NEW n \in Nat \ {0}, NEW c, NEW s, NEW o, NEW T, Tables(c, s, o, T, n),
           NEW t, Record(t, c, s, o, T, n),
           NEW k \in 2..(n+1), NEW new,
           Fits(new, hex_size(new), o[k-1] + s[k-1], T)
    PROVE  Sound(insert(t, k, new, FALSE))
<1> DEFINE size == hex_size(new)
           code == [i \in 1..(n+1) |-> IF i < k THEN c[i]
                                       ELSE IF i = k THEN new ELSE AdjustIfRip(c[i-1], -size)]
           sizes == [i \in 1..(n+1) |-> IF i < k THEN s[i] ELSE IF i = k THEN size ELSE s[i-1]]
           offsets == [i \in 1..(n+1) |-> IF i < k THEN o[i]
                                          ELSE IF i = k THEN o[k-1] + s[k-1] ELSE o[i-1] + size]
<1>1. k-1 \in 1..n /\ n + 1 \in Nat \ {0}
  OBVIOUS
<1>2. /\ \A i \in 1..n : s[i] \in Int /\ o[i] \in Int /\ Fits(c[i], s[i], o[i], T)
      /\ T \in SUBSET Int
  BY DEF Tables
<1>3. size \in Int
  BY DEF Fits
<1>4. ASSUME NEW i \in 1..(n+1)
      PROVE  Fits(code[i], sizes[i], offsets[i], T)
  <2>1. CASE i < k
    BY <1>2, <2>1
  <2>2. CASE i = k
    BY <2>2
  <2>3. CASE i > k
    <3>1. i-1 \in 1..n
      BY <2>3
    <3>2. Fits(c[i-1], s[i-1], o[i-1], T) /\ o[i-1] \in Int
      BY <1>2, <3>1
    <3>3. Fits(AdjustIfRip(c[i-1], -size), s[i-1], o[i-1] + size, T)
      BY <1>3, <3>2, FitsAdjust
    <3>4. QED  BY <2>3, <3>3
  <2>4. QED  BY <2>1, <2>2, <2>3
<1>5. RunningSum(sizes, offsets, n+1)
  <2>1. o[1] = 0 /\ \A i \in 2..n : o[i] = o[i-1] + s[i-1]
    BY DEF Tables, RunningSum
  <2>2. offsets[1] = 0
    BY <2>1
  <2>3. ASSUME NEW i \in 2..(n+1)
        PROVE  offsets[i] = offsets[i-1] + sizes[i-1]
    <3>1. i-1 \in 1..n /\ i-1 \in 1..(n+1) /\ i \in 1..(n+1)
      OBVIOUS
    <3>2. CASE i <= k
      BY <2>1, <3>1, <3>2, <1>2
    <3>3. CASE i > k + 1
      <4>1. i-1 \in 2..n /\ i-2 \in 1..n /\ (i-1)-1 = i-2
        BY <3>3
      <4>2. o[i-1] = o[i-2] + s[i-2]
        BY <2>1, <4>1
      <4>3. QED  BY <1>2, <1>3, <3>1, <3>3, <4>1, <4>2
    <3>4. CASE i = k + 1
      <4>1. i-1 = k
        BY <3>4
      <4>2. offsets[i] = o[k] + size /\ offsets[i-1] = o[k-1] + s[k-1] /\ sizes[i-1] = size
        BY <3>1, <3>4, <4>1
      <4>3. o[k] = o[k-1] + s[k-1]
        BY <2>1, <3>1, <3>4
      <4>4. QED  BY <4>2, <4>3
    <3>5. QED  BY <3>2, <3>3, <3>4
  <2>4. QED  BY <2>2, <2>3 DEF RunningSum
<1>6. code[1].shape.kind = "label"
  BY DEF Tables
<1>7. QED
  <2> HIDE DEF code, sizes, offsets
  <2>1. /\ code = [i \in 1..(n+1) |-> code[i]]
        /\ sizes = [i \in 1..(n+1) |-> sizes[i]]
        /\ offsets = [i \in 1..(n+1) |-> offsets[i]]
    BY DEF code, sizes, offsets
  <2>2. Sound([code |-> code, sizes |-> sizes, offsets |-> offsets, targets |-> T])
    BY <1>1, <1>2, <1>4, <1>5, <1>6, <2>1, MakeTables
  <2>3. insert(t, k, new, FALSE) = [code |-> code, sizes |-> sizes, offsets |-> offsets, targets |-> T]
    <3>1. k # 1
      OBVIOUS
    <3>2. InsertOffset(t, k) = o[k-1] + s[k-1]
      BY <3>1 DEF Record, InsertOffset
    <3>3. QED  BY <3>2 DEF Record, insert, code, sizes, offsets
  <2>4. QED  BY <2>2, <2>3

\* TUnit::rotate_left: the moved row and the rows it jumps over still fit.
LEMMA RotateLeftTables ==
    ASSUME NEW n \in Nat \ {0}, NEW c, NEW s, NEW o, NEW T, Tables(c, s, o, T, n),
           NEW t, Record(t, c, s, o, T, n),
           NEW i \in 2..n, NEW j \in 2..n, i < j
    PROVE  Sound(rotate_left(t, i, j))
<1> DEFINE small == 0 - s[i]
           large == o[j] - o[i+1] + s[j]
           code == [k \in 1..n |-> IF i <= k /\ k < j THEN AdjustIfRip(c[k+1], -small)
                                       ELSE IF k = j THEN AdjustIfRip(c[i], -large) ELSE c[k]]
           sizes == [k \in 1..n |-> IF i <= k /\ k < j THEN s[k+1]
                                        ELSE IF k = j THEN s[i] ELSE s[k]]
           offsets == [k \in 1..n |-> IF i <= k /\ k < j THEN o[k+1] + small
                                          ELSE IF k = j THEN o[i] + large ELSE o[k]]
<1>1. /\ \A k \in 1..n : s[k] \in Int /\ o[k] \in Int /\ Fits(c[k], s[k], o[k], T)
      /\ T \in SUBSET Int
  BY DEF Tables
<1>2. o[1] = 0 /\ \A k \in 2..n : o[k] = o[k-1] + s[k-1]
  BY DEF Tables, RunningSum
<1>3. /\ i+1 \in 2..n /\ i \in 1..n /\ j \in 1..n /\ i-1 \in 1..n /\ j-1 \in 1..n
      /\ o[i+1] = o[i] + s[i]
  BY <1>2
<1>4. small \in Int /\ large \in Int
  BY <1>1, <1>3
<1>5. ASSUME NEW k \in 1..n
      PROVE  Fits(code[k], sizes[k], offsets[k], T)
  <2> HIDE DEF small, large
  <2>1. CASE i <= k /\ k < j
    <3>1. k+1 \in 1..n
      BY <2>1
    <3>2. Fits(AdjustIfRip(c[k+1], -small), s[k+1], o[k+1] + small, T)
      BY <1>1, <1>4, <3>1, FitsAdjust
    <3>3. QED  BY <2>1, <3>2
  <2>2. CASE k = j
    <3>1. Fits(AdjustIfRip(c[i], -large), s[i], o[i] + large, T)
      BY <1>1, <1>3, <1>4, FitsAdjust
    <3>2. QED  BY <2>2, <3>1
  <2>3. CASE k < i \/ k > j
    BY <1>1, <2>3
  <2>4. QED  BY <2>1, <2>2, <2>3
<1>6. RunningSum(sizes, offsets, n)
  <2>1. offsets[1] = 0
    BY <1>2
  <2>2. ASSUME NEW k \in 2..n
        PROVE  offsets[k] = offsets[k-1] + sizes[k-1]
    <3>1. k-1 \in 1..n /\ k \in 1..n /\ o[k] = o[k-1] + s[k-1] /\ (k-1)+1 = k
      BY <1>2
    <3>2. CASE k < i
      BY <3>1, <3>2
    <3>3. CASE k = i
      BY <1>1, <1>3, <3>1, <3>3
    <3>4. CASE i < k /\ k < j
      <4>1. k+1 \in 2..n /\ (k+1)-1 = k
        BY <3>4
      <4>2. o[k+1] = o[k] + s[k]
        BY <1>2, <4>1
      <4>3. QED  BY <1>1, <3>1, <3>4, <4>1, <4>2
    <3>5. CASE k = j
      <4>1. offsets[k] = o[i] + large /\ offsets[k-1] = o[j] + small /\ sizes[k-1] = s[j]
        BY <3>1, <3>5
      <4>2. o[i] + large = (o[j] + small) + s[j]
        BY <1>1, <1>3
      <4>3. QED  BY <4>1, <4>2
    <3>6. CASE k = j + 1
      <4>1. offsets[k] = o[k] /\ offsets[k-1] = o[i] + large /\ sizes[k-1] = s[i]
        BY <3>1, <3>6
      <4>2. k-1 = j
        BY <3>6
      <4>3. QED  BY <1>1, <1>3, <3>1, <4>1, <4>2
    <3>7. CASE k > j + 1
      BY <3>1, <3>7
    <3>8. QED  BY <3>2, <3>3, <3>4, <3>5, <3>6, <3>7
  <2>3. QED  BY <2>1, <2>2 DEF RunningSum
<1>7. code[1].shape.kind = "label"
  BY DEF Tables
<1>8. QED
  <2> HIDE DEF code, sizes, offsets
  <2>1. /\ code = [k \in 1..n |-> code[k]]
        /\ sizes = [k \in 1..n |-> sizes[k]]
        /\ offsets = [k \in 1..n |-> offsets[k]]
    BY DEF code, sizes, offsets
  <2>2. Sound([code |-> code, sizes |-> sizes, offsets |-> offsets, targets |-> T])
    BY <1>1, <1>5, <1>6, <1>7, <2>1, MakeTables
  <2>3. rotate_left(t, i, j) = [code |-> code, sizes |-> sizes, offsets |-> offsets, targets |-> T]
    BY DEF Record, rotate_left, code, sizes, offsets
  <2>4. QED  BY <2>2, <2>3

\* TUnit::rotate_right: the moved row and the rows it jumps over still fit.
LEMMA RotateRightTables ==
    ASSUME NEW n \in Nat \ {0}, NEW c, NEW s, NEW o, NEW T, Tables(c, s, o, T, n),
           NEW t, Record(t, c, s, o, T, n),
           NEW i \in 2..n, NEW j \in 2..n, i < j
    PROVE  Sound(rotate_right(t, i, j))
<1> DEFINE small == s[j]
           large == 0 - (o[j] - o[i+1]) - s[i]
           code == [k \in 1..n |-> IF i < k /\ k <= j THEN AdjustIfRip(c[k-1], -small)
                                       ELSE IF k = i THEN AdjustIfRip(c[j], -large) ELSE c[k]]
           sizes == [k \in 1..n |-> IF i < k /\ k <= j THEN s[k-1]
                                        ELSE IF k = i THEN s[j] ELSE s[k]]
           offsets == [k \in 1..n |-> IF i < k /\ k <= j THEN o[k-1] + small
                                          ELSE IF k = i THEN o[j] + large ELSE o[k]]
<1>1. /\ \A k \in 1..n : s[k] \in Int /\ o[k] \in Int /\ Fits(c[k], s[k], o[k], T)
      /\ T \in SUBSET Int
  BY DEF Tables
<1>2. o[1] = 0 /\ \A k \in 2..n : o[k] = o[k-1] + s[k-1]
  BY DEF Tables, RunningSum
<1>3. /\ i+1 \in 2..n /\ i \in 1..n /\ j \in 1..n /\ i-1 \in 1..n /\ j-1 \in 1..n
      /\ o[i+1] = o[i] + s[i]
  BY <1>2
<1>4. small \in Int /\ large \in Int
  BY <1>1, <1>3
<1>5. ASSUME NEW k \in 1..n
      PROVE  Fits(code[k], sizes[k], offsets[k], T)
  <2> HIDE DEF small, large
  <2>1. CASE i < k /\ k <= j
    <3>1. k-1 \in 1..n
      BY <2>1
    <3>2. Fits(AdjustIfRip(c[k-1], -small), s[k-1], o[k-1] + small, T)
      BY <1>1, <1>4, <3>1, FitsAdjust
    <3>3. QED  BY <2>1, <3>2
  <2>2. CASE k = i
    <3>1. Fits(AdjustIfRip(c[j], -large), s[j], o[j] + large, T)
      BY <1>1, <1>3, <1>4, FitsAdjust
    <3>2. QED  BY <2>2, <3>1
  <2>3. CASE k < i \/ k > j
    BY <1>1, <2>3
  <2>4. QED  BY <2>1, <2>2, <2>3
<1>6. RunningSum(sizes, offsets, n)
  <2>1. offsets[1] = 0
    BY <1>2
  <2>2. ASSUME NEW k \in 2..n
        PROVE  offsets[k] = offsets[k-1] + sizes[k-1]
    <3>1. k-1 \in 1..n /\ k \in 1..n /\ o[k] = o[k-1] + s[k-1] /\ (k-1)+1 = k
      BY <1>2
    <3>2. CASE k < i
      BY <3>1, <3>2
    <3>3. CASE k = i
      <4>1. offsets[k] = o[j] + large /\ offsets[k-1] = o[k-1] /\ sizes[k-1] = s[k-1]
        BY <3>1, <3>3
      <4>2. QED  BY <1>1, <1>3, <3>1, <3>3, <4>1
    <3>4. CASE k = i + 1
      <4>1. offsets[k] = o[i] + small /\ offsets[k-1] = o[j] + large /\ sizes[k-1] = s[j]
        BY <3>1, <3>4
      <4>2. o[i] + small = (o[j] + large) + s[j]
        BY <1>1, <1>3
      <4>3. QED  BY <4>1, <4>2
    <3>5. CASE i + 1 < k /\ k <= j
      <4>1. k-1 \in 2..n /\ k-2 \in 1..n /\ (k-1)-1 = k-2
        BY <3>5
      <4>2. o[k-1] = o[k-2] + s[k-2]
        BY <1>2, <4>1
      <4>3. QED  BY <1>1, <3>1, <3>5, <4>1, <4>2
    <3>6. CASE k = j + 1
      <4>1. offsets[k] = o[k] /\ offsets[k-1] = o[j-1] + small /\ sizes[k-1] = s[j-1]
        BY <3>1, <3>6
      <4>2. o[j] = o[j-1] + s[j-1] /\ k-1 = j
        BY <1>2, <3>6
      <4>3. QED  BY <1>1, <1>3, <3>1, <4>1, <4>2
    <3>7. CASE k > j + 1
      BY <3>1, <3>7
    <3>8. QED  BY <3>2, <3>3, <3>4, <3>5, <3>6, <3>7
  <2>3. QED  BY <2>1, <2>2 DEF RunningSum
<1>7. code[1].shape.kind = "label"
  BY SMTT(30) DEF Tables
<1>8. QED
  <2> HIDE DEF code, sizes, offsets
  <2>1. /\ code = [k \in 1..n |-> code[k]]
        /\ sizes = [k \in 1..n |-> sizes[k]]
        /\ offsets = [k \in 1..n |-> offsets[k]]
    BY DEF code, sizes, offsets
  <2>2. Sound([code |-> code, sizes |-> sizes, offsets |-> offsets, targets |-> T])
    BY <1>1, <1>5, <1>6, <1>7, <2>1, MakeTables
  <2>3. rotate_right(t, i, j) = [code |-> code, sizes |-> sizes, offsets |-> offsets, targets |-> T]
    BY DEF Record, rotate_right, code, sizes, offsets
  <2>4. QED  BY <2>2, <2>3

\* TUnit::swap, for i < j: the two rows and those between them still fit.
LEMMA SwapTables ==
    ASSUME NEW n \in Nat \ {0}, NEW c, NEW s, NEW o, NEW T, Tables(c, s, o, T, n),
           NEW t, Record(t, c, s, o, T, n),
           NEW i \in 2..n, NEW j \in 2..n, i < j
    PROVE  Sound(SwapOrdered(t, i, j))
<1> DEFINE span == o[j] - o[i+1]
           di == span + s[j]
           dj == 0 - span - s[i]
           inner == s[j] - s[i]
           code == [k \in 1..n |-> IF k = i THEN AdjustIfRip(c[j], -dj)
                                       ELSE IF k = j THEN AdjustIfRip(c[i], -di)
                                       ELSE IF i < k /\ k < j THEN AdjustIfRip(c[k], -inner)
                                       ELSE c[k]]
           sizes == [k \in 1..n |-> IF k = i THEN s[j]
                                        ELSE IF k = j THEN s[i] ELSE s[k]]
           offsets == [k \in 1..n |-> IF k = i THEN o[j] + dj
                                          ELSE IF k = j THEN o[i] + di
                                          ELSE IF i < k /\ k < j THEN o[k] + inner
                                          ELSE o[k]]
<1>1. /\ \A k \in 1..n : s[k] \in Int /\ o[k] \in Int /\ Fits(c[k], s[k], o[k], T)
      /\ T \in SUBSET Int
  BY DEF Tables
<1>2. o[1] = 0 /\ \A k \in 2..n : o[k] = o[k-1] + s[k-1]
  BY DEF Tables, RunningSum
<1>3. /\ i+1 \in 2..n /\ i \in 1..n /\ j \in 1..n /\ i-1 \in 1..n /\ j-1 \in 1..n
      /\ o[i+1] = o[i] + s[i]
  BY <1>2
<1>4. di \in Int /\ dj \in Int /\ inner \in Int
  BY <1>1, <1>3
<1>5. ASSUME NEW k \in 1..n
      PROVE  Fits(code[k], sizes[k], offsets[k], T)
  <2> HIDE DEF di, dj, inner
  <2>1. CASE k = i
    <3>1. Fits(AdjustIfRip(c[j], -dj), s[j], o[j] + dj, T)
      BY <1>1, <1>3, <1>4, FitsAdjust
    <3>2. QED  BY <2>1, <3>1
  <2>2. CASE k = j
    <3>1. Fits(AdjustIfRip(c[i], -di), s[i], o[i] + di, T)
      BY <1>1, <1>3, <1>4, FitsAdjust
    <3>2. QED  BY <2>2, <3>1
  <2>3. CASE i < k /\ k < j
    <3>1. Fits(AdjustIfRip(c[k], -inner), s[k], o[k] + inner, T)
      BY <1>1, <1>4, FitsAdjust
    <3>2. QED  BY <2>3, <3>1
  <2>4. CASE k < i \/ k > j
    BY <1>1, <2>4
  <2>5. QED  BY <2>1, <2>2, <2>3, <2>4
<1>6. RunningSum(sizes, offsets, n)
  <2>1. offsets[1] = 0
    BY <1>2
  <2>2. ASSUME NEW k \in 2..n
        PROVE  offsets[k] = offsets[k-1] + sizes[k-1]
    <3>1. k-1 \in 1..n /\ k \in 1..n /\ o[k] = o[k-1] + s[k-1]
      BY <1>2
    <3>2. CASE k < i \/ k > j + 1
      BY <3>1, <3>2
    <3>3. CASE k = i
      <4>1. offsets[k] = o[j] + dj /\ offsets[k-1] = o[k-1] /\ sizes[k-1] = s[k-1]
        BY <3>1, <3>3
      <4>2. QED  BY <1>1, <1>3, <3>1, <3>3, <4>1
    <3>4. CASE k = i + 1 /\ k < j
      <4>1. offsets[k] = o[k] + inner /\ offsets[k-1] = o[j] + dj /\ sizes[k-1] = s[j]
        BY <3>1, <3>4
      <4>2. QED  BY <1>1, <1>3, <3>1, <3>4, <4>1
    <3>5. CASE i + 1 < k /\ k < j
      BY <1>1, <3>1, <3>5
    <3>6. CASE k = j /\ i + 1 < k
      <4>1. offsets[k] = o[i] + di /\ offsets[k-1] = o[k-1] + inner /\ sizes[k-1] = s[k-1]
        BY <3>1, <3>6
      <4>2. QED  BY <1>1, <1>3, <3>1, <3>6, <4>1
    <3>7. CASE k = j /\ k = i + 1
      <4>1. offsets[k] = o[i] + di /\ offsets[k-1] = o[j] + dj /\ sizes[k-1] = s[j]
        BY <3>1, <3>7
      <4>2. QED  BY <1>1, <1>3, <3>1, <3>7, <4>1
    <3>8. CASE k = j + 1
      <4>1. offsets[k] = o[k] /\ offsets[k-1] = o[i] + di /\ sizes[k-1] = s[i] /\ k-1 = j
        BY <3>1, <3>8
      <4>2. QED  BY <1>1, <1>3, <3>1, <4>1
    <3>9. QED  BY <3>2, <3>3, <3>4, <3>5, <3>6, <3>7, <3>8
  <2>3. QED  BY <2>1, <2>2 DEF RunningSum
<1>7. code[1].shape.kind = "label"
  BY DEF Tables
<1>8. QED
  <2> HIDE DEF code, sizes, offsets
  <2>1. /\ code = [k \in 1..n |-> code[k]]
        /\ sizes = [k \in 1..n |-> sizes[k]]
        /\ offsets = [k \in 1..n |-> offsets[k]]
    BY DEF code, sizes, offsets
  <2>2. Sound([code |-> code, sizes |-> sizes, offsets |-> offsets, targets |-> T])
    BY <1>1, <1>5, <1>6, <1>7, <2>1, MakeTables
  <2>3. SwapOrdered(t, i, j) = [code |-> code, sizes |-> sizes, offsets |-> offsets, targets |-> T]
    <3>1. CASE inner # 0
      BY <3>1 DEF Record, SwapOrdered, code, sizes, offsets
    <3>2. CASE inner = 0
      <4>1. s = [k \in 1..n |-> s[k]] /\ o = [k \in 1..n |-> o[k]]
        BY DEF Tables
      <4>2. \A k \in 1..n : s[k] = sizes[k]
        BY <1>1, <1>3, <3>2 DEF sizes
      <4>3. \A k \in 1..n : o[k] = offsets[k]
        BY <1>1, <1>3, <3>2 DEF offsets
      <4>4. s = sizes /\ o = offsets
        BY <2>1, <4>1, <4>2, <4>3
      <4>5. SwapOrdered(t, i, j) = [code |-> code, sizes |-> s, offsets |-> o, targets |-> T]
        BY <3>2 DEF Record, SwapOrdered, code
      <4>6. QED  BY <4>4, <4>5
    <3>3. QED  BY <3>1, <3>2
  <2>4. QED  BY <2>2, <2>3

\* The offsets TUnit::recompute computes are the running sum of the sizes.
LEMMA HexOffsetsSum ==
    ASSUME NEW n \in Nat \ {0}, NEW sizes \in [1..n -> Nat], NEW g \in [1..n -> Int],
           RunningSum(sizes, g, n)
    PROVE  HexOffsets(sizes) = g
<1> DEFINE F(f) == [i \in 1..n |-> IF i = 1 THEN 0 ELSE f[i-1] + sizes[i-1]]
           h == CHOOSE f : f = F(f)
<1>1. Len(sizes) = n
  BY FunctionIsSeq
<1>2. HexOffsets(sizes) = h
  BY <1>1 DEF HexOffsets
<1>3. g = F(g)
  BY DEF RunningSum
<1>4. h = F(h)
  BY <1>3
<1> HIDE DEF h
<1>5. ASSUME NEW i \in 1..n
      PROVE  h[i] = g[i]
  <2> DEFINE Differ == {k \in 1..n : h[k] # g[k]}
  <2> SUFFICES ASSUME Differ # {} PROVE FALSE
    OBVIOUS
  <2>1. PICK k \in Differ : \A m \in Differ : k <= m
    <3>1. Differ \in SUBSET Nat
      OBVIOUS
    <3> HIDE DEF Differ
    <3>2. QED  BY <3>1, LeastElement
  <2>2. k # 1
    BY <1>3, <1>4, <2>1
  <2>3. k-1 \in 1..n /\ h[k-1] = g[k-1]
    BY <2>1, <2>2
  <2>4. h[k] = h[k-1] + sizes[k-1] /\ g[k] = g[k-1] + sizes[k-1]
    BY <1>3, <1>4, <2>1, <2>2
  <2>5. QED  BY <2>1, <2>3, <2>4
<1>6. h = [i \in 1..n |-> h[i]]
  BY <1>4
<1>7. QED  BY <1>2, <1>5, <1>6

\* Every table of sizes has a running sum that starts at zero.
LEMMA RunningSumExists ==
    ASSUME NEW n \in Nat \ {0}, NEW sizes \in [1..n -> Nat]
    PROVE  \E g \in [1..n -> Int] : RunningSum(sizes, g, n)
<1> DEFINE Has(m) == \E g \in [1..m -> Int] : RunningSum(sizes, g, m)
           Without == {m \in 1..n : ~Has(m)}
<1> SUFFICES ASSUME Without # {} PROVE FALSE
  OBVIOUS
<1>1. PICK m \in Without : \A k \in Without : m <= k
  <2>1. Without \in SUBSET Nat
    OBVIOUS
  <2> HIDE DEF Without
  <2>2. QED  BY <2>1, LeastElement
<1>2. m # 1
  <2>1. [i \in 1..1 |-> 0] \in [1..1 -> Int] /\ RunningSum(sizes, [i \in 1..1 |-> 0], 1)
    BY DEF RunningSum
  <2>2. Has(1)
    BY <2>1
  <2>3. QED  BY <1>1, <2>2
<1>3. m \in 2..n /\ m-1 \in 1..n /\ Has(m-1)
  BY <1>1, <1>2
<1>4. PICK g \in [1..(m-1) -> Int] : RunningSum(sizes, g, m-1)
  BY <1>3
<1> DEFINE h == [i \in 1..m |-> IF i = m THEN g[m-1] + sizes[m-1] ELSE g[i]]
<1>5. h \in [1..m -> Int]
  BY <1>3
<1>6. RunningSum(sizes, h, m)
  <2>1. h[1] = 0
    BY <1>3, <1>4 DEF RunningSum
  <2>2. ASSUME NEW i \in 2..m
        PROVE  h[i] = h[i-1] + sizes[i-1]
    <3>1. i-1 \in 1..(m-1) /\ i-1 \in 1..m /\ i \in 1..m
      BY <1>3
    <3>2. CASE i = m
      BY <1>3, <3>1, <3>2
    <3>3. CASE i # m
      <4>1. i \in 2..(m-1)
        BY <1>3, <3>3
      <4>2. g[i] = g[i-1] + sizes[i-1]
        BY <1>4, <4>1 DEF RunningSum
      <4>3. h[i] = g[i] /\ h[i-1] = g[i-1]
        BY <3>1, <3>3, <4>1, <1>3
      <4>4. QED  BY <4>2, <4>3
    <3>4. QED  BY <3>2, <3>3
  <2>3. QED  BY <2>1, <2>2 DEF RunningSum
<1>7. QED
  <2> HIDE DEF h
  <2>1. Has(m)
    BY <1>5, <1>6
  <2>2. QED  BY <1>1, <2>1

\* The sizes TUnit::recompute computes are naturals, one per instruction.
LEMMA HexSizesType ==
    ASSUME NEW n \in Nat, NEW code \in [1..n -> Instr]
    PROVE  /\ HexSizes(code) \in [1..n -> Nat]
           /\ \A i \in 1..n : HexSizes(code)[i] = code[i].shape.size
<1>1. Len(code) = n
  BY FunctionIsSeq
<1>2. \A i \in 1..n : code[i].shape.size \in Nat
  BY ShapeAssumption DEF Instr
<1>3. QED  BY <1>1, <1>2 DEF HexSizes, hex_size

\* TUnit::recompute makes a sound TUnit of any code whose operands resolve.
LEMMA RecomputeSound ==
    ASSUME NEW n \in Nat \ {0}, NEW code \in [1..n -> Instr], NEW g \in [1..n -> Int],
           RunningSum(HexSizes(code), g, n),
           code[1].shape.kind = "label",
           \A i \in 1..n : is_rip(code[i]) =>
               RipOffset + g[i] + code[i].shape.size + code[i].disp = code[i].glob
    PROVE  /\ Sound(recompute(code))
           /\ recompute(code).code = code
           /\ recompute(code).sizes = HexSizes(code)
           /\ recompute(code).offsets = g
<1> DEFINE sizes == HexSizes(code)
           T == Dereferenced(code, sizes, g)
<1>1. Len(code) = n
  BY FunctionIsSeq
<1>2. /\ sizes \in [1..n -> Nat]
      /\ \A i \in 1..n : sizes[i] = code[i].shape.size
  BY HexSizesType
<1>3. HexOffsets(sizes) = g
  BY <1>2, HexOffsetsSum
<1>4. recompute(code) = [code |-> code, sizes |-> sizes, offsets |-> g, targets |-> T]
  BY <1>3 DEF recompute, WithOffsets
<1>5. \A i \in 1..n : code[i].shape.rip = "mem" => Resolved(code, sizes, g, i) \in T
  BY <1>1 DEF Dereferenced
<1> HIDE DEF sizes
<1>6. T \in SUBSET Int
  BY <1>1, <1>2, RipOffsetAssumption DEF Dereferenced, Resolved, Instr
<1> HIDE DEF T
<1>7. ASSUME NEW i \in 1..n
      PROVE  Fits(code[i], sizes[i], g[i], T)
  <2>1. code[i] \in Instr /\ sizes[i] \in Nat /\ g[i] \in Int /\ sizes[i] = code[i].shape.size
    BY <1>2
  <2>2. is_rip(code[i]) => RipOffset + g[i] + sizes[i] + code[i].disp = code[i].glob
    BY <2>1
  <2>3. code[i].shape.rip = "mem" => code[i].glob \in T
    BY <1>5, <2>2 DEF is_rip, Resolved
  <2>4. QED  BY <2>1, <2>2, <2>3 DEF Fits
<1>8. Tables(code, sizes, g, T, n)
  BY <1>2, <1>6, <1>7 DEF Tables, sizes
<1>9. QED
  BY <1>4, <1>8, TablesSound DEF sizes

\* The code and the offsets after the k-th instruction is replaced by new
ReplacedCode(c, s, n, k, new) ==
    [i \in 1..n |-> IF i < k THEN c[i] ELSE IF i = k THEN new
                    ELSE AdjustIfRip(c[i], -(new.shape.size - s[k]))]

ReplacedOffsets(s, o, n, k, new) ==
    [i \in 1..n |-> IF i <= k THEN o[i] ELSE o[i] + (new.shape.size - s[k])]

\* TUnit::replace: the rows before, at and behind the replaced one, before its recompute().
LEMMA ReplaceTables ==
    ASSUME NEW n \in Nat \ {0}, NEW c, NEW s, NEW o, NEW T, Tables(c, s, o, T, n),
           NEW k \in 2..n, NEW new \in Instr,
           is_rip(new) => RipOffset + o[k] + new.shape.size + new.disp = new.glob
    PROVE  /\ Sound(recompute(ReplacedCode(c, s, n, k, new)))
           /\ recompute(ReplacedCode(c, s, n, k, new)).code = ReplacedCode(c, s, n, k, new)
           /\ recompute(ReplacedCode(c, s, n, k, new)).offsets = ReplacedOffsets(s, o, n, k, new)
<1> DEFINE delta == new.shape.size - s[k]
           code  == [i \in 1..n |-> IF i < k THEN c[i] ELSE IF i = k THEN new
                                        ELSE AdjustIfRip(c[i], -delta)]
           sizes == [i \in 1..n |-> IF i = k THEN new.shape.size ELSE s[i]]
           g == [i \in 1..n |-> IF i <= k THEN o[i] ELSE o[i] + delta]
<1>1. /\ \A i \in 1..n : s[i] \in Int /\ o[i] \in Int /\ Fits(c[i], s[i], o[i], T)
      /\ new.shape.size \in Nat
      /\ delta \in Int
  <2>1. \A i \in 1..n : s[i] \in Int /\ o[i] \in Int /\ Fits(c[i], s[i], o[i], T)
    BY DEF Tables
  <2>2. new.shape.size \in Nat
    BY ShapeAssumption DEF Instr
  <2>3. QED  BY <2>1, <2>2
<1>2. ASSUME NEW i \in 1..n, i # k
      PROVE  Fits(code[i], s[i], g[i], T)
  <2> HIDE DEF delta
  <2>1. CASE i < k
    BY <1>1, <2>1
  <2>2. CASE i > k
    <3>1. Fits(AdjustIfRip(c[i], -delta), s[i], o[i] + delta, T)
      BY <1>1, FitsAdjust
    <3>2. QED  BY <2>2, <3>1
  <2>3. QED  BY <1>2, <2>1, <2>2
<1>3. code[k] = new /\ g[k] = o[k]
  OBVIOUS
<1>4. code \in [1..n -> Instr] /\ g \in [1..n -> Int]
  <2>1. \A i \in 1..n : code[i] \in Instr
    BY <1>2, <1>3 DEF Fits
  <2>2. code \in [1..n -> Instr]
    BY <2>1
  <2>3. g \in [1..n -> Int]
    BY <1>1
  <2>4. QED  BY <2>2, <2>3
<1>5. HexSizes(code) = sizes
  <2>1. /\ HexSizes(code) \in [1..n -> Nat]
        /\ \A i \in 1..n : HexSizes(code)[i] = code[i].shape.size
    BY <1>4, HexSizesType
  <2>2. \A i \in 1..n : code[i].shape.size = sizes[i]
    BY <1>2, <1>3 DEF Fits
  <2> HIDE DEF code
  <2>3. QED  BY <2>1, <2>2
<1>6. RunningSum(sizes, g, n)
  <2>1. o[1] = 0 /\ \A i \in 2..n : o[i] = o[i-1] + s[i-1]
    BY DEF Tables, RunningSum
  <2>2. g[1] = 0
    BY <2>1
  <2>3. ASSUME NEW i \in 2..n
        PROVE  g[i] = g[i-1] + sizes[i-1]
    <3>1. i-1 \in 1..n /\ i \in 1..n /\ o[i] = o[i-1] + s[i-1]
      BY <2>1
    <3>2. QED  BY <1>1, <3>1
  <2>4. QED  BY <2>2, <2>3 DEF RunningSum
<1>7. code[1].shape.kind = "label"
  BY DEF Tables
<1>8. ASSUME NEW i \in 1..n, is_rip(code[i])
      PROVE  RipOffset + g[i] + code[i].shape.size + code[i].disp = code[i].glob
  <2>1. CASE i = k
    BY <1>3, <1>8, <2>1
  <2>2. CASE i # k
    <3> HIDE DEF code, g
    <3>1. QED  BY <1>2, <1>8, <2>2 DEF Fits
  <2>3. QED  BY <2>1, <2>2
<1>9. QED
  <2> HIDE DEF code, g, sizes, delta
  <2>1. /\ Sound(recompute(code)) /\ recompute(code).code = code
        /\ recompute(code).sizes = HexSizes(code) /\ recompute(code).offsets = g
    <3>1. RunningSum(HexSizes(code), g, n)
      BY <1>5, <1>6
    <3>2. QED  BY <1>4, <1>7, <1>8, <3>1, RecomputeSound
  <2>2. code = ReplacedCode(c, s, n, k, new) /\ g = ReplacedOffsets(s, o, n, k, new)
    BY DEF code, g, delta, ReplacedCode, ReplacedOffsets
  <2>3. QED  BY <2>1, <2>2

\* The parts of a TUnit described by Record have the length of its code.
LEMMA SameLen ==
    ASSUME NEW t, Sound(t), NEW n \in Nat, DOMAIN t.code = 1..n
    PROVE  Len(t.code) = n
<1>1. t.code \in Seq(Instr)
  BY DEF Sound, TUnitType
<1>2. DOMAIN t.code = 1..Len(t.code) /\ Len(t.code) \in Nat
  BY <1>1
<1>3. 1..n = 1..Len(t.code)
  BY <1>2
<1>4. QED  BY <1>2, <1>3

\* TUnit::remove keeps a TUnit sound, and its other rows as they were.
LEMMA RemoveSound ==
    ASSUME NEW t, Sound(t), NEW k \in 2..Len(t.code)
    PROVE  Sound(remove(t, k)) /\ Len(remove(t, k).code) = Len(t.code) - 1
<1>1. Sound(remove(t, k)) /\ Len(t.code) \in Nat \ {0}
  BY SoundTables, RemoveTables
<1>2. DOMAIN remove(t, k).code = 1..(Len(t.code) - 1)
  BY DEF remove
<1>3. QED  BY <1>1, <1>2, SameLen

\* TUnit::insert keeps a TUnit sound.
LEMMA InsertSound ==
    ASSUME NEW t, Sound(t), NEW k \in 2..(Len(t.code) + 1), NEW instr,
           Fits(instr, hex_size(instr), t.offsets[k-1] + t.sizes[k-1], t.targets)
    PROVE  Sound(insert(t, k, instr, FALSE)) /\ Len(insert(t, k, instr, FALSE).code) = Len(t.code) + 1
<1>1. Sound(insert(t, k, instr, FALSE)) /\ Len(t.code) \in Nat \ {0}
  BY SoundTables, InsertTables
<1>2. DOMAIN insert(t, k, instr, FALSE).code = 1..(Len(t.code) + 1)
  BY DEF insert
<1>3. Len(t.code) + 1 \in Nat
  BY <1>1
<1>4. QED  BY <1>1, <1>2, <1>3, SameLen

\* TUnit::rotate_left keeps a TUnit sound.
LEMMA RotateLeftSound ==
    ASSUME NEW t, Sound(t), NEW i \in 2..Len(t.code), NEW j \in 2..Len(t.code), i < j
    PROVE  Sound(rotate_left(t, i, j)) /\ Len(rotate_left(t, i, j).code) = Len(t.code)
<1>1. Sound(rotate_left(t, i, j)) /\ Len(t.code) \in Nat \ {0}
  BY SoundTables, RotateLeftTables
<1>2. DOMAIN rotate_left(t, i, j).code = 1..Len(t.code)
  BY DEF rotate_left
<1>3. QED  BY <1>1, <1>2, SameLen

\* TUnit::rotate_right keeps a TUnit sound.
LEMMA RotateRightSound ==
    ASSUME NEW t, Sound(t), NEW i \in 2..Len(t.code), NEW j \in 2..Len(t.code), i < j
    PROVE  Sound(rotate_right(t, i, j)) /\ Len(rotate_right(t, i, j).code) = Len(t.code)
<1>1. Sound(rotate_right(t, i, j)) /\ Len(t.code) \in Nat \ {0}
  BY SoundTables, RotateRightTables
<1>2. DOMAIN rotate_right(t, i, j).code = 1..Len(t.code)
  BY DEF rotate_right
<1>3. QED  BY <1>1, <1>2, SameLen

\* TUnit::swap keeps a TUnit sound, for i < j.
LEMMA SwapOrderedSound ==
    ASSUME NEW t, Sound(t), NEW i \in 2..Len(t.code), NEW j \in 2..Len(t.code), i < j
    PROVE  Sound(SwapOrdered(t, i, j)) /\ Len(SwapOrdered(t, i, j).code) = Len(t.code)
<1>1. Sound(SwapOrdered(t, i, j)) /\ Len(t.code) \in Nat \ {0}
  BY SoundTables, SwapTables
<1>2. DOMAIN SwapOrdered(t, i, j).code = 1..Len(t.code)
  BY DEF SwapOrdered
<1>3. QED  BY <1>1, <1>2, SameLen

\* TUnit::swap keeps a TUnit sound, in whichever order its arguments come.
LEMMA SwapSound ==
    ASSUME NEW t, Sound(t), NEW i \in 2..Len(t.code), NEW j \in 2..Len(t.code)
    PROVE  Sound(swap(t, i, j)) /\ Len(swap(t, i, j).code) = Len(t.code)
<1>1. i = j \/ i < j \/ j < i
  BY SoundTables
<1>2. QED  BY <1>1, SwapOrderedSound DEF swap

\* TUnit::replace keeps a TUnit sound if the instruction, once adjusted, fits its place.
LEMMA ReplaceWith ==
    ASSUME NEW t, Sound(t), NEW k \in 2..Len(t.code), NEW new \in Instr,
           is_rip(new) => RipOffset + t.offsets[k] + new.shape.size + new.disp = new.glob,
           NEW r, r = recompute(ReplacedCode(t.code, t.sizes, Len(t.code), k, new))
    PROVE  Sound(r) /\ Len(r.code) = Len(t.code) /\ r.offsets[k] = t.offsets[k]
<1> DEFINE n == Len(t.code)
<1>1. /\ n \in Nat \ {0}
      /\ Tables(t.code, t.sizes, t.offsets, t.targets, n)
  BY SoundTables
<1>2. /\ Sound(r)
      /\ r.code = ReplacedCode(t.code, t.sizes, n, k, new)
      /\ r.offsets = ReplacedOffsets(t.sizes, t.offsets, n, k, new)
  BY <1>1, ReplaceTables
<1>3. Len(r.code) = n
  <2>1. DOMAIN r.code = 1..n
    BY <1>2 DEF ReplacedCode
  <2>2. QED  BY <1>1, <1>2, <2>1, SameLen
<1>4. r.offsets[k] = t.offsets[k]
  <2>1. k \in 1..n
    BY <1>1
  <2>2. QED  BY <1>2, <2>1 DEF ReplacedOffsets
<1>5. QED
  BY <1>2, <1>3, <1>4

\* replace() with own as the adjustment of the new instruction's own operand
OwnAdjusted(t, k, instr, own) ==
    recompute([i \in 1..Len(t.code) |->
                 IF i < k THEN t.code[i]
                 ELSE IF i = k THEN AdjustIfRip(instr, own)
                 ELSE AdjustIfRip(t.code[i], -(hex_size(instr) - t.sizes[k]))])

\* TUnit::replace as one recompute() of the edited code.
LEMMA ReplaceUnfolded ==
    ASSUME NEW t, NEW k, NEW instr \in Instr, NEW own \in Int
    PROVE  /\ AdjustIfRip(instr, own) \in Instr
           /\ AdjustIfRip(instr, own).shape = instr.shape
           /\ AdjustIfRip(instr, own).glob = instr.glob
           /\ is_rip(instr) => AdjustIfRip(instr, own).disp = instr.disp + own
           /\ OwnAdjusted(t, k, instr, own)
                = recompute(ReplacedCode(t.code, t.sizes, Len(t.code), k, AdjustIfRip(instr, own)))
<1> DEFINE new == AdjustIfRip(instr, own)
<1>1. /\ new \in Instr /\ new.shape = instr.shape /\ new.glob = instr.glob
      /\ is_rip(instr) => new.disp = instr.disp + own
  BY DEF AdjustIfRip, adjust_rip, Instr
<1> HIDE DEF new
<1>2. OwnAdjusted(t, k, instr, own) = recompute(ReplacedCode(t.code, t.sizes, Len(t.code), k, new))
  BY <1>1 DEF ReplacedCode, hex_size, new, OwnAdjusted
<1>3. QED
  BY <1>1, <1>2 DEF new

\* The adjustment TUnit::replace makes is an integer.
LEMMA ReplaceTypes ==
    ASSUME NEW t, Sound(t), NEW k \in 2..Len(t.code), NEW instr \in Instr
    PROVE  /\ RipOffset \in Int /\ hex_size(instr) \in Int /\ hex_size(instr) = instr.shape.size
           /\ instr.disp \in Int /\ instr.glob \in Int
           /\ t.sizes[k] \in Int /\ t.offsets[k] \in Int
<1>1. /\ Len(t.code) \in Nat \ {0}
      /\ Tables(t.code, t.sizes, t.offsets, t.targets, Len(t.code))
  BY SoundTables
<1>2. t.sizes[k] \in Int /\ t.offsets[k] \in Int
  <2>1. k \in 1..Len(t.code)
    BY <1>1
  <2>2. QED  BY <1>1, <2>1 DEF Tables
<1>3. instr.shape.size \in Int /\ instr.disp \in Int /\ instr.glob \in Int
  BY ShapeAssumption DEF Instr
<1>4. QED
  BY <1>2, <1>3, RipOffsetAssumption DEF hex_size

\* TUnit::replace with rescale_rip: an operand that holds a global address is made local.
LEMMA ReplaceRescaled ==
    ASSUME NEW t, Sound(t), NEW k \in 2..Len(t.code), NEW instr \in Instr,
           is_rip(instr) => instr.disp = instr.glob,
           NEW r, r = replace(t, k, instr, FALSE, TRUE)
    PROVE  Sound(r) /\ Len(r.code) = Len(t.code) /\ r.offsets[k] = t.offsets[k]
<1> DEFINE own == 0 - RipOffset - t.offsets[k] - hex_size(instr)
           new == AdjustIfRip(instr, own)
<1>1. /\ RipOffset \in Int /\ hex_size(instr) \in Int /\ hex_size(instr) = instr.shape.size
      /\ instr.disp \in Int /\ instr.glob \in Int
      /\ t.sizes[k] \in Int /\ t.offsets[k] \in Int
  BY ReplaceTypes
<1>2. own \in Int
  BY <1>1
<1>3. r = OwnAdjusted(t, k, instr, own)
  BY DEF replace, OwnAdjusted
<1>4. is_rip(instr) => RipOffset + t.offsets[k] + hex_size(instr) + (instr.disp + own) = instr.glob
  BY <1>1
<1> HIDE DEF own
<1>5. /\ new \in Instr /\ new.shape = instr.shape /\ new.glob = instr.glob
      /\ is_rip(instr) => new.disp = instr.disp + own
      /\ OwnAdjusted(t, k, instr, own) = recompute(ReplacedCode(t.code, t.sizes, Len(t.code), k, new))
  BY <1>2, ReplaceUnfolded, ZenonT(40)
<1> HIDE DEF new
<1>6. is_rip(new) => RipOffset + t.offsets[k] + new.shape.size + new.disp = new.glob
  BY <1>1, <1>4, <1>5 DEF is_rip
<1>7. r = recompute(ReplacedCode(t.code, t.sizes, Len(t.code), k, new))
  BY <1>3, <1>5, Zenon
<1>8. new \in Instr
  BY <1>5
<1>9. QED
  BY <1>6, <1>7, <1>8, ReplaceWith, Zenon

\* TUnit::replace with skip_first: an instruction goes back where it fitted before.
LEMMA ReplaceSkipped ==
    ASSUME NEW t, Sound(t), NEW k \in 2..Len(t.code), NEW instr \in Instr,
           is_rip(instr) => RipOffset + t.offsets[k] + hex_size(instr) + instr.disp = instr.glob,
           NEW r, r = replace(t, k, instr, TRUE, FALSE)
    PROVE  Sound(r) /\ Len(r.code) = Len(t.code) /\ r.offsets[k] = t.offsets[k]
<1> DEFINE own == 0
           new == AdjustIfRip(instr, own)
<1>1. /\ RipOffset \in Int /\ hex_size(instr) \in Int /\ hex_size(instr) = instr.shape.size
      /\ instr.disp \in Int /\ instr.glob \in Int
      /\ t.sizes[k] \in Int /\ t.offsets[k] \in Int
  BY ReplaceTypes
<1>2. own \in Int
  BY <1>1
<1>3. r = OwnAdjusted(t, k, instr, own)
  BY DEF replace, OwnAdjusted
<1>4. is_rip(instr) => RipOffset + t.offsets[k] + hex_size(instr) + (instr.disp + own) = instr.glob
  BY <1>1
<1> HIDE DEF own
<1>5. /\ new \in Instr /\ new.shape = instr.shape /\ new.glob = instr.glob
      /\ is_rip(instr) => new.disp = instr.disp + own
      /\ OwnAdjusted(t, k, instr, own) = recompute(ReplacedCode(t.code, t.sizes, Len(t.code), k, new))
  BY <1>2, ReplaceUnfolded, ZenonT(40)
<1> HIDE DEF new
<1>6. is_rip(new) => RipOffset + t.offsets[k] + new.shape.size + new.disp = new.glob
  BY <1>1, <1>4, <1>5 DEF is_rip
<1>7. r = recompute(ReplacedCode(t.code, t.sizes, Len(t.code), k, new))
  BY <1>3, <1>5, Zenon
<1>8. new \in Instr
  BY <1>5
<1>9. QED
  BY <1>6, <1>7, <1>8, ReplaceWith, Zenon

\* TUnit::replace without flags: the operand of the old instruction, in an instruction of
\* another size.
LEMMA ReplaceLocal ==
    ASSUME NEW t, Sound(t), NEW k \in 2..Len(t.code), NEW instr \in Instr,
           is_rip(instr) => RipOffset + t.offsets[k] + t.sizes[k] + instr.disp = instr.glob,
           NEW r, r = replace(t, k, instr, FALSE, FALSE)
    PROVE  Sound(r) /\ Len(r.code) = Len(t.code) /\ r.offsets[k] = t.offsets[k]
<1> DEFINE own == -(hex_size(instr) - t.sizes[k])
           new == AdjustIfRip(instr, own)
<1>1. /\ RipOffset \in Int /\ hex_size(instr) \in Int /\ hex_size(instr) = instr.shape.size
      /\ instr.disp \in Int /\ instr.glob \in Int
      /\ t.sizes[k] \in Int /\ t.offsets[k] \in Int
  BY ReplaceTypes
<1>2. own \in Int
  BY <1>1
<1>3. r = OwnAdjusted(t, k, instr, own)
  BY DEF replace, OwnAdjusted
<1>4. is_rip(instr) => RipOffset + t.offsets[k] + hex_size(instr) + (instr.disp + own) = instr.glob
  BY <1>1, SMTT(30)
<1> HIDE DEF own
<1>5. /\ new \in Instr /\ new.shape = instr.shape /\ new.glob = instr.glob
      /\ is_rip(instr) => new.disp = instr.disp + own
      /\ OwnAdjusted(t, k, instr, own) = recompute(ReplacedCode(t.code, t.sizes, Len(t.code), k, new))
  BY <1>2, ReplaceUnfolded, ZenonT(40)
<1> HIDE DEF new
<1>6. is_rip(new) => RipOffset + t.offsets[k] + new.shape.size + new.disp = new.glob
  BY <1>1, <1>4, <1>5 DEF is_rip
<1>7. r = recompute(ReplacedCode(t.code, t.sizes, Len(t.code), k, new))
  BY <1>3, <1>5, Zenon
<1>8. new \in Instr
  BY <1>5
<1>9. QED
  BY <1>6, <1>7, <1>8, ReplaceWith, Zenon

-----------------------------------------------------------------------------
(* The inductive invariant *)

\* The undo recorded in info can be applied to t: its indices are in range and the
\* instruction it puts back resolves to its address at the place it is put back to.
UndoApplies(t, info) ==
    LET i == info.undo_index[1]
        j == info.undo_index[2]
        x == info.undo_instr
        n == Len(t.code)
    IN  /\ info.move_type = "none" => info = NoMove
        /\ info.move_type = "add_nops" => i \in 2..n
        /\ info.move_type = "delete" =>
             /\ i \in 2..(n+1)
             /\ Fits(x, hex_size(x), t.offsets[i-1] + t.sizes[i-1], t.targets)
        /\ info.move_type \in {"rotate", "swap"} => i \in 2..n /\ j \in 2..n /\ i # j
        /\ info.move_type = "replace" =>
             /\ i \in 2..n
             /\ is_rip(x) => RipOffset + t.offsets[i] + hex_size(x) + x.disp = x.glob

IInv ==
    /\ Sound(fn)
    /\ prev \in TUnitType
    /\ boundaries \in SUBSET Nat
    /\ rip_pool \in SUBSET Int
    /\ ti \in TransformInfo
    /\ UndoApplies(fn, ti)

\* The NOP that AddNopsTransform inserts has no rip operand.
LEMMA NopType == Nop \in Instr /\ ~is_rip(Nop) /\ Nop.shape.rip # "mem"
  BY NopAssumption DEF Nop, Plain, Instr, is_rip

\* The TransformInfo of no move is one.
LEMMA NoMoveType == NoMove \in TransformInfo /\ NoMove.move_type = "none"
  BY NopType DEF NoMove, TransformInfo

\* With no move in flight there is nothing to undo.
LEMMA NoMoveApplies ==
    ASSUME NEW t
    PROVE  UndoApplies(t, NoMove)
  BY NoMoveType DEF UndoApplies

\* Cfg::recompute_blocks collects instruction indices.
LEMMA BoundariesType ==
    ASSUME NEW t, Sound(t)
    PROVE  Boundaries(t.code) \in SUBSET Nat
<1>1. Len(t.code) \in Nat
  BY SoundTables
<1>2. QED  BY <1>1 DEF Boundaries

\* Soundness includes type correctness.
LEMMA SoundType ==
    ASSUME NEW t, Sound(t)
    PROVE  t \in TUnitType
  BY DEF Sound

\* Any proposal keeps the invariant if the function it makes is sound and its
\* TransformInfo can undo it.
LEMMA MoveKeeps ==
    ASSUME IInv, NEW type \in Moves, NEW i \in Nat, NEW j \in Nat, NEW x \in Instr, NEW new,
           NEW b \in BOOLEAN,
           Sound(new),
           UndoApplies(new, [move_type |-> type, undo_index |-> <<i, j>>, undo_instr |-> x]),
           Move(type, i, j, x, new, b)
    PROVE  IInv'
<1>1. Sound(fn') /\ fn' = new
  BY DEF Move
<1>2. prev' \in TUnitType
  BY SoundType DEF IInv, Move
<1>3. boundaries' \in SUBSET Nat
  BY BoundariesType, Zenon DEF IInv, Move
<1>4. rip_pool' \in SUBSET Int
  BY DEF IInv, Move
<1>5. ti' \in TransformInfo
  BY DEF TransformInfo, Move
<1>6. UndoApplies(fn', ti')
  BY <1>1, Zenon DEF Move
<1>7. QED
  BY <1>1, <1>2, <1>3, <1>4, <1>5, <1>6 DEF IInv

-----------------------------------------------------------------------------
(* Every action keeps the invariant *)

\* AddNopsTransform keeps the invariant.
LEMMA AddNopsKeeps ==
    ASSUME IInv, NEW i \in Indices, AddNops(i)
    PROVE  IInv'
<1> DEFINE n == Len(fn.code)
           new == insert(fn, i, Nop, FALSE)
<1>1. Sound(fn) /\ n \in Nat \ {0} /\ i \in 2..n
      /\ Tables(fn.code, fn.sizes, fn.offsets, fn.targets, n)
  BY SoundTables DEF IInv, Indices
<1>2. Fits(Nop, hex_size(Nop), fn.offsets[i-1] + fn.sizes[i-1], fn.targets)
  <2>1. i-1 \in 1..n
    BY <1>1
  <2>2. fn.offsets[i-1] + fn.sizes[i-1] \in Int
    BY <1>1, <2>1 DEF Tables
  <2>3. hex_size(Nop) \in Nat
    BY NopType, ShapeAssumption DEF hex_size, Instr
  <2>4. QED  BY <2>2, <2>3, NopType DEF Fits, hex_size
<1>3. i \in 2..(n+1)
  BY <1>1
<1>4. Sound(new) /\ Len(new.code) = n + 1
  BY <1>1, <1>2, <1>3, InsertSound
<1> HIDE DEF new
<1>5. UndoApplies(new, [move_type |-> "add_nops", undo_index |-> <<i, 1>>, undo_instr |-> Nop])
  BY <1>3, <1>4 DEF UndoApplies
<1>6. Move("add_nops", i, 1, Nop, new, TRUE)
  BY DEF AddNops, new
<1>7. i \in Nat /\ 1 \in Nat /\ "add_nops" \in Moves
  BY <1>1 DEF Moves
<1>8. QED
  BY <1>4, <1>5, <1>6, <1>7, NopType, MoveKeeps

\* What DeleteTransform took out would fit again where it was.
LEMMA RemoveUndo ==
    ASSUME NEW t, Sound(t), NEW k \in 2..Len(t.code)
    PROVE  LET r == remove(t, k)
               x == t.code[k]
           IN  /\ x \in Instr
               /\ Fits(x, hex_size(x), r.offsets[k-1] + r.sizes[k-1], r.targets)
<1> DEFINE n == Len(t.code)
           r == remove(t, k)
           x == t.code[k]
<1>1. n \in Nat \ {0} /\ Tables(t.code, t.sizes, t.offsets, t.targets, n)
  BY SoundTables
<1>2. k \in 1..n /\ k-1 \in 1..(n-1) /\ k-1 < k
  BY <1>1
<1>3. Fits(x, t.sizes[k], t.offsets[k], t.targets)
  BY <1>1, <1>2 DEF Tables
<1>4. r.offsets[k-1] = t.offsets[k-1] /\ r.sizes[k-1] = t.sizes[k-1] /\ r.targets = t.targets
  BY <1>2 DEF remove
<1>5. t.offsets[k] = t.offsets[k-1] + t.sizes[k-1]
  BY <1>1 DEF Tables, RunningSum
<1>6. x \in Instr /\ hex_size(x) = t.sizes[k]
  BY <1>3 DEF Fits, hex_size
<1>7. QED
  BY <1>3, <1>4, <1>5, <1>6

\* DeleteTransform keeps the invariant.
LEMMA DeleteKeeps ==
    ASSUME IInv, NEW i \in Indices, Delete(i)
    PROVE  IInv'
<1> DEFINE n == Len(fn.code)
           new == remove(fn, i)
           x == fn.code[i]
<1>1. Sound(fn) /\ n \in Nat \ {0} /\ i \in 2..n
  BY SoundTables DEF IInv, Indices
<1>2. Sound(new) /\ Len(new.code) = n - 1
  BY <1>1, RemoveSound
<1>3. x \in Instr /\ Fits(x, hex_size(x), new.offsets[i-1] + new.sizes[i-1], new.targets)
  BY <1>1, RemoveUndo
<1>4. Move("delete", i, 1, x, new, TRUE)
  BY DEF Delete
<1> HIDE DEF new, x
<1>5. UndoApplies(new, [move_type |-> "delete", undo_index |-> <<i, 1>>, undo_instr |-> x])
  <2>1. i \in 2..(Len(new.code) + 1)
    BY <1>1, <1>2
  <2>2. QED  BY <1>3, <2>1 DEF UndoApplies
<1>6. i \in Nat /\ 1 \in Nat /\ "delete" \in Moves
  BY <1>1 DEF Moves
<1>7. QED
  BY <1>2, <1>3, <1>4, <1>5, <1>6, MoveKeeps

\* The moves that permute the code: the undo only needs its two indices.
\* A transform that permutes instructions keeps the invariant if the result is sound.
LEMMA PermuteKeeps ==
    ASSUME IInv, NEW i \in Indices, NEW j \in Indices, i # j,
           NEW type \in {"rotate", "swap"}, NEW new, NEW b \in BOOLEAN,
           Sound(new), Len(new.code) = Len(fn.code),
           Move(type, i, j, fn.code[i], new, b)
    PROVE  IInv'
<1> DEFINE n == Len(fn.code)
           x == fn.code[i]
<1>1. n \in Nat \ {0} /\ i \in 2..n /\ j \in 2..n
      /\ Tables(fn.code, fn.sizes, fn.offsets, fn.targets, n)
  BY SoundTables DEF IInv, Indices
<1>2. x \in Instr
  <2>1. i \in 1..n
    BY <1>1
  <2>2. QED  BY <1>1, <2>1 DEF Tables
<1> HIDE DEF x
<1>3. UndoApplies(new, [move_type |-> type, undo_index |-> <<i, j>>, undo_instr |-> x])
  BY <1>1 DEF UndoApplies
<1>4. i \in Nat /\ j \in Nat /\ type \in Moves
  BY <1>1 DEF Moves
<1>5. Move(type, i, j, x, new, b)
  BY DEF x
<1>6. QED
  BY <1>2, <1>3, <1>4, <1>5, MoveKeeps

\* RotateTransform keeps the invariant.
LEMMA RotateKeeps ==
    ASSUME IInv, NEW i \in Indices, NEW j \in Indices, Rotate(i, j)
    PROVE  IInv'
<1> DEFINE new == IF i < j THEN rotate_left(fn, i, j) ELSE rotate_right(fn, j, i)
<1>1. Sound(fn) /\ Len(fn.code) \in Nat \ {0} /\ i \in 2..Len(fn.code) /\ j \in 2..Len(fn.code)
      /\ i # j
  BY SoundTables DEF IInv, Indices, Rotate
<1>2. Sound(new) /\ Len(new.code) = Len(fn.code)
  <2>1. CASE i < j
    BY <1>1, <2>1, RotateLeftSound
  <2>2. CASE ~(i < j)
    <3>1. j < i
      BY <1>1, <2>2
    <3>2. QED  BY <1>1, <2>2, <3>1, RotateRightSound
  <2>3. QED  BY <2>1, <2>2
<1>3. Move("rotate", i, j, fn.code[i], new, TRUE)
  BY DEF Rotate
<1> HIDE DEF new
<1>4. QED
  BY <1>1, <1>2, <1>3, PermuteKeeps

\* GlobalSwapTransform and LocalSwapTransform keep the invariant.
LEMMA SwapKeeps ==
    ASSUME IInv, NEW i \in Indices, NEW j \in Indices, GlobalSwap(i, j) \/ LocalSwap(i, j)
    PROVE  IInv'
<1>1. Sound(fn) /\ i \in 2..Len(fn.code) /\ j \in 2..Len(fn.code)
  BY DEF IInv, Indices
<1>2. i # j /\ Move("swap", i, j, fn.code[i], swap(fn, i, j), FALSE)
  BY DEF GlobalSwap, LocalSwap
<1>3. Sound(swap(fn, i, j)) /\ Len(swap(fn, i, j).code) = Len(fn.code)
  BY <1>1, SwapSound
<1>4. QED
  BY <1>2, <1>3, PermuteKeeps

\* What a sound function says of its i-th instruction
\* Every instruction of a sound TUnit fits its place.
LEMMA InstrFits ==
    ASSUME NEW t, Sound(t), NEW i \in 2..Len(t.code)
    PROVE  /\ t.code[i] \in Instr
           /\ t.sizes[i] = hex_size(t.code[i])
           /\ is_rip(t.code[i]) =>
                RipOffset + t.offsets[i] + t.sizes[i] + t.code[i].disp = t.code[i].glob
<1>1. /\ Len(t.code) \in Nat \ {0}
      /\ Tables(t.code, t.sizes, t.offsets, t.targets, Len(t.code))
  BY SoundTables
<1>2. i \in 1..Len(t.code)
  BY <1>1
<1>3. Fits(t.code[i], t.sizes[i], t.offsets[i], t.targets)
  BY <1>1, <1>2 DEF Tables
<1>4. QED
  BY <1>3 DEF Fits, hex_size

\* A transform that replaces one instruction keeps the invariant if the result is sound.
LEMMA ReplaceKeeps ==
    ASSUME IInv, NEW i \in Indices, NEW new,
           Sound(new), Len(new.code) = Len(fn.code), new.offsets[i] = fn.offsets[i],
           Move("replace", i, 0, fn.code[i], new, FALSE)
    PROVE  IInv'
<1> DEFINE x == fn.code[i]
<1>1. Sound(fn) /\ i \in 2..Len(fn.code) /\ Len(fn.code) \in Nat
  BY SoundTables DEF IInv, Indices
<1>2. /\ x \in Instr
      /\ is_rip(x) => RipOffset + new.offsets[i] + hex_size(x) + x.disp = x.glob
  BY <1>1, InstrFits
<1>3. Move("replace", i, 0, x, new, FALSE)
  OBVIOUS
<1> HIDE DEF x
<1>4. UndoApplies(new, [move_type |-> "replace", undo_index |-> <<i, 0>>, undo_instr |-> x])
  BY <1>1, <1>2 DEF UndoApplies
<1>5. i \in Nat /\ 0 \in Nat /\ "replace" \in Moves
  BY <1>1 DEF Moves
<1>6. QED
  BY <1>2, <1>3, <1>4, <1>5, MoveKeeps

\* OpcodeTransform, and OperandTransform for any but the memory operand, keep the invariant.
LEMMA ReshapeKeeps ==
    ASSUME IInv, NEW i \in Indices, NEW s \in Shape,
           (s.rip = "none") <=> (fn.code[i].shape.rip = "none"),
           Move("replace", i, 0, fn.code[i],
                replace(fn, i, [fn.code[i] EXCEPT !.shape = s], FALSE, FALSE), FALSE)
    PROVE  IInv'
<1> DEFINE x == fn.code[i]
           y == [x EXCEPT !.shape = s]
           new == replace(fn, i, y, FALSE, FALSE)
<1>1. Sound(fn) /\ i \in 2..Len(fn.code)
  BY DEF IInv, Indices
<1>2. /\ x \in Instr
      /\ is_rip(x) => RipOffset + fn.offsets[i] + fn.sizes[i] + x.disp = x.glob
  BY <1>1, InstrFits
<1>3. (s.rip = "none") <=> (x.shape.rip = "none")
  OBVIOUS
<1>4. Move("replace", i, 0, fn.code[i], new, FALSE)
  OBVIOUS
<1> HIDE DEF x
<1>5. y \in Instr /\ y.shape = s /\ y.disp = x.disp /\ y.glob = x.glob
  BY <1>2 DEF Instr
<1> HIDE DEF y
<1>6. is_rip(y) => RipOffset + fn.offsets[i] + fn.sizes[i] + y.disp = y.glob
  BY <1>2, <1>3, <1>5 DEF is_rip
<1>7. Sound(new) /\ Len(new.code) = Len(fn.code) /\ new.offsets[i] = fn.offsets[i]
  BY <1>1, <1>5, <1>6, ReplaceLocal
<1> HIDE DEF new
<1>8. QED
  BY <1>4, <1>7, ReplaceKeeps

\* An instruction from the pools carries the global address in its displacement.
LEMMA PooledType ==
    ASSUME IInv, NEW instr \in Pooled
    PROVE  instr \in Instr /\ (is_rip(instr) => instr.disp = instr.glob)
  BY DEF IInv, Pooled, Plain, Instr, is_rip

\* OperandTransform for a memory operand, OpcodeWidthTransform and InstructionTransform keep
\* the invariant.
LEMMA PooledKeeps ==
    ASSUME IInv, NEW i \in Indices, NEW instr \in Pooled,
           OperandMoveMem(i, instr) \/ OpcodeWidthMove(i, instr) \/ InstructionMove(i, instr)
    PROVE  IInv'
<1>1. Sound(fn) /\ i \in 2..Len(fn.code)
  BY DEF IInv, Indices
<1>2. instr \in Instr /\ (is_rip(instr) => instr.disp = instr.glob)
  BY PooledType
<1>3. CASE Move("replace", i, 0, fn.code[i], replace(fn, i, instr, FALSE, TRUE), FALSE)
  <2> DEFINE new == replace(fn, i, instr, FALSE, TRUE)
  <2>1. Sound(new) /\ Len(new.code) = Len(fn.code) /\ new.offsets[i] = fn.offsets[i]
    BY <1>1, <1>2, ReplaceRescaled
  <2> HIDE DEF new
  <2>2. QED  BY <1>3, <2>1, ReplaceKeeps DEF new
<1>4. CASE ~is_rip(instr)
           /\ Move("replace", i, 0, fn.code[i], replace(fn, i, instr, FALSE, FALSE), FALSE)
  <2> DEFINE new == replace(fn, i, instr, FALSE, FALSE)
  <2>1. Sound(new) /\ Len(new.code) = Len(fn.code) /\ new.offsets[i] = fn.offsets[i]
    BY <1>1, <1>2, <1>4, ReplaceLocal
  <2> HIDE DEF new
  <2>2. QED  BY <1>4, <2>1, ReplaceKeeps DEF new
<1>5. CASE InstructionMove(i, instr) \/ OpcodeWidthMove(i, instr)
  BY <1>3, <1>5 DEF InstructionMove, OpcodeWidthMove
<1>6. CASE OperandMoveMem(i, instr)
  <2>1. Move("replace", i, 0, fn.code[i], replace(fn, i, instr, FALSE, is_rip(instr)), FALSE)
    BY <1>6 DEF OperandMoveMem
  <2>2. CASE is_rip(instr)
    <3>1. is_rip(instr) = TRUE
      BY <2>2 DEF is_rip
    <3>2. QED  BY <1>3, <2>1, <3>1
  <2>3. CASE ~is_rip(instr)
    <3>1. is_rip(instr) = FALSE
      BY <2>3 DEF is_rip
    <3>2. QED  BY <1>4, <2>1, <2>3, <3>1
  <2>4. QED  BY <2>2, <2>3
<1>7. QED
  BY <1>5, <1>6

\* undo(), whichever transform's it is, leaves a sound function.
LEMMA UndoneSound ==
    ASSUME NEW t, NEW info \in TransformInfo, Sound(t), UndoApplies(t, info), info # NoMove
    PROVE  Sound(Undone(t, info))
<1> DEFINE i == info.undo_index[1]
           j == info.undo_index[2]
           x == info.undo_instr
<1>1. Sound(t) /\ info \in TransformInfo /\ UndoApplies(t, info) /\ Len(t.code) \in Nat
  BY SoundTables
<1>2. info.move_type \in Moves
  BY <1>1 DEF TransformInfo, UndoApplies
<1>3. CASE info.move_type = "add_nops"
  <2>1. i \in 2..Len(t.code)
    BY <1>1, <1>3 DEF UndoApplies
  <2>2. Undone(t, info) = remove(t, i)
    BY <1>3 DEF Undone
  <2>3. QED  BY <1>1, <2>1, <2>2, RemoveSound
<1>4. CASE info.move_type = "delete"
  <2>1. /\ i \in 2..(Len(t.code) + 1)
        /\ Fits(x, hex_size(x), t.offsets[i-1] + t.sizes[i-1], t.targets)
    BY <1>1, <1>4 DEF UndoApplies
  <2>2. Undone(t, info) = insert(t, i, x, FALSE)
    BY <1>4 DEF Undone
  <2>3. QED  BY <1>1, <2>1, <2>2, InsertSound
<1>5. CASE info.move_type = "rotate"
  <2>1. i \in 2..Len(t.code) /\ j \in 2..Len(t.code) /\ i # j
    BY <1>1, <1>5 DEF UndoApplies
  <2>2. Undone(t, info) = IF i < j THEN rotate_right(t, i, j) ELSE rotate_left(t, j, i)
    BY <1>5 DEF Undone
  <2>3. CASE i < j
    BY <1>1, <2>1, <2>2, <2>3, RotateRightSound
  <2>4. CASE ~(i < j)
    <3>1. j < i
      BY <2>1, <2>4
    <3>2. QED  BY <1>1, <2>1, <2>2, <2>4, <3>1, RotateLeftSound
  <2>5. QED  BY <2>3, <2>4
<1>6. CASE info.move_type = "swap"
  <2>1. i \in 2..Len(t.code) /\ j \in 2..Len(t.code)
    BY <1>1, <1>6 DEF UndoApplies
  <2>2. Undone(t, info) = swap(t, i, j)
    BY <1>6 DEF Undone
  <2>3. QED  BY <1>1, <2>1, <2>2, SwapSound
<1>7. CASE info.move_type = "replace"
  <2>1. /\ i \in 2..Len(t.code)
        /\ is_rip(x) => RipOffset + t.offsets[i] + hex_size(x) + x.disp = x.glob
    BY <1>1, <1>7 DEF UndoApplies
  <2>2. Undone(t, info) = replace(t, i, x, TRUE, FALSE)
    BY <1>7 DEF Undone
  <2>3. x \in Instr
    BY <1>1 DEF TransformInfo
  <2>4. QED  BY <1>1, <2>1, <2>2, <2>3, ReplaceSkipped
<1>8. QED
  BY <1>2, <1>3, <1>4, <1>5, <1>6, <1>7 DEF Moves

\* Undoing a proposal keeps the invariant.
LEMMA UndoKeeps ==
    ASSUME IInv, Undo
    PROVE  IInv'
<1>1. Sound(fn')
  BY UndoneSound DEF IInv, Undo
<1>2. prev' \in TUnitType
  BY <1>1, SoundType DEF Undo
<1>3. boundaries' \in SUBSET Nat
  BY <1>1, BoundariesType, Zenon DEF IInv, Undo
<1>4. rip_pool' \in SUBSET Int
  BY DEF IInv, Undo
<1>5. ti' \in TransformInfo /\ UndoApplies(fn', ti')
  BY NoMoveType, NoMoveApplies DEF Undo
<1>6. QED
  BY <1>1, <1>2, <1>3, <1>4, <1>5 DEF IInv

\* Keeping a proposal keeps the invariant.
LEMMA KeepKeeps ==
    ASSUME IInv, Keep
    PROVE  IInv'
<1>1. Sound(fn')
  BY DEF IInv, Keep
<1>2. prev' \in TUnitType
  BY SoundType DEF IInv, Keep
<1>3. boundaries' \in SUBSET Nat /\ rip_pool' \in SUBSET Int
  BY DEF IInv, Keep
<1>4. ti' \in TransformInfo /\ UndoApplies(fn', ti')
  BY NoMoveType, NoMoveApplies DEF Keep
<1>5. QED
  BY <1>1, <1>2, <1>3, <1>4 DEF IInv

-----------------------------------------------------------------------------
(* The initial states *)

\* The target's instructions are instructions.
LEMMA TargetInstrsType ==
    ASSUME NEW x \in TargetInstrs
    PROVE  x \in Instr /\ x.disp = 0
  BY GlobalsAssumption DEF TargetInstrs, Plain, Instr

\* The target, read and localised, is sound.
LEMMA LocalSound ==
    ASSUME NEW n \in Nat \ {0}, NEW c \in [1..n -> TargetInstrs], c[1].shape.kind = "label"
    PROVE  Sound(Local(c))
<1>1. /\ \A i \in 1..n : c[i] \in Instr /\ c[i].disp = 0
      /\ c \in [1..n -> Instr]
      /\ Len(c) = n
  BY TargetInstrsType, FunctionIsSeq
<1>2. /\ HexSizes(c) \in [1..n -> Nat]
      /\ \A i \in 1..n : HexSizes(c)[i] = c[i].shape.size
  BY <1>1, HexSizesType
<1>3. PICK g \in [1..n -> Int] : RunningSum(HexSizes(c), g, n)
  BY <1>2, RunningSumExists
<1>4. recompute(c).offsets = g /\ recompute(c).sizes = HexSizes(c)
  BY <1>2, <1>3, HexOffsetsSum DEF recompute, WithOffsets
<1> DEFINE d == [i \in 1..n |-> c[i].glob - RipOffset - g[i] - HexSizes(c)[i]]
           e == [i \in 1..n |-> AdjustIfRip(c[i], d[i])]
<1>5. Local(c) = recompute(e)
  <2>1. e = [i \in 1..Len(c) |-> AdjustIfRip(c[i],
                c[i].glob - RipOffset - recompute(c).offsets[i] - recompute(c).sizes[i])]
    BY <1>1, <1>4
  <2>2. QED  BY <2>1 DEF Local
<1>6. ASSUME NEW i \in 1..n
      PROVE  /\ d[i] \in Int /\ c[i].glob \in Int
             /\ d[i] = c[i].glob - RipOffset - g[i] - c[i].shape.size
             /\ c[i].shape.size \in Int
  BY <1>1, <1>2, RipOffsetAssumption, SMTT(30) DEF Instr
<1>7. ASSUME NEW i \in 1..n
      PROVE  /\ e[i] \in Instr /\ e[i].shape = c[i].shape
             /\ is_rip(c[i]) => e[i].disp = d[i] /\ e[i].glob = c[i].glob
  <2> HIDE DEF d
  <2>1. e[i] = AdjustIfRip(c[i], d[i])
    OBVIOUS
  <2> HIDE DEF e
  <2>2. /\ AdjustIfRip(c[i], d[i]) \in Instr /\ AdjustIfRip(c[i], d[i]).shape = c[i].shape
        /\ AdjustIfRip(c[i], d[i]).glob = c[i].glob
        /\ is_rip(c[i]) => AdjustIfRip(c[i], d[i]).disp = c[i].disp + d[i]
    BY <1>1, <1>6, ReplaceUnfolded, Zenon
  <2>3. c[i].disp + d[i] = d[i]
    BY <1>1, <1>6
  <2>4. QED  BY <2>1, <2>2, <2>3
<1>8. e = [i \in 1..n |-> e[i]] /\ e \in [1..n -> Instr]
  BY <1>7
<1> HIDE DEF d, e
<1>9. HexSizes(e) = HexSizes(c)
  <2>1. /\ HexSizes(e) \in [1..n -> Nat]
        /\ \A i \in 1..n : HexSizes(e)[i] = e[i].shape.size
    BY <1>8, HexSizesType
  <2>2. \A i \in 1..n : HexSizes(e)[i] = HexSizes(c)[i]
    BY <1>2, <1>7, <2>1
  <2>3. HexSizes(e) = [i \in 1..n |-> HexSizes(e)[i]] /\ HexSizes(c) = [i \in 1..n |-> HexSizes(c)[i]]
    BY <1>2, <2>1
  <2>4. QED  BY <2>2, <2>3
<1>10. ASSUME NEW i \in 1..n, is_rip(e[i])
       PROVE  RipOffset + g[i] + e[i].shape.size + e[i].disp = e[i].glob
  <2>1. is_rip(c[i])
    BY <1>7, <1>10 DEF is_rip
  <2>2. e[i].disp = d[i] /\ e[i].glob = c[i].glob /\ e[i].shape = c[i].shape
    BY <1>7, <2>1
  <2>3. RipOffset \in Int /\ g[i] \in Int
    BY RipOffsetAssumption
  <2>4. QED  BY <1>6, <2>2, <2>3
<1>11. e[1].shape.kind = "label"
  BY <1>7
<1>12. RunningSum(HexSizes(e), g, n)
  BY <1>3, <1>9
<1>13. QED
  BY <1>5, <1>8, <1>10, <1>11, <1>12, RecomputeSound

\* The search starts in the invariant.
LEMMA InitSound ==
    ASSUME Init
    PROVE  IInv
<1>1. Sound(fn)
  <2>1. PICK n \in InitLens : \E c \in [1..n -> TargetInstrs] : fn = Local(c) /\ c[1] \in LabelInstrs
    BY DEF Init, Targets
  <2>2. PICK c \in [1..n -> TargetInstrs] : fn = Local(c) /\ c[1] \in LabelInstrs
    BY <2>1
  <2>3. n \in Nat \ {0}
    BY LengthAssumption
  <2>4. c[1].shape.kind = "label"
    BY <2>2 DEF LabelInstrs, Plain
  <2>5. QED  BY <2>2, <2>3, <2>4, LocalSound
<1>2. prev \in TUnitType /\ rip_pool \in SUBSET Int
  BY <1>1, SoundType DEF Init, TUnitType
<1>3. boundaries \in SUBSET Nat
  BY <1>1, BoundariesType DEF Init
<1>4. ti \in TransformInfo /\ UndoApplies(fn, ti)
  BY NoMoveType, NoMoveApplies DEF Init
<1>5. QED
  BY <1>1, <1>2, <1>3, <1>4 DEF IInv

\* Every proposal, Keep and Undo preserves the invariant.
LEMMA NextSound ==
    ASSUME IInv, [Next]_vars
    PROVE  IInv'
<1>1. CASE Propose
  <2>1. ASSUME NEW i \in Indices, NEW s \in Shape, OpcodeMove(i, s)
        PROVE  IInv'
    BY <2>1, ReshapeKeeps DEF OpcodeMove
  <2>2. ASSUME NEW i \in Indices, NEW s \in Shape, OperandMoveOther(i, s)
        PROVE  IInv'
    <3>1. (s.rip = "none") <=> (fn.code[i].shape.rip = "none")
      BY <2>2 DEF OperandMoveOther
    <3>2. QED  BY <2>2, <3>1, ReshapeKeeps DEF OperandMoveOther
  <2>3. ASSUME NEW i \in Indices, AddNops(i) \/ Delete(i)
        PROVE  IInv'
    BY <2>3, AddNopsKeeps, DeleteKeeps
  <2>4. ASSUME NEW i \in Indices, NEW j \in Indices,
               Rotate(i, j) \/ GlobalSwap(i, j) \/ LocalSwap(i, j)
        PROVE  IInv'
    BY <2>4, RotateKeeps, SwapKeeps
  <2>5. ASSUME NEW i \in Indices, NEW instr \in Pooled,
               OperandMoveMem(i, instr) \/ OpcodeWidthMove(i, instr) \/ InstructionMove(i, instr)
        PROVE  IInv'
    BY <2>5, PooledKeeps
  <2>6. QED  BY <1>1, <2>1, <2>2, <2>3, <2>4, <2>5 DEF Propose
<1>2. CASE Keep
  BY <1>2, KeepKeeps
<1>3. CASE Undo
  BY <1>3, UndoKeeps
<1>4. CASE Fail \/ UNCHANGED vars
  BY <1>4 DEF Fail, vars, IInv
<1>5. QED
  BY <1>1, <1>2, <1>3, <1>4 DEF Next

\* The inductive invariant: the function is sound, and the TransformInfo of the move in
\* flight says how to get back to a sound one.  Soundness alone is not inductive: undoing a
\* delete or a replace needs to know that the instruction it puts back fits.
THEOREM Invariance == Spec => []IInv
<1>1. Init => IInv
  BY InitSound
<1>2. IInv /\ [Next]_vars => IInv'
  BY NextSound
<1>3. QED
  BY <1>1, <1>2, PTL DEF Spec

\* The function, the block boundaries, the pools and the TransformInfo have their types in
\* every reachable state, for every instruction set, address and length.
THEOREM TypeCorrect == Spec => []TypeOK
<1>1. IInv => TypeOK
  BY SoundType DEF IInv, TypeOK
<1>2. QED
  BY <1>1, Invariance, PTL

\* Transforms and their undo never leave stale hex sizes, hex offsets or rip targets: the
\* TUnit's check_invariants(), which the transforms assert in debug builds, always holds.
THEOREM MetaDataStaysCurrent == Spec => []MetaDataCurrent
<1>1. IInv => MetaDataCurrent
  BY DEF IInv, Sound, MetaDataCurrent
<1>2. QED
  BY <1>1, Invariance, PTL

\* No sequence of proposals, acceptances and undos redirects a rip-relative operand: it
\* resolves to the address it was written for, for every code and every instruction size.
THEOREM RipTargetsStay == Spec => []RipTargetsKept
<1>1. IInv => RipTargetsKept
  BY DEF IInv, Sound, RipTargetsKept
<1>2. QED
  BY <1>1, Invariance, PTL
-----------------------------------------------------------------------------
(* Undo.  No displacement is followed through an edit and its undo: the tables of a sound *)
(* TUnit determine the displacements of its rip operands, so that it is enough that undo  *)
(* puts every instruction back in its place, whatever its displacement.                   *)

\* The same instruction, but for the displacement of a rip operand
Same(x, y) ==
    /\ x.shape = y.shape
    /\ x.glob = y.glob
    /\ ~is_rip(y) => x.disp = y.disp

\* Adjusting a rip operand changes its displacement only.
LEMMA SameAdjust ==
    ASSUME NEW x \in Instr, NEW d
    PROVE  Same(AdjustIfRip(x, d), x)
  BY DEF Same, AdjustIfRip, adjust_rip, is_rip, Instr

\* Every instruction is the same as itself.
LEMMA SameSelf ==
    ASSUME NEW x
    PROVE  Same(x, x)
  BY DEF Same

\* Being the same but for displacements is transitive.
LEMMA SameTrans ==
    ASSUME NEW x, NEW y, NEW z, Same(x, y), Same(y, z)
    PROVE  Same(x, z)
  BY DEF Same, is_rip

\* Functions on the same indices are equal when their values are.
LEMMA Extensional ==
    ASSUME NEW n, NEW S, NEW f \in [1..n -> S], NEW g \in [1..n -> S],
           \A m \in 1..n : f[m] = g[m]
    PROVE  f = g
<1>1. f = [m \in 1..n |-> f[m]] /\ g = [m \in 1..n |-> g[m]]
  OBVIOUS
<1>2. [m \in 1..n |-> f[m]] = [m \in 1..n |-> g[m]]
  BY Zenon
<1>3. QED  BY <1>1, <1>2, Zenon

\* Two code sequences with sound tables and the same instructions are equal, displacements
\* and tables included.
LEMMA TablesUnique ==
    ASSUME NEW n \in Nat \ {0},
           NEW c, NEW s, NEW o, NEW g, NEW c2, NEW s2, NEW o2, NEW g2,
           Tables(c, s, o, g, n), Tables(c2, s2, o2, g2, n),
           \A m \in 1..n : Same(c2[m], c[m])
    PROVE  c2 = c /\ s2 = s /\ o2 = o
<1>1. /\ c \in [1..n -> Instr] /\ s \in [1..n -> Nat] /\ o \in [1..n -> Int]
      /\ c2 \in [1..n -> Instr] /\ s2 \in [1..n -> Nat] /\ o2 \in [1..n -> Int]
  BY DEF Tables
<1>2. \A m \in 1..n : Fits(c[m], s[m], o[m], g) /\ Fits(c2[m], s2[m], o2[m], g2)
  BY DEF Tables
<1>3. \A m \in 1..n : s2[m] = s[m]
  BY <1>2 DEF Fits, Same
<1>4. s2 = s
  BY <1>1, <1>3, Extensional
<1>5. o2 = o
  <2>1. RunningSum(s, o, n) /\ RunningSum(s2, o2, n)
    BY DEF Tables
  <2>2. HexOffsets(s) = o
    BY <1>1, <2>1, HexOffsetsSum
  <2>3. HexOffsets(s2) = o2
    BY <1>1, <2>1, HexOffsetsSum
  <2>4. QED  BY <1>4, <2>2, <2>3
<1>6. \A m \in 1..n : c2[m] = c[m]
  <2> TAKE m \in 1..n
  <2> DEFINE x == c[m]
             y == c2[m]
             off == o[m]
             size == s[m]
  <2>1. x \in Instr /\ y \in Instr /\ off \in Int /\ size \in Int /\ RipOffset \in Int
    BY <1>1, RipOffsetAssumption
  <2>2. y.shape = x.shape /\ y.glob = x.glob /\ (~is_rip(x) => y.disp = x.disp)
    BY DEF Same
  <2>3. /\ is_rip(x) => RipOffset + off + size + x.disp = x.glob
        /\ is_rip(y) => RipOffset + off + size + y.disp = y.glob
    BY <1>2, <1>4, <1>5 DEF Fits
  <2> HIDE DEF x, y, off, size
  <2>4. x.disp \in Int /\ y.disp \in Int /\ x.glob \in Int
    BY <2>1 DEF Instr
  <2>5. y.disp = x.disp
    BY <2>1, <2>2, <2>3, <2>4 DEF is_rip
  <2>6. x = y
    BY <2>1, <2>2, <2>5 DEF Instr
  <2>7. QED  BY <2>6 DEF x, y
<1>7. c2 = c
  BY <1>1, <1>6, Extensional
<1>8. QED  BY <1>4, <1>5, <1>7

\* Two sound TUnits with the same instructions are equal.
LEMMA SoundUnique ==
    ASSUME NEW t, NEW u, Sound(t), Sound(u), Len(u.code) = Len(t.code),
           \A m \in 1..Len(t.code) : Same(u.code[m], t.code[m])
    PROVE  u.code = t.code /\ u.sizes = t.sizes /\ u.offsets = t.offsets
<1>1. /\ Len(t.code) \in Nat \ {0}
      /\ Tables(t.code, t.sizes, t.offsets, t.targets, Len(t.code))
      /\ Tables(u.code, u.sizes, u.offsets, u.targets, Len(t.code))
  BY SoundTables
<1>2. QED  BY <1>1, TablesUnique

\* What a sound TUnit's code is, as a function
LEMMA SoundCode ==
    ASSUME NEW t, Sound(t)
    PROVE  /\ Len(t.code) \in Nat \ {0}
           /\ t.code \in [1..Len(t.code) -> Instr]
  BY SoundTables DEF Tables

\* Where each edit puts the instructions
LEMMA RemoveMoves ==
    ASSUME NEW t, Sound(t), NEW k \in 2..Len(t.code), NEW m \in 1..(Len(t.code) - 1)
    PROVE  Same(remove(t, k).code[m], t.code[IF m < k THEN m ELSE m + 1])
<1>1. Len(t.code) \in Nat \ {0} /\ t.code \in [1..Len(t.code) -> Instr]
  BY SoundCode
<1>2. m + 1 \in 1..Len(t.code)
  BY <1>1
<1>3. PICK d : remove(t, k).code[m] = IF m < k THEN t.code[m] ELSE AdjustIfRip(t.code[m+1], d)
  BY DEF remove
<1>4. QED  BY <1>1, <1>2, <1>3, SameAdjust, SameSelf

\* TUnit::insert makes room.
LEMMA InsertMoves ==
    ASSUME NEW t, Sound(t), NEW k \in 2..(Len(t.code) + 1), NEW x, NEW m \in 1..(Len(t.code) + 1)
    PROVE  Same(insert(t, k, x, FALSE).code[m],
                IF m < k THEN t.code[m] ELSE IF m = k THEN x ELSE t.code[m-1])
<1>1. Len(t.code) \in Nat \ {0} /\ t.code \in [1..Len(t.code) -> Instr]
  BY SoundCode
<1>2. PICK d : insert(t, k, x, FALSE).code[m] =
                 IF m < k THEN t.code[m] ELSE IF m = k THEN x ELSE AdjustIfRip(t.code[m-1], d)
  BY DEF insert
<1>3. CASE m < k
  BY <1>2, <1>3, SameSelf
<1>4. CASE m = k
  BY <1>1, <1>2, <1>4, SameSelf
<1>5. CASE m > k
  <2>1. m - 1 \in 1..Len(t.code) /\ ~(m < k) /\ m # k
    BY <1>1, <1>5
  <2>2. t.code[m-1] \in Instr
    BY <1>1, <2>1
  <2>3. QED  BY <1>2, <2>1, <2>2, SameAdjust
<1>6. m < k \/ m = k \/ m > k
  BY <1>1
<1>7. QED  BY <1>3, <1>4, <1>5, <1>6, Zenon

\* TUnit::rotate_left moves one instruction down and those it passes up.
LEMMA RotateLeftMoves ==
    ASSUME NEW t, Sound(t), NEW i \in 2..Len(t.code), NEW j \in 2..Len(t.code), i < j,
           NEW m \in 1..Len(t.code)
    PROVE  Same(rotate_left(t, i, j).code[m],
                t.code[IF i <= m /\ m < j THEN m + 1 ELSE IF m = j THEN i ELSE m])
<1>1. Len(t.code) \in Nat \ {0} /\ t.code \in [1..Len(t.code) -> Instr]
  BY SoundCode
<1>2. PICK d, e : rotate_left(t, i, j).code[m] =
                    IF i <= m /\ m < j THEN AdjustIfRip(t.code[m+1], d)
                    ELSE IF m = j THEN AdjustIfRip(t.code[i], e) ELSE t.code[m]
  BY DEF rotate_left
<1>3. m < j => m + 1 \in 1..Len(t.code)
  BY <1>1
<1>4. i \in 1..Len(t.code)
  BY <1>1
<1>5. QED  BY <1>1, <1>2, <1>3, <1>4, SameAdjust, SameSelf

\* TUnit::rotate_right moves one instruction up and those it passes down.
LEMMA RotateRightMoves ==
    ASSUME NEW t, Sound(t), NEW i \in 2..Len(t.code), NEW j \in 2..Len(t.code), i < j,
           NEW m \in 1..Len(t.code)
    PROVE  Same(rotate_right(t, i, j).code[m],
                t.code[IF i < m /\ m <= j THEN m - 1 ELSE IF m = i THEN j ELSE m])
<1>1. Len(t.code) \in Nat \ {0} /\ t.code \in [1..Len(t.code) -> Instr]
  BY SoundCode
<1>2. PICK d, e : rotate_right(t, i, j).code[m] =
                    IF i < m /\ m <= j THEN AdjustIfRip(t.code[m-1], d)
                    ELSE IF m = i THEN AdjustIfRip(t.code[j], e) ELSE t.code[m]
  BY DEF rotate_right
<1>3. i < m => m - 1 \in 1..Len(t.code)
  BY <1>1
<1>4. j \in 1..Len(t.code)
  BY <1>1
<1>5. QED  BY <1>1, <1>2, <1>3, <1>4, SameAdjust, SameSelf

\* TUnit::swap exchanges two instructions.
LEMMA SwapMoves ==
    ASSUME NEW t, Sound(t), NEW i \in 2..Len(t.code), NEW j \in 2..Len(t.code), i # j,
           NEW m \in 1..Len(t.code)
    PROVE  Same(swap(t, i, j).code[m],
                t.code[IF m = i THEN j ELSE IF m = j THEN i ELSE m])
<1>1. Len(t.code) \in Nat \ {0} /\ t.code \in [1..Len(t.code) -> Instr]
  BY SoundCode
<1>2. ASSUME NEW a \in 2..Len(t.code), NEW b \in 2..Len(t.code), a < b
      PROVE  Same(SwapOrdered(t, a, b).code[m],
                  t.code[IF m = a THEN b ELSE IF m = b THEN a ELSE m])
  <2>1. PICK d, e, f : SwapOrdered(t, a, b).code[m] =
                         IF m = a THEN AdjustIfRip(t.code[b], d)
                         ELSE IF m = b THEN AdjustIfRip(t.code[a], e)
                         ELSE IF a < m /\ m < b THEN AdjustIfRip(t.code[m], f) ELSE t.code[m]
    BY DEF SwapOrdered
  <2>2. a \in 1..Len(t.code) /\ b \in 1..Len(t.code)
    BY <1>1
  <2>3. QED  BY <1>1, <2>1, <2>2, SameAdjust, SameSelf
<1>3. CASE i < j
  BY <1>2, <1>3 DEF swap
<1>4. CASE j < i
  BY <1>2, <1>4 DEF swap
<1>5. QED  BY <1>1, <1>3, <1>4

\* TUnit::replace changes one instruction.
LEMMA ReplaceMoves ==
    ASSUME NEW t, Sound(t), NEW k \in 2..Len(t.code), NEW x \in Instr,
           NEW skip \in BOOLEAN, NEW rescale \in BOOLEAN, NEW m \in 1..Len(t.code)
    PROVE  Same(replace(t, k, x, skip, rescale).code[m], IF m = k THEN x ELSE t.code[m])
<1>1. Len(t.code) \in Nat \ {0} /\ t.code \in [1..Len(t.code) -> Instr]
  BY SoundCode
<1>2. PICK d, e : replace(t, k, x, skip, rescale).code[m] =
                    IF m < k THEN t.code[m]
                    ELSE IF m = k THEN AdjustIfRip(x, d) ELSE AdjustIfRip(t.code[m], e)
  BY DEF replace, recompute, WithOffsets
<1>3. QED  BY <1>1, <1>2, SameAdjust, SameSelf

\* Each edit followed by its inverse gives back the code and the tables it started from.
Restored(u, t) == u.code = t.code /\ u.sizes = t.sizes /\ u.offsets = t.offsets

\* AddNopsTransform::undo
LEMMA RemoveInserted ==
    ASSUME NEW t, Sound(t), NEW k \in 2..(Len(t.code) + 1), NEW x,
           Fits(x, hex_size(x), t.offsets[k-1] + t.sizes[k-1], t.targets)
    PROVE  Restored(remove(insert(t, k, x, FALSE), k), t)
<1> DEFINE n == Len(t.code)
           new == insert(t, k, x, FALSE)
           u == remove(new, k)
<1>1. n \in Nat \ {0} /\ k \in 2..(n+1)
  BY SoundCode
<1>2. Sound(new) /\ Len(new.code) = n + 1
  BY InsertSound
<1>3. \A m \in 1..(n+1) :
        Same(new.code[m], IF m < k THEN t.code[m] ELSE IF m = k THEN x ELSE t.code[m-1])
  BY InsertMoves
<1> HIDE DEF new
<1>4. k \in 2..Len(new.code) /\ Len(new.code) - 1 = n
  BY <1>1, <1>2
<1>5. Sound(u) /\ Len(u.code) = n
  BY <1>2, <1>4, RemoveSound
<1>6. \A m \in 1..n : Same(u.code[m], new.code[IF m < k THEN m ELSE m + 1])
  BY <1>2, <1>4, RemoveMoves
<1> HIDE DEF u
<1>7. \A m \in 1..n : Same(new.code[IF m < k THEN m ELSE m + 1], t.code[m])
  <2> TAKE m \in 1..n
  <2>1. CASE m < k
    <3>1. m \in 1..(n+1)
      BY <1>1
    <3>2. QED  BY <1>3, <2>1, <3>1
  <2>2. CASE ~(m < k)
    <3>1. m + 1 \in 1..(n+1) /\ ~(m + 1 < k) /\ m + 1 # k /\ (m + 1) - 1 = m
      BY <1>1, <2>2
    <3>2. Same(new.code[m+1], t.code[(m+1)-1])
      BY <1>3, <3>1
    <3>3. QED  BY <2>2, <3>1, <3>2
  <2>3. QED  BY <2>1, <2>2
<1>8. \A m \in 1..n : Same(u.code[m], t.code[m])
  BY <1>6, <1>7, SameTrans
<1>9. Restored(u, t)
  BY <1>5, <1>8, SoundUnique DEF Restored
<1>10. QED  BY <1>9 DEF u, new

\* DeleteTransform::undo
LEMMA InsertRemoved ==
    ASSUME NEW t, Sound(t), NEW k \in 2..Len(t.code)
    PROVE  Restored(insert(remove(t, k), k, t.code[k], FALSE), t)
<1> DEFINE n == Len(t.code)
           x == t.code[k]
           new == remove(t, k)
           u == insert(new, k, x, FALSE)
<1>1. n \in Nat \ {0} /\ k \in 2..n
  BY SoundCode
<1>2. Sound(new) /\ Len(new.code) = n - 1
  BY RemoveSound
<1>3. Fits(x, hex_size(x), new.offsets[k-1] + new.sizes[k-1], new.targets)
  BY RemoveUndo
<1>4. \A m \in 1..(n-1) : Same(new.code[m], t.code[IF m < k THEN m ELSE m + 1])
  BY RemoveMoves
<1> HIDE DEF new
<1>5. k \in 2..(Len(new.code) + 1) /\ Len(new.code) + 1 = n
  BY <1>1, <1>2
<1>6. Sound(u) /\ Len(u.code) = n
  BY <1>2, <1>3, <1>5, InsertSound
<1>7. \A m \in 1..n :
        Same(u.code[m], IF m < k THEN new.code[m] ELSE IF m = k THEN x ELSE new.code[m-1])
  BY <1>2, <1>5, InsertMoves
<1> HIDE DEF u
<1>8. \A m \in 1..n :
        Same(IF m < k THEN new.code[m] ELSE IF m = k THEN x ELSE new.code[m-1], t.code[m])
  <2> TAKE m \in 1..n
  <2>1. CASE m < k
    <3>1. m \in 1..(n-1)
      BY <1>1, <2>1
    <3>2. QED  BY <1>4, <2>1, <3>1
  <2>2. CASE m = k
    <3>1. ~(m < k)
      BY <1>1, <2>2
    <3>2. QED  BY <2>2, <3>1, SameSelf
  <2>3. CASE m > k
    <3>1. m - 1 \in 1..(n-1) /\ ~(m - 1 < k) /\ (m - 1) + 1 = m /\ ~(m < k) /\ m # k
      BY <1>1, <2>3
    <3>2. Same(new.code[m-1], t.code[(m-1)+1])
      BY <1>4, <3>1
    <3>3. QED  BY <3>1, <3>2
  <2>4. m < k \/ m = k \/ m > k
    BY <1>1
  <2>5. QED  BY <2>1, <2>2, <2>3, <2>4, Zenon
<1>9. \A m \in 1..n : Same(u.code[m], t.code[m])
  BY <1>7, <1>8, SameTrans
<1>10. Restored(u, t)
  BY <1>6, <1>9, SoundUnique DEF Restored
<1>11. QED  BY <1>10 DEF u, new

\* RotateTransform::undo after a rotation to the left
LEMMA RotateLeftBack ==
    ASSUME NEW t, Sound(t), NEW i \in 2..Len(t.code), NEW j \in 2..Len(t.code), i < j
    PROVE  Restored(rotate_right(rotate_left(t, i, j), i, j), t)
<1> DEFINE n == Len(t.code)
           new == rotate_left(t, i, j)
           u == rotate_right(new, i, j)
           p(m) == IF i <= m /\ m < j THEN m + 1 ELSE IF m = j THEN i ELSE m
           q(m) == IF i < m /\ m <= j THEN m - 1 ELSE IF m = i THEN j ELSE m
<1>1. n \in Nat \ {0} /\ i \in 2..n /\ j \in 2..n
  BY SoundCode
<1>2. Sound(new) /\ Len(new.code) = n
  BY RotateLeftSound
<1>3. \A m \in 1..n : Same(new.code[m], t.code[p(m)])
  BY RotateLeftMoves
<1> HIDE DEF new
<1>4. Sound(u) /\ Len(u.code) = n
  BY <1>2, RotateRightSound
<1>5. \A m \in 1..n : Same(u.code[m], new.code[q(m)])
  BY <1>2, RotateRightMoves
<1> HIDE DEF u
<1>6. \A m \in 1..n : q(m) \in 1..n /\ p(q(m)) = m
  BY <1>1
<1> HIDE DEF p, q
<1>7. \A m \in 1..n : Same(u.code[m], t.code[m])
  <2> TAKE m \in 1..n
  <2>1. Same(new.code[q(m)], t.code[p(q(m))])
    BY <1>3, <1>6
  <2>2. QED  BY <1>5, <1>6, <2>1, SameTrans
<1>8. Restored(u, t)
  BY <1>4, <1>7, SoundUnique DEF Restored
<1>9. QED  BY <1>8 DEF u, new

\* RotateTransform::undo after a rotation to the right
LEMMA RotateRightBack ==
    ASSUME NEW t, Sound(t), NEW i \in 2..Len(t.code), NEW j \in 2..Len(t.code), i < j
    PROVE  Restored(rotate_left(rotate_right(t, i, j), i, j), t)
<1> DEFINE n == Len(t.code)
           new == rotate_right(t, i, j)
           u == rotate_left(new, i, j)
           p(m) == IF i <= m /\ m < j THEN m + 1 ELSE IF m = j THEN i ELSE m
           q(m) == IF i < m /\ m <= j THEN m - 1 ELSE IF m = i THEN j ELSE m
<1>1. n \in Nat \ {0} /\ i \in 2..n /\ j \in 2..n
  BY SoundCode
<1>2. Sound(new) /\ Len(new.code) = n
  BY RotateRightSound
<1>3. \A m \in 1..n : Same(new.code[m], t.code[q(m)])
  BY RotateRightMoves
<1> HIDE DEF new
<1>4. Sound(u) /\ Len(u.code) = n
  BY <1>2, RotateLeftSound
<1>5. \A m \in 1..n : Same(u.code[m], new.code[p(m)])
  BY <1>2, RotateLeftMoves
<1> HIDE DEF u
<1>6. \A m \in 1..n : p(m) \in 1..n /\ q(p(m)) = m
  BY <1>1
<1> HIDE DEF p, q
<1>7. \A m \in 1..n : Same(u.code[m], t.code[m])
  <2> TAKE m \in 1..n
  <2>1. Same(new.code[p(m)], t.code[q(p(m))])
    BY <1>3, <1>6
  <2>2. QED  BY <1>5, <1>6, <2>1, SameTrans
<1>8. Restored(u, t)
  BY <1>4, <1>7, SoundUnique DEF Restored
<1>9. QED  BY <1>8 DEF u, new

\* The undo of the two swaps
LEMMA SwapBack ==
    ASSUME NEW t, Sound(t), NEW i \in 2..Len(t.code), NEW j \in 2..Len(t.code), i # j
    PROVE  Restored(swap(swap(t, i, j), i, j), t)
<1> DEFINE n == Len(t.code)
           new == swap(t, i, j)
           u == swap(new, i, j)
           p(m) == IF m = i THEN j ELSE IF m = j THEN i ELSE m
<1>1. n \in Nat \ {0} /\ i \in 2..n /\ j \in 2..n
  BY SoundCode
<1>2. Sound(new) /\ Len(new.code) = n
  BY SwapSound
<1>3. \A m \in 1..n : Same(new.code[m], t.code[p(m)])
  BY SwapMoves
<1> HIDE DEF new
<1>4. Sound(u) /\ Len(u.code) = n
  BY <1>2, SwapSound
<1>5. \A m \in 1..n : Same(u.code[m], new.code[p(m)])
  BY <1>2, SwapMoves
<1> HIDE DEF u
<1>6. \A m \in 1..n : p(m) \in 1..n /\ p(p(m)) = m
  BY <1>1
<1> HIDE DEF p
<1>7. \A m \in 1..n : Same(u.code[m], t.code[m])
  <2> TAKE m \in 1..n
  <2>1. Same(new.code[p(m)], t.code[p(p(m))])
    BY <1>3, <1>6
  <2>2. QED  BY <1>5, <1>6, <2>1, SameTrans
<1>8. Restored(u, t)
  BY <1>4, <1>7, SoundUnique DEF Restored
<1>9. QED  BY <1>8 DEF u, new

\* The undo of the transforms that replace one instruction
LEMMA ReplaceBack ==
    ASSUME NEW t, Sound(t), NEW k \in 2..Len(t.code), NEW x \in Instr, NEW rescale \in BOOLEAN,
           NEW new, new = replace(t, k, x, FALSE, rescale),
           Sound(new), Len(new.code) = Len(t.code), new.offsets[k] = t.offsets[k]
    PROVE  Restored(replace(new, k, t.code[k], TRUE, FALSE), t)
<1> DEFINE n == Len(t.code)
           y == t.code[k]
           u == replace(new, k, y, TRUE, FALSE)
<1>1. n \in Nat \ {0} /\ k \in 2..n
  BY SoundCode
<1>2. /\ y \in Instr
      /\ is_rip(y) => RipOffset + new.offsets[k] + hex_size(y) + y.disp = y.glob
  BY InstrFits
<1>3. \A m \in 1..n : Same(new.code[m], IF m = k THEN x ELSE t.code[m])
  BY ReplaceMoves
<1>4. Sound(u) /\ Len(u.code) = n
  <2>1. k \in 2..Len(new.code) /\ u = replace(new, k, y, TRUE, FALSE)
    BY <1>1
  <2> HIDE DEF u, y
  <2>2. Sound(u) /\ Len(u.code) = Len(new.code)
    BY <1>2, <2>1, ReplaceSkipped, ZenonT(40)
  <2>3. QED  BY <2>2
<1>5. \A m \in 1..n : Same(u.code[m], IF m = k THEN y ELSE new.code[m])
  BY <1>2, ReplaceMoves
<1> HIDE DEF u
<1>6. \A m \in 1..n : Same(u.code[m], t.code[m])
  BY <1>3, <1>5, SameTrans
<1>7. Restored(u, t)
  BY <1>4, <1>6, SoundUnique DEF Restored
<1>8. QED  BY <1>7 DEF u

-----------------------------------------------------------------------------
(* Every proposal can be undone *)

\* A proposal can be undone if the undo it records restores the function.
LEMMA MoveRestores ==
    ASSUME NEW type, NEW i, NEW j, NEW x, NEW new, NEW b, Move(type, i, j, x, new, b),
           Restored(Undone(new, [move_type |-> type, undo_index |-> <<i, j>>, undo_instr |-> x]),
                    fn)
    PROVE  UndoRestores'
  BY Zenon DEF Move, UndoRestores, Restored

\* AddNopsTransform and DeleteTransform can be undone.
LEMMA ResizeRestores ==
    ASSUME IInv, NEW i \in Indices, AddNops(i) \/ Delete(i)
    PROVE  UndoRestores'
<1>1. Sound(fn) /\ i \in 2..Len(fn.code) /\ Len(fn.code) \in Nat \ {0}
      /\ Tables(fn.code, fn.sizes, fn.offsets, fn.targets, Len(fn.code))
  BY SoundTables DEF IInv, Indices
<1>2. CASE AddNops(i)
  <2> DEFINE new == insert(fn, i, Nop, FALSE)
             info == [move_type |-> "add_nops", undo_index |-> <<i, 1>>, undo_instr |-> Nop]
  <2>1. Fits(Nop, hex_size(Nop), fn.offsets[i-1] + fn.sizes[i-1], fn.targets)
    <3>1. i-1 \in 1..Len(fn.code)
      BY <1>1
    <3>2. fn.offsets[i-1] + fn.sizes[i-1] \in Int
      <4>1. fn.sizes \in [1..Len(fn.code) -> Nat] /\ fn.offsets \in [1..Len(fn.code) -> Int]
        BY <1>1 DEF Tables
      <4>2. fn.offsets[i-1] \in Int /\ fn.sizes[i-1] \in Int
        BY <3>1, <4>1
      <4>3. QED  BY <4>2
    <3>3. hex_size(Nop) \in Nat
      BY NopType, ShapeAssumption DEF hex_size, Instr
    <3>4. QED  BY <3>2, <3>3, NopType DEF Fits, hex_size
  <2>2. i \in 2..(Len(fn.code) + 1)
    BY <1>1
  <2>3. Restored(remove(new, i), fn)
    BY <1>1, <2>1, <2>2, RemoveInserted
  <2> HIDE DEF new
  <2>4. Undone(new, info) = remove(new, i)
    BY DEF Undone
  <2>5. Move("add_nops", i, 1, Nop, new, TRUE)
    BY <1>2 DEF AddNops, new
  <2>6. QED  BY <2>3, <2>4, <2>5, MoveRestores
<1>3. CASE Delete(i)
  <2> DEFINE new == remove(fn, i)
             x == fn.code[i]
             info == [move_type |-> "delete", undo_index |-> <<i, 1>>, undo_instr |-> x]
  <2>1. Restored(insert(new, i, x, FALSE), fn)
    BY <1>1, InsertRemoved
  <2>2. Move("delete", i, 1, x, new, TRUE)
    BY <1>3 DEF Delete
  <2> HIDE DEF new, x
  <2>3. Undone(new, info) = insert(new, i, x, FALSE)
    BY DEF Undone
  <2>4. QED  BY <2>1, <2>2, <2>3, MoveRestores
<1>4. QED  BY <1>2, <1>3

\* RotateTransform and the two swaps can be undone.
LEMMA PermuteRestores ==
    ASSUME IInv, NEW i \in Indices, NEW j \in Indices,
           Rotate(i, j) \/ GlobalSwap(i, j) \/ LocalSwap(i, j)
    PROVE  UndoRestores'
<1> DEFINE x == fn.code[i]
<1>1. Sound(fn) /\ i \in 2..Len(fn.code) /\ j \in 2..Len(fn.code) /\ Len(fn.code) \in Nat
      /\ i # j
  BY SoundCode DEF IInv, Indices, Rotate, GlobalSwap, LocalSwap
<1>2. CASE Rotate(i, j)
  <2> DEFINE new == IF i < j THEN rotate_left(fn, i, j) ELSE rotate_right(fn, j, i)
             info == [move_type |-> "rotate", undo_index |-> <<i, j>>, undo_instr |-> x]
             u == IF i < j THEN rotate_right(new, i, j) ELSE rotate_left(new, j, i)
  <2>1. Restored(u, fn)
    <3>1. CASE i < j
      BY <1>1, <3>1, RotateLeftBack
    <3>2. CASE ~(i < j)
      <4>1. j < i
        BY <1>1, <3>2
      <4>2. QED  BY <1>1, <3>2, <4>1, RotateRightBack
    <3>3. QED  BY <3>1, <3>2
  <2>2. Move("rotate", i, j, x, new, TRUE)
    BY <1>2 DEF Rotate
  <2> HIDE DEF new, x
  <2>3. Undone(new, info) = u
    BY DEF Undone
  <2> HIDE DEF u
  <2>4. QED  BY <2>1, <2>2, <2>3, MoveRestores
<1>3. CASE GlobalSwap(i, j) \/ LocalSwap(i, j)
  <2> DEFINE new == swap(fn, i, j)
             info == [move_type |-> "swap", undo_index |-> <<i, j>>, undo_instr |-> x]
  <2>1. Restored(swap(new, i, j), fn)
    BY <1>1, SwapBack
  <2>2. Move("swap", i, j, x, new, FALSE)
    BY <1>3 DEF GlobalSwap, LocalSwap
  <2> HIDE DEF new, x
  <2>3. Undone(new, info) = swap(new, i, j)
    BY DEF Undone
  <2>4. QED  BY <2>1, <2>2, <2>3, MoveRestores
<1>4. QED  BY <1>2, <1>3

-----------------------------------------------------------------------------
(* Block boundaries *)

\* x and y open and close a basic block alike.
Alike(x, y) ==
    /\ (x.shape.kind = "label") <=> (y.shape.kind = "label")
    /\ (x.shape.kind \in {"jump", "ret"}) <=> (y.shape.kind \in {"jump", "ret"})

\* Cfg::recompute_blocks finds the same boundaries in codes whose instructions are alike.
LEMMA BoundariesAlike ==
    ASSUME NEW c, NEW d, Len(c) = Len(d), \A m \in 1..Len(d) : Alike(c[m], d[m])
    PROVE  Boundaries(c) = Boundaries(d)
<1>1. {m \in 1..Len(c) : c[m].shape.kind = "label"} = {m \in 1..Len(d) : d[m].shape.kind = "label"}
  BY DEF Alike
<1>2. {k \in 1..Len(c) : c[k].shape.kind \in {"jump", "ret"}}
        = {k \in 1..Len(d) : d[k].shape.kind \in {"jump", "ret"}}
  BY DEF Alike
<1>3. QED  BY <1>1, <1>2, Zenon DEF Boundaries

\* A transform that replaces one instruction by one with the same part in the control flow
\* can be undone, and leaves the blocks as they were.
LEMMA ReplaceRestores ==
    ASSUME IInv, BlocksCurrent, NEW k \in Indices, NEW x \in Instr, NEW rescale \in BOOLEAN,
           NEW new, new = replace(fn, k, x, FALSE, rescale),
           Sound(new), Len(new.code) = Len(fn.code), new.offsets[k] = fn.offsets[k],
           Alike(x, fn.code[k]),
           Move("replace", k, 0, fn.code[k], new, FALSE)
    PROVE  UndoRestores' /\ BlocksCurrent' /\ boundaries' = Boundaries(prev'.code)
<1> DEFINE y == fn.code[k]
           info == [move_type |-> "replace", undo_index |-> <<k, 0>>, undo_instr |-> y]
<1>1. Sound(fn) /\ k \in 2..Len(fn.code)
  BY DEF IInv, Indices
<1>2. Restored(replace(new, k, y, TRUE, FALSE), fn)
  BY <1>1, ReplaceBack
<1>3. \A m \in 1..Len(fn.code) : Same(new.code[m], IF m = k THEN x ELSE fn.code[m])
  BY <1>1, ReplaceMoves
<1>4. \A m \in 1..Len(fn.code) : Alike(new.code[m], fn.code[m])
  BY <1>3 DEF Same, Alike
<1>5. Boundaries(new.code) = Boundaries(fn.code)
  BY <1>4, BoundariesAlike
<1>6. BlocksCurrent' /\ boundaries' = Boundaries(prev'.code)
  BY <1>5 DEF Move, BlocksCurrent
<1>7. Undone(new, info) = replace(new, k, y, TRUE, FALSE)
  <2> HIDE DEF y
  <2>1. QED  BY DEF Undone
<1>8. UndoRestores'
  BY <1>2, <1>7, MoveRestores
<1>9. QED  BY <1>6, <1>8

\* What Movable says of an instruction of the function
LEMMA MovableKind ==
    ASSUME IInv, NEW i \in Indices, Movable(i), NEW x,
           x.shape.kind \in {"plain", "call"} \/ x.shape.kind = fn.code[i].shape.kind
    PROVE  Alike(x, fn.code[i])
  BY DEF Movable, is_control_other_than_call, Alike

\* OpcodeTransform, and OperandTransform for any but the memory operand
LEMMA ReshapeRestores ==
    ASSUME IInv, BlocksCurrent, NEW i \in Indices, NEW s \in Shape,
           OpcodeMove(i, s) \/ OperandMoveOther(i, s)
    PROVE  UndoRestores' /\ BlocksCurrent' /\ boundaries' = Boundaries(prev'.code)
<1> DEFINE x == fn.code[i]
           y == [x EXCEPT !.shape = s]
           new == replace(fn, i, y, FALSE, FALSE)
<1>1. Sound(fn) /\ i \in 2..Len(fn.code)
  BY DEF IInv, Indices
<1>2. /\ x \in Instr
      /\ is_rip(x) => RipOffset + fn.offsets[i] + fn.sizes[i] + x.disp = x.glob
  BY <1>1, InstrFits
<1>3. ((s.rip = "none") <=> (x.shape.rip = "none")) /\ s.kind = x.shape.kind /\ Movable(i)
  BY DEF OpcodeMove, OperandMoveOther
<1>4. Move("replace", i, 0, fn.code[i], new, FALSE)
  BY DEF OpcodeMove, OperandMoveOther
<1>5. y \in Instr /\ y.shape = s /\ y.disp = x.disp /\ y.glob = x.glob
  <2> HIDE DEF x
  <2>1. QED  BY <1>2 DEF Instr
<1> HIDE DEF y
<1>6. is_rip(y) => RipOffset + fn.offsets[i] + fn.sizes[i] + y.disp = y.glob
  BY <1>2, <1>3, <1>5 DEF is_rip
<1>7. Alike(y, fn.code[i])
  BY <1>3, <1>5, MovableKind
<1>8. Sound(new) /\ Len(new.code) = Len(fn.code) /\ new.offsets[i] = fn.offsets[i]
  BY <1>1, <1>5, <1>6, ReplaceLocal
<1>9. new = replace(fn, i, y, FALSE, FALSE) /\ FALSE \in BOOLEAN
  OBVIOUS
<1> HIDE DEF new
<1>10. QED
  BY <1>4, <1>5, <1>7, <1>8, <1>9, ReplaceRestores

\* OperandTransform for a memory operand, OpcodeWidthTransform and InstructionTransform
LEMMA PooledRestores ==
    ASSUME IInv, BlocksCurrent, NEW i \in Indices, NEW instr \in Pooled,
           OperandMoveMem(i, instr) \/ OpcodeWidthMove(i, instr) \/ InstructionMove(i, instr)
    PROVE  UndoRestores' /\ BlocksCurrent' /\ boundaries' = Boundaries(prev'.code)
<1>1. Sound(fn) /\ i \in 2..Len(fn.code)
  BY DEF IInv, Indices
<1>2. instr \in Instr /\ (is_rip(instr) => instr.disp = instr.glob)
  BY PooledType
<1>3. Alike(instr, fn.code[i])
  <2>1. instr.shape.kind \in {"plain", "call"}
    BY DEF Pooled, Plain
  <2>2. Movable(i)
    BY DEF OperandMoveMem, OpcodeWidthMove, InstructionMove
  <2>3. QED  BY <2>1, <2>2, MovableKind
<1>4. PICK rescale \in BOOLEAN :
        /\ rescale \/ ~is_rip(instr)
        /\ Move("replace", i, 0, fn.code[i], replace(fn, i, instr, FALSE, rescale), FALSE)
  <2>1. CASE OperandMoveMem(i, instr)
    <3>1. is_rip(instr) \in BOOLEAN
      BY DEF is_rip
    <3>2. Move("replace", i, 0, fn.code[i], replace(fn, i, instr, FALSE, is_rip(instr)), FALSE)
      BY <2>1 DEF OperandMoveMem
    <3>3. QED  BY <3>1, <3>2, Zenon
  <2>2. CASE OpcodeWidthMove(i, instr) \/ InstructionMove(i, instr)
    <3>1. Move("replace", i, 0, fn.code[i], replace(fn, i, instr, FALSE, TRUE), FALSE)
      BY <2>2 DEF OpcodeWidthMove, InstructionMove
    <3>2. TRUE \in BOOLEAN
      OBVIOUS
    <3>3. QED  BY <3>1, <3>2, Zenon
  <2>3. QED  BY <2>1, <2>2, Zenon
<1> DEFINE new == replace(fn, i, instr, FALSE, rescale)
<1>5. Sound(new) /\ Len(new.code) = Len(fn.code) /\ new.offsets[i] = fn.offsets[i]
  <2>1. CASE rescale
    <3>1. rescale = TRUE
      BY <2>1
    <3>2. QED  BY <1>1, <1>2, <3>1, ReplaceRescaled
  <2>2. CASE ~rescale
    <3>1. rescale = FALSE /\ ~is_rip(instr)
      BY <1>4, <2>2
    <3>2. QED  BY <1>1, <1>2, <3>1, ReplaceLocal
  <2>3. QED  BY <2>1, <2>2
<1>6. new = replace(fn, i, instr, FALSE, rescale)
      /\ Move("replace", i, 0, fn.code[i], new, FALSE)
  BY <1>4
<1> HIDE DEF new
<1>7. QED
  BY <1>2, <1>3, <1>5, <1>6, ReplaceRestores

\* GlobalSwapTransform and LocalSwapTransform leave the blocks as they were: neither
\* instruction opens or closes one.
LEMMA SwapBlocks ==
    ASSUME IInv, BlocksCurrent, NEW i \in Indices, NEW j \in Indices,
           GlobalSwap(i, j) \/ LocalSwap(i, j)
    PROVE  BlocksCurrent' /\ boundaries' = Boundaries(prev'.code)
<1> DEFINE new == swap(fn, i, j)
<1>1. Sound(fn) /\ i \in 2..Len(fn.code) /\ j \in 2..Len(fn.code)
  BY DEF IInv, Indices
<1>2. i # j /\ Movable(i) /\ Movable(j) /\ Move("swap", i, j, fn.code[i], new, FALSE)
  BY DEF GlobalSwap, LocalSwap
<1>3. Len(new.code) = Len(fn.code)
  BY <1>1, SwapSound
<1>4. \A m \in 1..Len(fn.code) :
        Same(new.code[m], fn.code[IF m = i THEN j ELSE IF m = j THEN i ELSE m])
  BY <1>1, <1>2, SwapMoves
<1> HIDE DEF new
<1>5. \A m \in 1..Len(fn.code) : Alike(new.code[m], fn.code[m])
  BY <1>2, <1>4 DEF Movable, is_control_other_than_call, Alike, Same
<1>6. Boundaries(new.code) = Boundaries(fn.code)
  BY <1>3, <1>5, BoundariesAlike
<1>7. QED  BY <1>2, <1>6 DEF Move, BlocksCurrent

-----------------------------------------------------------------------------
(* Undo restores the function and its blocks *)

\* The undo of a swap or of a replacement only calls recompute_defs(): the boundaries it
\* leaves must be those of the function it restores.
BlocksOfPrev ==
    ti.move_type \in {"swap", "replace"} => boundaries = Boundaries(prev.code)

UndoInv == IInv /\ UndoRestores /\ BlocksCurrent /\ BlocksOfPrev

\* The moves whose transform calls Cfg::recompute()
LEMMA RecomputedBlocks ==
    ASSUME NEW type \in Recomputes, NEW i, NEW j, NEW x, NEW new, Move(type, i, j, x, new, TRUE)
    PROVE  BlocksCurrent' /\ BlocksOfPrev'
<1>1. boundaries' = Boundaries(new.code) /\ fn' = new /\ ti'.move_type = type
  BY DEF Move
<1>2. type \notin {"swap", "replace"}
  BY DEF Recomputes
<1>3. QED  BY <1>1, <1>2 DEF BlocksCurrent, BlocksOfPrev

\* Every proposal can be undone and leaves the blocks of its code.
LEMMA ProposeRestores ==
    ASSUME UndoInv, Propose
    PROVE  UndoRestores' /\ BlocksCurrent' /\ BlocksOfPrev'
<1>1. ASSUME NEW i \in Indices, NEW s \in Shape, OpcodeMove(i, s) \/ OperandMoveOther(i, s)
      PROVE  UndoRestores' /\ BlocksCurrent' /\ BlocksOfPrev'
  BY <1>1, ReshapeRestores DEF UndoInv, BlocksOfPrev
<1>2. ASSUME NEW i \in Indices, AddNops(i) \/ Delete(i)
      PROVE  UndoRestores' /\ BlocksCurrent' /\ BlocksOfPrev'
  <2>1. UndoRestores'
    BY <1>2, ResizeRestores DEF UndoInv
  <2>2. BlocksCurrent' /\ BlocksOfPrev'
    BY <1>2, RecomputedBlocks, Zenon DEF AddNops, Delete, Recomputes
  <2>3. QED  BY <2>1, <2>2
<1>3. ASSUME NEW i \in Indices, NEW j \in Indices,
             Rotate(i, j) \/ GlobalSwap(i, j) \/ LocalSwap(i, j)
      PROVE  UndoRestores' /\ BlocksCurrent' /\ BlocksOfPrev'
  <2>1. UndoRestores'
    BY <1>3, PermuteRestores DEF UndoInv
  <2>2. CASE Rotate(i, j)
    <3> DEFINE new == IF i < j THEN rotate_left(fn, i, j) ELSE rotate_right(fn, j, i)
    <3>1. Move("rotate", i, j, fn.code[i], new, TRUE) /\ "rotate" \in Recomputes
      BY <2>2 DEF Rotate, Recomputes
    <3> HIDE DEF new
    <3>2. QED  BY <2>1, <3>1, RecomputedBlocks
  <2>3. CASE GlobalSwap(i, j) \/ LocalSwap(i, j)
    BY <2>1, <2>3, SwapBlocks DEF UndoInv, BlocksOfPrev
  <2>4. QED  BY <1>3, <2>2, <2>3
<1>4. ASSUME NEW i \in Indices, NEW instr \in Pooled,
             OperandMoveMem(i, instr) \/ OpcodeWidthMove(i, instr) \/ InstructionMove(i, instr)
      PROVE  UndoRestores' /\ BlocksCurrent' /\ BlocksOfPrev'
  BY <1>4, PooledRestores DEF UndoInv, BlocksOfPrev
<1>5. QED  BY <1>1, <1>2, <1>3, <1>4, Zenon DEF Propose

\* Undo gives back the function and blocks that fit it.
LEMMA UndoRestoring ==
    ASSUME UndoInv, Undo
    PROVE  UndoRestores' /\ BlocksCurrent' /\ BlocksOfPrev'
<1>1. UndoRestores' /\ BlocksOfPrev'
  BY NoMoveType DEF Undo, UndoRestores, BlocksOfPrev
<1>2. fn'.code = prev.code
  BY DEF UndoInv, UndoRestores, Undo
<1>3. CASE ti.move_type \in Recomputes
  BY <1>1, <1>3 DEF Undo, BlocksCurrent
<1>4. CASE ti.move_type \notin Recomputes
  <2>1. ti.move_type \in Moves
    BY DEF UndoInv, IInv, TransformInfo, UndoApplies, Undo
  <2>2. ti.move_type \in {"swap", "replace"}
    BY <1>4, <2>1 DEF Moves, Recomputes
  <2>3. boundaries = Boundaries(prev.code) /\ boundaries' = boundaries
    BY <1>4, <2>2 DEF UndoInv, BlocksOfPrev, Undo
  <2>4. QED  BY <1>1, <1>2, <2>3 DEF BlocksCurrent
<1>5. QED  BY <1>3, <1>4

\* The stronger inductive invariant: the function is sound, the move in flight can be undone,
\* and the boundaries fit the function and, after a move whose undo does not compute them
\* anew, the function it was applied to as well.  Neither UndoRestores nor BlocksCurrent is
\* inductive on its own: the restored displacements are those of the target only because both
\* functions are sound, and the boundaries after Undo are the current ones only because Undo
\* restores the code.
THEOREM UndoInvariance == Spec => []UndoInv
<1>1. Init => UndoInv
  <2> SUFFICES ASSUME Init PROVE UndoInv
    OBVIOUS
  <2>1. UndoRestores /\ BlocksCurrent /\ BlocksOfPrev
    BY NoMoveType DEF Init, UndoRestores, BlocksCurrent, BlocksOfPrev
  <2>2. QED  BY <2>1, InitSound DEF UndoInv
<1>2. UndoInv /\ [Next]_vars => UndoInv'
  <2> SUFFICES ASSUME UndoInv, [Next]_vars PROVE UndoInv'
    OBVIOUS
  <2>1. IInv'
    BY NextSound DEF UndoInv
  <2>2. CASE Propose
    BY <2>1, <2>2, ProposeRestores DEF UndoInv
  <2>3. CASE Undo
    BY <2>1, <2>3, UndoRestoring DEF UndoInv
  <2>4. CASE Keep
    <3>1. UndoRestores' /\ BlocksCurrent' /\ BlocksOfPrev'
      BY <2>4, NoMoveType DEF UndoInv, Keep, UndoRestores, BlocksCurrent, BlocksOfPrev
    <3>2. QED  BY <2>1, <3>1 DEF UndoInv
  <2>5. CASE Fail \/ UNCHANGED vars
    <3>1. UndoRestores' /\ BlocksCurrent' /\ BlocksOfPrev'
      BY <2>5 DEF UndoInv, Fail, vars, UndoRestores, BlocksCurrent, BlocksOfPrev
    <3>2. QED  BY <2>1, <3>1 DEF UndoInv
  <2>6. QED  BY <2>2, <2>3, <2>4, <2>5 DEF Next
<1>3. QED
  BY <1>1, <1>2, PTL DEF Spec

\* Whatever transform was applied to whatever function, undo() gives back that very function:
\* its instructions with every rip displacement, its hex sizes and its hex offsets.
THEOREM UndoRestoresHolds == Spec => []UndoRestores
  BY UndoInvariance, PTL DEF UndoInv

\* The basic blocks the Cfg keeps are always those of its code, although swaps, replacements
\* and their undo only call recompute_defs() and never look for blocks again.
THEOREM BlocksCurrentHolds == Spec => []BlocksCurrent
  BY UndoInvariance, PTL DEF UndoInv
============================================================================
