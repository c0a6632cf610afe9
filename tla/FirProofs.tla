----------------------------- MODULE FirProofs ------------------------------
(***************************************************************************)
(* The FIR filter, for every number of taps, every signal length, every    *)
(* distance of `out` from `in`, and every Dot: no property of the          *)
(* arithmetic is used.                                                     *)
(***************************************************************************)
EXTENDS Fir, TLAPS

-----------------------------------------------------------------------------
(* The delay line *)

Types == len \in 1 .. MaxTaps /\ FilterTypeOK

\* Only outputs that have been made differ from the memory at the call.
Untouched == \A c \in Cells : mem[c] # orig[c] => c - off \in 0 .. Outputs - 1

\* The delay line holds the last samples, in a shift the older ones moved up
\* already; behind the last output nothing is claimed of it.
LineInv ==
  /\ fir = "turn" /\ n < length => \A k \in Taps : buffer[k] = History(n)[k]
  /\ fir = "shift" =>
       \A k \in Taps : buffer[k] = IF k > i THEN History(n)[k - 1] ELSE History(n)[k]

FilterInv ==
  /\ Types
  /\ fir = "idle" => mem = orig /\ n = 0 /\ pos = 0 /\ ret = 0
  /\ fir \in {"turn", "shift"} => pos = n + 1 /\ ret = 0
  /\ fir = "shift" => n < length
  /\ ret = -1 => mem = orig
  /\ pos \in Int /\ pos <= length + 1
  /\ Untouched
  /\ InSitu => LineInv /\ Convolves

LEMMA Bounds ==
  ASSUME Types
  PROVE  /\ MaxLen \in Nat /\ len \in Nat \ {0} /\ length \in Nat /\ n \in Nat /\ off \in Int
         /\ length <= MaxLen /\ n <= length /\ i \in Int /\ 0 \in Cells
         /\ \A m \in 0 .. length - 1 : off + m \in Cells
         /\ \A m \in 0 .. length : m \in Cells
<1>1. MaxLen \in Nat /\ MaxTaps \in Nat
  BY FilterAssumption, CoeffAssumption
<1> QED
  BY <1>1 DEF Types, FilterTypeOK, Cells, Taps

\* What History is, and that Dot of a delay line is a value.
LEMMA HistoryIs ==
  ASSUME Types, NEW m \in 0 .. length
  PROVE  /\ History(m) \in [Taps -> Value]
         /\ \A k \in Taps : History(m)[k] = IF k <= m THEN orig[m - k] ELSE Zero
<1>1. \A k \in Taps : k <= m => m - k \in 0 .. length /\ m - k \in Cells
  BY Bounds DEF Taps, Types, FilterTypeOK
<1> QED
  BY <1>1, FilterAssumption DEF History, Types, FilterTypeOK

LEMMA DotValue ==
  ASSUME Types
  PROVE  Dot(buffer) \in Value
  BY FilterAssumption DEF Types, FilterTypeOK, Taps

LEMMA CallStep ==
  ASSUME FilterInv, NEW l \in 0 .. MaxLen, NEW d \in - MaxLen .. MaxLen, FilterCall(l, d), len' = len
  PROVE  FilterInv'
<1>1. Types /\ MaxLen \in Nat /\ len \in Nat \ {0} /\ 0 \in Cells
  BY Bounds DEF FilterInv
<1>2. /\ fir' = "turn" /\ length' = l /\ off' = d /\ n' = 0 /\ i' = 0 /\ pos' = 1
      /\ mem' = mem /\ orig' = orig /\ ret' = 0 /\ mem = orig
      /\ buffer' = [j \in Taps |-> IF j = 0 THEN mem[0] ELSE Zero]
  BY DEF FilterCall, FilterInv
<1>3. Taps' = Taps
  BY DEF Taps
<1>4. Types'
  BY <1>1, <1>2, <1>3, FilterAssumption DEF Types, FilterTypeOK, Taps
<1>5. \A k \in Taps : buffer'[k] = History(0)'[k]
  BY <1>1, <1>2, <1>3 DEF History, Taps
<1>6. (InSitu => LineInv /\ Convolves)'
  BY <1>2, <1>3, <1>5 DEF LineInv, Convolves, Outputs
<1>7. Untouched'
  BY <1>2 DEF Untouched
<1> QED
  BY <1>1, <1>2, <1>4, <1>6, <1>7 DEF FilterInv

LEMMA SumStep ==
  ASSUME FilterInv, SumTurn, len' = len
  PROVE  FilterInv'
<1>1. /\ Types /\ MaxLen \in Nat /\ len \in Nat \ {0} /\ n \in Nat /\ length \in Nat
      /\ off \in Int /\ n < length /\ off + n \in Cells
  BY Bounds DEF FilterInv, SumTurn
<1>2. /\ mem' = [mem EXCEPT ![off + n] = Dot(buffer)] /\ fir = "turn" /\ fir' = "shift"
      /\ i' = len - 1 /\ pos = n + 1 /\ ret = 0
      /\ UNCHANGED <<length, off, orig, buffer, n, pos, ret>>
  BY DEF SumTurn, FilterInv
<1>3. Taps' = Taps /\ Outputs = n /\ Outputs' = n + 1
  BY <1>2 DEF Taps, Outputs
<1>4. Types'
  BY <1>1, <1>2, <1>3, DotValue DEF Types, FilterTypeOK, Taps
<1>5. mem'[off + n] = Dot(buffer) /\ \A c \in Cells : c # off + n => mem'[c] = mem[c]
  BY <1>1, <1>2 DEF Types, FilterTypeOK
<1>6. Untouched'
  <2> SUFFICES ASSUME NEW c \in Cells, mem'[c] # orig[c] PROVE c - off \in 0 .. n
    BY <1>1, <1>2, <1>3 DEF Untouched
  <2>1. c \in Int
    BY <1>1 DEF Cells
  <2>2. CASE c = off + n
    BY <1>1, <2>1, <2>2
  <2>3. CASE c # off + n
    BY <1>1, <1>3, <1>5, <2>1, <2>3 DEF FilterInv, Untouched
  <2> QED
    BY <2>2, <2>3
<1>7. ASSUME InSitu' PROVE LineInv' /\ Convolves'
  <2>1. InSitu
    BY <1>7, <1>2 DEF InSitu
  <2>2. n \in 0 .. length
    BY <1>1
  <2>3. buffer = History(n)
    <3>1. History(n) \in [Taps -> Value] /\ buffer \in [Taps -> Value]
      BY <1>1, <2>2, HistoryIs DEF Types, FilterTypeOK
    <3>2. \A k \in Taps : buffer[k] = History(n)[k]
      BY <1>1, <1>2, <2>1 DEF FilterInv, LineInv
    <3> QED
      BY ONLY <3>1, <3>2
  <2>4. \A m : History(m)' = History(m)
    BY <1>2, <1>3 DEF History
  <2>5. LineInv'
    BY <1>1, <1>2, <1>3, <2>3, <2>4 DEF LineInv, Taps
  <2>6. \A m \in 0 .. n : mem'[off + m] = Dot(History(m))
    <3> SUFFICES ASSUME NEW m \in 0 .. n PROVE mem'[off + m] = Dot(History(m))
      OBVIOUS
    <3>1. CASE m = n
      BY <1>5, <2>3, <3>1
    <3>2. CASE m # n
      <4>1. m \in 0 .. n - 1 /\ off + m # off + n /\ off + m \in Cells
        BY <1>1, <3>2, Bounds
      <4>2. mem[off + m] = Dot(History(m))
        BY <1>3, <2>1, <4>1 DEF FilterInv, Convolves
      <4> QED
        BY <1>5, <4>1, <4>2
    <3> QED
      BY <3>1, <3>2
  <2>7. Convolves'
    BY <1>1, <1>2, <1>3, <2>4, <2>6 DEF Convolves
  <2> QED
    BY <2>5, <2>7
<1> QED
  BY <1>1, <1>2, <1>4, <1>6, <1>7 DEF FilterInv

LEMMA ShiftStep ==
  ASSUME FilterInv, ShiftTurn, len' = len
  PROVE  FilterInv'
<1>1. /\ Types /\ len \in Nat \ {0} /\ n \in 0 .. length /\ length \in Nat
      /\ i \in Taps /\ i > 0 /\ i \in Int
  BY Bounds DEF FilterInv, ShiftTurn, Types, FilterTypeOK
<1>2. /\ buffer' = [buffer EXCEPT ![i] = buffer[i - 1]] /\ fir = "shift" /\ i' = i - 1
      /\ UNCHANGED <<fir, length, off, mem, orig, n, pos, ret>>
  BY DEF ShiftTurn
<1>3. Taps' = Taps /\ Outputs' = Outputs
  BY <1>2 DEF Taps, Outputs
<1>4. i - 1 \in Taps
  BY <1>1 DEF Taps
<1>5. Types'
  BY <1>1, <1>2, <1>3, <1>4 DEF Types, FilterTypeOK
<1>6. \A m : History(m)' = History(m)
  BY <1>2, <1>3 DEF History
<1>7. ASSUME InSitu' PROVE LineInv' /\ Convolves'
  <2>1. LineInv /\ Convolves
    BY <1>7, <1>2 DEF FilterInv, InSitu
  <2>2. \A k \in Taps : buffer[k] = IF k > i THEN History(n)[k - 1] ELSE History(n)[k]
    BY <1>2, <2>1 DEF LineInv
  <2>3. \A k \in Taps : buffer'[k] = IF k > i - 1 THEN History(n)[k - 1] ELSE History(n)[k]
    <3> SUFFICES ASSUME NEW k \in Taps
                 PROVE  buffer'[k] = IF k > i - 1 THEN History(n)[k - 1] ELSE History(n)[k]
      OBVIOUS
    <3>0. k \in Int /\ buffer \in [Taps -> Value]
      BY <1>1 DEF Taps, Types, FilterTypeOK
    <3>1. CASE k = i
      BY <1>1, <1>2, <1>4, <2>2, <3>0, <3>1
    <3>2. CASE k # i
      BY <1>1, <1>2, <2>2, <3>0, <3>2
    <3> QED
      BY <3>1, <3>2
  <2>4. LineInv'
    BY <1>2, <1>3, <1>6, <2>3 DEF LineInv
  <2>5. Convolves'
    BY <1>2, <1>3, <1>6, <2>1 DEF Convolves, InSitu
  <2> QED
    BY <2>4, <2>5
<1>8. Untouched'
  BY <1>2, <1>3 DEF FilterInv, Untouched, Cells
<1> QED
  BY <1>1, <1>2, <1>5, <1>7, <1>8 DEF FilterInv

LEMMA ReadStep ==
  ASSUME FilterInv, ReadNext, len' = len
  PROVE  FilterInv'
<1>1. /\ Types /\ len \in Nat \ {0} /\ n \in Nat /\ length \in Nat /\ n < length
      /\ off \in Int /\ n + 1 \in Cells /\ n + 1 \in 0 .. length /\ n \in 0 .. length
      /\ 0 \in Taps
  BY Bounds DEF FilterInv, ReadNext, Types, FilterTypeOK, Taps
<1>2. /\ buffer' = [buffer EXCEPT ![0] = mem[n + 1]] /\ fir = "shift" /\ fir' = "turn" /\ i = 0
      /\ pos = n + 1 /\ pos' = n + 2 /\ n' = n + 1 /\ ret = 0
      /\ UNCHANGED <<length, off, mem, orig, i, ret>>
  BY <1>1 DEF ReadNext, FilterInv
<1>3. Taps' = Taps /\ Outputs = n + 1 /\ Outputs' = n + 1
  BY <1>2 DEF Taps, Outputs
<1>4. Types'
  BY <1>1, <1>2, <1>3 DEF Types, FilterTypeOK
<1>5. \A m : History(m)' = History(m)
  BY <1>2, <1>3 DEF History
<1>6. Untouched'
  BY <1>2, <1>3 DEF FilterInv, Untouched, Cells
<1>7. \A j \in Taps : History(n + 1)[j] = IF j <= n + 1 THEN orig[(n + 1) - j] ELSE Zero
  BY <1>1, HistoryIs
<1>8. ASSUME InSitu' PROVE LineInv' /\ Convolves'
  <2>1. InSitu /\ LineInv /\ Convolves
    BY <1>8, <1>2 DEF FilterInv, InSitu
  <2>2. Convolves'
    BY <1>2, <1>3, <1>5, <2>1 DEF Convolves, InSitu
  <2>3. ASSUME n + 1 < length PROVE \A k \in Taps : buffer'[k] = History(n + 1)[k]
    <3>1. mem[n + 1] = orig[n + 1]
      <4>1. ~((n + 1) - off \in 0 .. n)
        BY <1>1, <2>1, <2>3 DEF InSitu
      <4> QED
        BY <1>1, <1>3, <4>1 DEF FilterInv, Untouched
    <3> SUFFICES ASSUME NEW k \in Taps PROVE buffer'[k] = History(n + 1)[k]
      OBVIOUS
    <3>2. k \in Nat /\ k <= len - 1 /\ buffer \in [Taps -> Value]
      BY <1>1 DEF Taps, Types, FilterTypeOK
    <3>3. CASE k = 0
      <4>1. History(n + 1)[0] = orig[n + 1]
        BY <1>1, <1>7
      <4> QED
        BY <1>1, <1>2, <3>1, <3>2, <3>3, <4>1
    <3>4. CASE k # 0
      <4>1. k - 1 \in Taps /\ k > 0
        BY <3>2, <3>4, <1>1 DEF Taps
      <4>2. buffer'[k] = History(n)[k - 1]
        BY <1>2, <2>1, <3>2, <3>4, <4>1 DEF LineInv
      <4>3. History(n)[k - 1] = IF k - 1 <= n THEN orig[n - (k - 1)] ELSE Zero
        BY <1>1, <4>1, HistoryIs
      <4>4. History(n + 1)[k] = IF k <= n + 1 THEN orig[(n + 1) - k] ELSE Zero
        BY <1>7
      <4>5. n - (k - 1) = (n + 1) - k /\ (k - 1 <= n <=> k <= n + 1)
        BY <1>1, <3>2
      <4> QED
        BY <4>2, <4>3, <4>4, <4>5
    <3> QED
      BY <3>3, <3>4
  <2>4. LineInv'
    BY <1>2, <1>3, <1>5, <2>3 DEF LineInv
  <2> QED
    BY <2>2, <2>4
<1> QED
  BY <1>1, <1>2, <1>4, <1>6, <1>8 DEF FilterInv

\* The call that fails, the return, and steps of the design.
LEMMA RestStep ==
  ASSUME FilterInv, len' = len, FilterMallocFails \/ FilterReturn \/ UNCHANGED filterVars
  PROVE  FilterInv'
<1> USE DEF FilterInv
<1>1. UNCHANGED <<length, off, mem, orig, buffer, n, i, pos>> /\ Taps' = Taps
  BY DEF FilterMallocFails, FilterReturn, filterVars, Taps
<1>2. \A m : History(m)' = History(m)
  BY <1>1 DEF History
<1>3. CASE UNCHANGED filterVars
  <2>1. Outputs' = Outputs
    BY <1>3 DEF Outputs, filterVars
  <2> QED
    BY <1>1, <1>2, <1>3, <2>1
    DEF filterVars, Types, FilterTypeOK, Untouched, Cells, LineInv, Convolves, InSitu
<1>4. CASE FilterMallocFails \/ FilterReturn
  <2>1. fir' = "done" /\ fir \in {"idle", "turn"} /\ Outputs' = Outputs /\ ret' \in {-1, ret}
    BY <1>1, <1>4 DEF FilterMallocFails, FilterReturn, Outputs
  <2>2. ret' = -1 => mem = orig
    BY <1>4 DEF FilterMallocFails, FilterReturn
  <2> QED
    BY <1>1, <1>2, <2>1, <2>2
    DEF Types, FilterTypeOK, Untouched, Cells, LineInv, Convolves, InSitu
<1> QED
  BY <1>3, <1>4
-----------------------------------------------------------------------------
(* The design *)

LEMMA HalfIs ==
  ASSUME len \in Nat \ {0}
  PROVE  /\ half \in Nat /\ 2 * half <= len /\ len <= 2 * half + 1 /\ half \in Taps
         /\ len % 2 = 1 <=> len = 2 * half + 1
<1>1. len = 2 * (len \div 2) + (len % 2) /\ len % 2 \in {0, 1} /\ len \div 2 \in Nat
  BY SMT
<1> QED
  BY <1>1, SMT DEF half, Taps

LEMMA ArmIs ==
  ASSUME len \in Nat \ {0}, NEW k \in Taps
  PROVE  /\ k \in Nat /\ k <= len - 1 /\ len - 1 - k \in Taps /\ Arm(k) \in Nat
         /\ Arm(len - 1 - k) = Arm(k)
         /\ ((Arm(k) = k /\ k <= len - 1 - k) \/ (Arm(k) = len - 1 - k /\ len - 1 - k <= k))
<1>1. k \in Nat /\ k <= len - 1 /\ len \in Nat
  BY SMT DEF Taps
<1>2. len - 1 - k \in Taps /\ len - 1 - (len - 1 - k) = k
  BY <1>1, SMT DEF Taps
<1>3. CASE k < len - 1 - k
  BY <1>1, <1>2, <1>3, SMT DEF Arm
<1>4. CASE ~(k < len - 1 - k)
  BY <1>1, <1>2, <1>4, SMT DEF Arm
<1> QED
  BY <1>3, <1>4

\* After tap turns the outer taps are set, with the centre of an odd filter.
SincPart ==
  /\ tap <= half
  /\ len % 2 = 1 => sinc[half] = half
  /\ \A k \in Taps : Arm(k) < tap => sinc[k] = Arm(k)

SincWhole == \A k \in Taps : sinc[k] = Arm(k)

\* The window's turns come from one end, those of all but Kaiser's from both.
WindowPart ==
  /\ tap <= WindowLast + 1
  /\ \A k \in Taps : k < tap \/ (window # "KAISER" /\ len - 1 - k < tap) => win[k] = WindowValue(k)

DesignInv ==
  /\ len \in 1 .. MaxTaps /\ tap \in Nat
  /\ step \in {"idle", "sinc", "window", "done"} /\ coeff \in {"null", "win"}
  /\ step # "done" => DOMAIN sinc = Taps /\ DOMAIN win = Taps /\ coeff = "null"
  /\ step = "idle" => live = {} /\ tap = 0
  /\ step = "sinc" => live = {"sinc"} /\ SincPart
  /\ step = "window" => live = {"sinc", "win"} /\ SincWhole /\ WindowPart
  /\ coeff = "win" => \A k \in Taps : win[k] = <<WindowValue(k), Arm(k)>>

LEMMA SincStartStep == ASSUME DesignInv, SincStart PROVE DesignInv'
<1>1. len \in Nat \ {0} /\ half \in Taps /\ half \in Nat /\ tap = 0
  BY HalfIs, CoeffAssumption DEF DesignInv, SincStart
<1>2. /\ step' = "sinc" /\ tap' = 0 /\ live' = {"sinc"} /\ coeff' = "null"
      /\ UNCHANGED <<window, len, win>> /\ step = "idle"
      /\ sinc' = IF len % 2 = 1 THEN [sinc EXCEPT ![half] = half] ELSE sinc
  BY DEF SincStart, DesignInv
<1>3. Taps' = Taps /\ half' = half /\ \A k \in Taps : Arm(k)' = Arm(k)
  BY <1>2 DEF Taps, half, Arm
<1>4. DOMAIN sinc' = Taps /\ (len % 2 = 1 => sinc'[half] = half)
  BY <1>1, <1>2 DEF DesignInv
<1>5. \A k \in Taps : ~(Arm(k) < 0)
  BY <1>1, ArmIs
<1>6. SincPart'
  BY <1>1, <1>2, <1>3, <1>4, <1>5 DEF SincPart
<1> QED
  BY <1>2, <1>3, <1>4, <1>6 DEF DesignInv

LEMMA SincTurnStep == ASSUME DesignInv, SincTurn PROVE DesignInv'
<1>1. /\ len \in Nat \ {0} /\ half \in Nat /\ 2 * half <= len /\ tap \in Nat /\ tap < half
      /\ half \in Taps /\ (len % 2 = 1 <=> len = 2 * half + 1)
  BY HalfIs, CoeffAssumption DEF DesignInv, SincTurn
<1>2. /\ step' = "sinc" /\ tap' = tap + 1 /\ live' = {"sinc"} /\ coeff' = "null"
      /\ UNCHANGED <<window, len, win>> /\ SincPart /\ DOMAIN sinc = Taps /\ DOMAIN win = Taps
      /\ sinc' = [sinc EXCEPT ![tap] = tap, ![len - 1 - tap] = tap]
  BY DEF SincTurn, DesignInv
<1>3. Taps' = Taps /\ half' = half /\ \A k \in Taps : Arm(k)' = Arm(k)
  BY <1>2 DEF Taps, half, Arm
<1>4. tap \in Taps /\ len - 1 - tap \in Taps
  BY <1>1 DEF Taps
<1>5. \A k \in Taps : sinc'[k] = IF k = tap \/ k = len - 1 - tap THEN tap ELSE sinc[k]
  BY <1>2, <1>4
<1>6. ASSUME NEW k \in Taps, Arm(k) < tap + 1 PROVE sinc'[k] = Arm(k)
  <2>1. k \in Nat /\ k <= len - 1 /\ Arm(k) \in Nat
        /\ ((Arm(k) = k /\ k <= len - 1 - k) \/ (Arm(k) = len - 1 - k /\ len - 1 - k <= k))
    BY <1>1, ArmIs
  <2>2. CASE k = tap \/ k = len - 1 - tap
    BY <1>1, <1>5, <2>1, <2>2
  <2>3. CASE ~(k = tap \/ k = len - 1 - tap)
    BY <1>1, <1>2, <1>5, <1>6, <2>1, <2>3 DEF SincPart
  <2> QED
    BY <2>2, <2>3
<1>7. len % 2 = 1 => sinc'[half] = half
  BY <1>1, <1>2, <1>5 DEF SincPart
<1>8. SincPart'
  BY <1>1, <1>2, <1>3, <1>6, <1>7 DEF SincPart
<1> QED
  BY <1>1, <1>2, <1>3, <1>8 DEF DesignInv

LEMMA WindowStartStep == ASSUME DesignInv, WindowStart PROVE DesignInv'
<1>1. /\ len \in Nat \ {0} /\ half \in Nat /\ len <= 2 * half + 1 /\ tap \in Nat /\ tap >= half
      /\ half \in Taps /\ (len % 2 = 1 <=> len = 2 * half + 1)
  BY HalfIs, CoeffAssumption DEF DesignInv, WindowStart
<1>2. /\ step' = "window" /\ tap' = 0 /\ live' = {"sinc", "win"} /\ coeff' = "null"
      /\ UNCHANGED <<window, len, win, sinc>> /\ SincPart /\ DOMAIN sinc = Taps /\ DOMAIN win = Taps
  BY DEF WindowStart, DesignInv
<1>3. Taps' = Taps /\ half' = half /\ (\A k \in Taps : Arm(k)' = Arm(k)) /\ WindowLast' = WindowLast
  BY <1>2 DEF Taps, half, Arm, WindowLast
<1>4. SincWhole
  <2> SUFFICES ASSUME NEW k \in Taps PROVE sinc[k] = Arm(k)
    BY DEF SincWhole
  <2>1. k \in Nat /\ k <= len - 1 /\ Arm(k) \in Nat
        /\ ((Arm(k) = k /\ k <= len - 1 - k) \/ (Arm(k) = len - 1 - k /\ len - 1 - k <= k))
    BY <1>1, ArmIs
  <2>2. CASE Arm(k) < half
    BY <1>1, <1>2, <2>1, <2>2 DEF SincPart
  <2>3. CASE ~(Arm(k) < half)
    <3>1. k = half /\ len = 2 * half + 1 /\ Arm(k) = half
      BY <1>1, <2>1, <2>3
    <3> QED
      BY <1>1, <1>2, <3>1 DEF SincPart
  <2> QED
    BY <2>2, <2>3
<1>5. WindowLast \in Nat
  BY <1>1 DEF WindowLast
<1>6. WindowPart'
  BY <1>1, <1>2, <1>3, <1>5, ArmIs DEF WindowPart
<1>7. SincWhole'
  BY <1>2, <1>3, <1>4 DEF SincWhole
<1> QED
  BY <1>1, <1>2, <1>3, <1>6, <1>7 DEF DesignInv

LEMMA WindowTurnStep == ASSUME DesignInv, WindowTurn PROVE DesignInv'
<1>1. /\ len \in Nat \ {0} /\ half \in Nat /\ len <= 2 * half + 1 /\ tap \in Nat
      /\ half \in Taps /\ tap <= WindowLast /\ half <= len - 1
  BY HalfIs, CoeffAssumption DEF DesignInv, WindowTurn, Taps
<1>2. /\ step' = "window" /\ tap' = tap + 1 /\ live' = {"sinc", "win"} /\ coeff' = "null"
      /\ UNCHANGED <<window, len, sinc>> /\ SincWhole /\ WindowPart
      /\ DOMAIN sinc = Taps /\ DOMAIN win = Taps
      /\ win' = IF window = "KAISER"
                THEN [win EXCEPT ![tap] = WindowValue(tap)]
                ELSE [win EXCEPT ![tap] = WindowValue(tap), ![len - 1 - tap] = WindowValue(tap)]
  BY DEF WindowTurn, DesignInv
<1>3. /\ Taps' = Taps /\ half' = half /\ WindowLast' = WindowLast
      /\ \A k \in Taps : Arm(k)' = Arm(k) /\ WindowValue(k)' = WindowValue(k)
  BY <1>2 DEF Taps, half, Arm, WindowLast, WindowValue
<1>4. tap \in Taps /\ len - 1 - tap \in Taps
  BY <1>1 DEF Taps, WindowLast
<1>5. WindowValue(len - 1 - tap) = WindowValue(tap)
  BY <1>1, <1>4, ArmIs DEF WindowValue
<1>6. DOMAIN win' = Taps
  BY <1>2
<1>7. ASSUME NEW k \in Taps, k < tap + 1 \/ (window # "KAISER" /\ len - 1 - k < tap + 1)
      PROVE  win'[k] = WindowValue(k)
  <2>1. k \in Nat /\ k <= len - 1
    BY <1>1, ArmIs
  <2>2. CASE k = tap
    BY <1>2, <1>4, <1>5, <2>2
  <2>3. CASE k # tap /\ window = "KAISER"
    BY <1>1, <1>2, <1>7, <2>1, <2>3 DEF WindowPart
  <2>4. CASE k # tap /\ window # "KAISER" /\ k = len - 1 - tap
    BY <1>2, <1>4, <1>5, <2>4
  <2>5. CASE k # tap /\ window # "KAISER" /\ k # len - 1 - tap
    <3>1. k < tap \/ len - 1 - k < tap
      BY <1>1, <1>7, <2>1, <2>5
    <3> QED
      BY <1>2, <2>5, <3>1 DEF WindowPart
  <2> QED
    BY <2>2, <2>3, <2>4, <2>5
<1>8. WindowPart'
  <2>1. WindowLast \in Nat
    BY <1>1 DEF WindowLast
  <2>2. tap' <= WindowLast + 1
    BY <1>1, <1>2, <2>1
  <2> QED
    BY <1>2, <1>3, <1>7, <2>2 DEF WindowPart
<1>9. SincWhole'
  BY <1>2, <1>3 DEF SincWhole
<1> QED
  BY <1>1, <1>2, <1>3, <1>6, <1>8, <1>9 DEF DesignInv

LEMMA DesignReturnStep == ASSUME DesignInv, DesignReturn PROVE DesignInv' /\ live' = {"win"}
<1>1. /\ len \in Nat \ {0} /\ half \in Nat /\ len <= 2 * half + 1 /\ tap \in Nat
      /\ tap > WindowLast
  BY HalfIs, CoeffAssumption DEF DesignInv, DesignReturn
<1>2. /\ step' = "done" /\ coeff' = "win" /\ live' = {"win"} /\ UNCHANGED <<window, len, tap, sinc>>
      /\ SincWhole /\ WindowPart /\ win' = [k \in Taps |-> <<win[k], sinc[k]>>]
  BY DEF DesignReturn, DesignInv
<1>3. Taps' = Taps /\ \A k \in Taps : Arm(k)' = Arm(k) /\ WindowValue(k)' = WindowValue(k)
  BY <1>2 DEF Taps, Arm, WindowValue
<1>4. ASSUME NEW k \in Taps PROVE win[k] = WindowValue(k)
  <2>1. k \in Nat /\ k <= len - 1
    BY <1>1, ArmIs
  <2>2. k < tap \/ (window # "KAISER" /\ len - 1 - k < tap)
    BY <1>1, <2>1 DEF WindowLast
  <2> QED
    BY <1>2, <2>2 DEF WindowPart
<1>5. \A k \in Taps : win'[k] = <<WindowValue(k), Arm(k)>>
  BY <1>2, <1>4 DEF SincWhole
<1> QED
  BY <1>2, <1>3, <1>5 DEF DesignInv

\* A refused request and a failed allocation leave nothing behind.
LEMMA DesignNullStep ==
  ASSUME DesignInv, DesignRefused \/ SincMallocFails \/ WindowFails
  PROVE  DesignInv' /\ live' = {} /\ coeff' = "null" /\ step' = "done"
  BY DEF DesignRefused, SincMallocFails, WindowFails, ReturnNull, DesignInv

-----------------------------------------------------------------------------
(* The whole use *)

\* What is allocated when, and that the filter runs only with coefficients.
UseInv ==
  /\ DesignInv /\ FilterInv
  /\ stage \in {"design", "filter", "end"}
  /\ stage = "design" => fir = "idle"
                         /\ (step = "done" => live = IF coeff = "null" THEN {} ELSE {"win"})
  /\ stage = "filter" => step = "done" /\ coeff = "win"
                         /\ live = IF fir \in {"turn", "shift"} THEN {"win", "delay"} ELSE {"win"}
  /\ ScratchFreed

LEMMA UseDesign == ASSUME UseInv, Design PROVE UseInv'
<1>1. /\ DesignNext /\ UNCHANGED <<filterVars, stage>> /\ stage = "design" /\ fir = "idle"
      /\ DesignInv /\ FilterInv
  BY DEF Design, UseInv
<1>2. len' = len
  BY <1>1 DEF DesignNext, DesignRefused, SincMallocFails, ReturnNull, SincStart, SincTurn,
              WindowStart, WindowFails, WindowTurn, DesignReturn
<1>3. FilterInv'
  BY <1>1, <1>2, RestStep
<1>4. DesignInv' /\ (step' = "done" => live' = IF coeff' = "null" THEN {} ELSE {"win"})
  <2>1. CASE SincStart
    BY <1>1, <2>1, SincStartStep DEF SincStart
  <2>2. CASE SincTurn
    BY <1>1, <2>2, SincTurnStep DEF SincTurn
  <2>3. CASE WindowStart
    BY <1>1, <2>3, WindowStartStep DEF WindowStart
  <2>4. CASE WindowTurn
    BY <1>1, <2>4, WindowTurnStep DEF WindowTurn
  <2>5. CASE DesignReturn
    BY <1>1, <2>5, DesignReturnStep DEF DesignReturn
  <2>6. CASE DesignRefused \/ SincMallocFails \/ WindowFails
    BY <1>1, <2>6, DesignNullStep
  <2> QED
    BY <1>1, <2>1, <2>2, <2>3, <2>4, <2>5, <2>6 DEF DesignNext
<1> QED
  BY <1>1, <1>3, <1>4 DEF UseInv, ScratchFreed, filterVars

\* Steps after the design leave what DesignInv is about alone.
LEMMA DesignStays ==
  ASSUME DesignInv, UNCHANGED designVars, step = "done"
  PROVE  DesignInv'
  BY DEF DesignInv, designVars, Taps, WindowValue, Arm

LEMMA UseFilter == ASSUME UseInv, Filter PROVE UseInv'
<1>1. /\ stage = "filter" /\ step = "done" /\ coeff = "win" /\ DesignInv /\ FilterInv
      /\ live = IF fir \in {"turn", "shift"} THEN {"win", "delay"} ELSE {"win"}
      /\ UNCHANGED <<designVars, stage>> /\ len' = len /\ step' = "done" /\ coeff' = "win"
  BY DEF Filter, UseInv, designVars
<1>2. DesignInv'
  BY <1>1, DesignStays
<1>3. CASE \E l \in 0 .. MaxLen, d \in - MaxLen .. MaxLen : FilterCall(l, d)
  <2>1. live' = live \cup {"delay"} /\ fir = "idle" /\ fir' = "turn"
    BY <1>3 DEF Filter, FilterCall, FilterMallocFails, FilterTurn, SumTurn, ShiftTurn, ReadNext,
                FilterReturn
  <2>2. FilterInv'
    BY <1>1, <1>3, CallStep
  <2> QED
    BY <1>1, <1>2, <2>1, <2>2 DEF UseInv, ScratchFreed
<1>4. CASE FilterMallocFails /\ UNCHANGED live
  BY <1>1, <1>2, <1>4, RestStep DEF UseInv, ScratchFreed, FilterMallocFails
<1>5. CASE FilterTurn /\ UNCHANGED live
  <2>1. FilterInv'
    BY <1>1, <1>5, SumStep, ShiftStep, ReadStep DEF FilterTurn
  <2> QED
    BY <1>1, <1>2, <1>5, <2>1 DEF UseInv, ScratchFreed, FilterTurn, SumTurn, ShiftTurn, ReadNext
<1>6. CASE FilterReturn /\ live' = live \ {"delay"}
  BY <1>1, <1>2, <1>6, RestStep DEF UseInv, ScratchFreed, FilterReturn
<1> QED
  BY <1>3, <1>4, <1>5, <1>6 DEF Filter

LEMMA UseRest == ASSUME UseInv, Designed \/ FreeCoeff \/ UNCHANGED firVars PROVE UseInv'
<1>1. UNCHANGED <<designVars, filterVars>> /\ len' = len /\ fir' = fir /\ coeff' = coeff
  BY DEF Designed, FreeCoeff, firVars, designVars, filterVars
<1>2. FilterInv'
  BY <1>1, RestStep DEF UseInv
<1>3. CASE Designed
  BY <1>1, <1>2, <1>3, DesignStays DEF Designed, UseInv, ScratchFreed, designVars, DesignInv
<1>4. CASE FreeCoeff
  BY <1>1, <1>2, <1>4, DesignStays DEF FreeCoeff, UseInv, ScratchFreed, designVars
<1>5. CASE UNCHANGED firVars
  <2>1. DesignInv'
    BY <1>5 DEF firVars, designVars, UseInv, DesignInv, SincPart, SincWhole, WindowPart, WindowLast,
                WindowValue, Arm, Taps, half
  <2> QED
    BY <1>1, <1>2, <1>5, <2>1 DEF firVars, designVars, filterVars, UseInv, ScratchFreed
<1> QED
  BY <1>3, <1>4, <1>5

LEMMA UseStep == UseInv /\ [FirNext]_firVars => UseInv'
  BY UseDesign, UseFilter, UseRest DEF FirNext

LEMMA UseInit == FirInit => UseInv
<1> SUFFICES ASSUME FirInit PROVE UseInv
  OBVIOUS
<1>1. len \in 1 .. MaxTaps /\ MaxTaps \in Nat /\ len \in Nat \ {0} /\ MaxLen \in Nat
  BY CoeffAssumption, FilterAssumption DEF FirInit, DesignInit
<1>2. DesignInv
  BY <1>1 DEF FirInit, DesignInit, DesignInv, Fresh
<1>3. PICK s \in [0 .. MaxLen -> Sample] :
        mem = [c \in Cells |-> IF c \in 0 .. MaxLen THEN s[c] ELSE Zero]
  BY DEF FirInit, FilterInit
<1>4. mem \in [Cells -> Value] /\ orig = mem
  BY <1>3, SampleAssumption, FilterAssumption DEF FirInit, FilterInit
<1>5. Types
  BY <1>1, <1>4, FilterAssumption DEF FirInit, FilterInit, Types, FilterTypeOK, Taps
<1>6. FilterInv
  BY <1>1, <1>4, <1>5 DEF FirInit, FilterInit, FilterInv, Untouched, LineInv, Convolves, Outputs
<1> QED
  BY <1>2, <1>6 DEF FirInit, DesignInit, FilterInit, UseInv, ScratchFreed
-----------------------------------------------------------------------------
\* The types of the filter and of its caller.
THEOREM FirTypes == FirSpec => []FirTypeOK
<1>1. UseInv => FirTypeOK
  <2>1. \A v : v = {"sinc"} \/ v = {"sinc", "win"} \/ v = {"win"} \/ v = {} \/ v = {"win", "delay"}
               => v \subseteq {"sinc", "win", "delay"}
    OBVIOUS
  <2> QED
    BY <2>1 DEF UseInv, DesignInv, FilterInv, Types, FirTypeOK, ScratchFreed
<1> QED
  BY <1>1, UseInit, UseStep, PTL DEF FirSpec

\* Loops over different halves set every tap, for every length (fir.c:47 and
\* :94 for the sincs, :137 to :164 and :252 for the windows).
THEOREM EveryTap == FirSpec => []TapsComplete
<1>1. UseInv => TapsComplete
  <2> SUFFICES ASSUME UseInv PROVE TapsComplete
    OBVIOUS
  <2>1. len \in Nat \ {0} /\ half \in Taps /\ tap \in Nat /\ half \in Nat
    BY HalfIs, CoeffAssumption DEF UseInv, DesignInv
  <2>2. tap <= WindowLast => tap \in Taps
    BY <2>1 DEF WindowLast, Taps
  <2> QED
    BY <2>2 DEF TapsComplete, UseInv, DesignInv
<1> QED
  BY <1>1, UseInit, UseStep, PTL DEF FirSpec

\* float_fir_filter is the convolution, in situ too, for every signal.
THEOREM FilterConvolves == FirSpec => []Convolves
<1>1. UseInv => Convolves
  BY DEF UseInv, FilterInv, Convolves
<1> QED
  BY <1>1, UseInit, UseStep, PTL DEF FirSpec

\* Nothing but the outputs is written and one sample past the signal is read.
THEOREM FilterConfined == FirSpec => []Confined
<1>1. UseInv => Confined
  <2> SUFFICES ASSUME UseInv PROVE Confined
    OBVIOUS
  <2>1. /\ Outputs \in Nat /\ Outputs <= length /\ length \in Nat /\ off \in Int
        /\ pos <= length + 1 /\ Untouched /\ (ret = -1 => mem = orig)
    BY Bounds DEF UseInv, FilterInv, Outputs
  <2>2. \A c \in Cells : c - off \in 0 .. Outputs - 1 => c - off \in 0 .. length - 1
    BY <2>1
  <2> QED
    BY <2>1, <2>2 DEF Confined, Untouched
<1> QED
  BY <1>1, UseInit, UseStep, PTL DEF FirSpec

\* No path of the design or the filter leaves a scratch buffer allocated, and none
\* that ends without coefficients leaves anything.
THEOREM ScratchReleased == FirSpec => []ScratchFreed
<1>1. UseInv => ScratchFreed
  BY DEF UseInv
<1> QED
  BY <1>1, UseInit, UseStep, PTL DEF FirSpec
-----------------------------------------------------------------------------
(* The loops end *)

\* Steps of the design, at most: the turns left of its loop, and the loops after it.
DesignLeft ==
  CASE step = "idle" -> half + len + 3
    [] step = "sinc" -> half - tap + len + 2
    [] step = "window" -> len + 1 - tap
    [] OTHER -> 0

\* Of the filter: per output a sum, a shift of the delay line and a read.
FilterLeft ==
  CASE fir = "idle" -> MaxLen * (len + 1) + 2
    [] fir = "turn" -> (length - n) * (len + 1) + 1
    [] fir = "shift" -> (length - n - 1) * (len + 1) + i + 2
    [] OTHER -> 0

UseLeft ==
  CASE stage = "design" -> DesignLeft + (MaxLen * (len + 1) + 2) + 2
    [] stage = "filter" -> FilterLeft + 1
    [] OTHER -> 0

UseInRange == UseLeft \in Nat /\ (UseLeft = 0 <=> stage = "end")
UseFalls == UseLeft' < UseLeft

LEMMA OneOutput ==
  ASSUME NEW m \in Int, NEW c \in Int
  PROVE  (m - 1) * (c + 1) = m * (c + 1) - (c + 1)
  BY SMT

LEMMA OutputsLeft ==
  ASSUME NEW m \in Nat, NEW c \in Nat
  PROVE  m * (c + 1) \in Nat
  BY SMT

LEMMA MostOutputs ==
  ASSUME NEW m \in Nat, NEW top \in Nat, m <= top, NEW c \in Nat
  PROVE  m * (c + 1) <= top * (c + 1)
  BY SMT

LEMMA DesignRange ==
  ASSUME DesignInv
  PROVE  /\ DesignLeft \in Nat /\ len \in Nat \ {0} /\ half \in Nat /\ WindowLast \in 0 .. len - 1
         /\ (step = "window" => tap <= WindowLast + 1) /\ (step = "sinc" => tap <= half)
<1>1. len \in Nat \ {0} /\ half \in Nat /\ half <= len - 1 /\ tap \in Nat
  BY HalfIs, CoeffAssumption DEF DesignInv, Taps
<1>2. WindowLast \in 0 .. len - 1
  BY <1>1 DEF WindowLast
<1>3. (step = "window" => tap <= WindowLast + 1) /\ (step = "sinc" => tap <= half)
  BY DEF DesignInv, WindowPart, SincPart
<1>4. DesignLeft \in Nat
  BY <1>1, <1>2, <1>3 DEF DesignInv, DesignLeft
<1> QED
  BY <1>1, <1>2, <1>3, <1>4

LEMMA DesignFalls ==
  ASSUME DesignInv, DesignNext
  PROVE  len' = len /\ DesignLeft' < DesignLeft /\ DesignLeft' \in Int
<1>1. /\ len \in Nat \ {0} /\ half \in Nat /\ tap \in Nat /\ WindowLast \in 0 .. len - 1
      /\ (step = "window" => tap <= WindowLast + 1) /\ (step = "sinc" => tap <= half)
  BY DesignRange DEF DesignInv
<1>2. len' = len
  BY DEF DesignNext, DesignRefused, SincMallocFails, ReturnNull, SincStart, SincTurn,
         WindowStart, WindowFails, WindowTurn, DesignReturn
<1>3. half' = half
  BY <1>2 DEF half
<1> HIDE DEF half, WindowLast
<1>4. CASE DesignRefused \/ SincMallocFails \/ WindowFails \/ DesignReturn
  BY <1>1, <1>4 DEF DesignRefused, SincMallocFails, WindowFails, DesignReturn, ReturnNull, DesignLeft
<1>5. CASE SincStart \/ SincTurn
  BY <1>1, <1>2, <1>3, <1>5 DEF SincStart, SincTurn, DesignLeft
<1>6. CASE WindowStart \/ WindowTurn
  BY <1>1, <1>2, <1>3, <1>6 DEF WindowStart, WindowTurn, DesignLeft
<1> QED
  BY <1>2, <1>4, <1>5, <1>6 DEF DesignNext

LEMMA FilterRange ==
  ASSUME FilterInv
  PROVE  /\ FilterLeft \in Nat /\ MaxLen \in Nat /\ len \in Nat \ {0} /\ MaxLen * (len + 1) \in Nat
         /\ length \in Nat /\ length <= MaxLen /\ n \in Nat /\ n <= length /\ i \in 0 .. len - 1
         /\ (fir = "shift" => n < length)
<1>1. /\ MaxLen \in Nat /\ len \in Nat \ {0} /\ length \in Nat /\ length <= MaxLen
      /\ n \in Nat /\ n <= length /\ i \in 0 .. len - 1 /\ (fir = "shift" => n < length)
  BY Bounds DEF FilterInv, Types, FilterTypeOK, Taps
<1>2. MaxLen * (len + 1) \in Nat /\ (length - n) * (len + 1) \in Nat
  BY <1>1, OutputsLeft
<1>3. fir = "shift" => (length - n - 1) * (len + 1) \in Nat
  BY <1>1, OutputsLeft
<1>4. FilterLeft \in Nat
  BY <1>1, <1>2, <1>3 DEF FilterLeft
<1> QED
  BY <1>1, <1>2, <1>4

LEMMA FilterFalls ==
  ASSUME FilterInv, Filter
  PROVE  len' = len /\ stage' = stage /\ FilterLeft' < FilterLeft /\ FilterLeft' \in Int
<1>1. /\ MaxLen \in Nat /\ len \in Nat \ {0} /\ MaxLen * (len + 1) \in Nat
      /\ length \in Nat /\ length <= MaxLen /\ n \in Nat /\ n <= length /\ i \in 0 .. len - 1
      /\ (fir = "shift" => n < length)
  BY FilterRange
<1>2. len' = len /\ stage' = stage
  BY DEF Filter, designVars
<1> DEFINE most == MaxLen * (len + 1)
           rest == (length - n) * (len + 1)
           next == (length - n - 1) * (len + 1)
           Falls == FilterLeft' < FilterLeft /\ FilterLeft' \in Int
<1>3. most \in Nat /\ rest \in Nat /\ next = rest - (len + 1)
  BY <1>1, OutputsLeft, OneOutput
<1>4. /\ fir = "idle" => FilterLeft = most + 2
      /\ fir = "turn" => FilterLeft = rest + 1
      /\ fir = "shift" => FilterLeft = next + i + 2
      /\ fir' = "done" => FilterLeft' = 0
  BY DEF FilterLeft
<1>5. ASSUME NEW r \in 0 .. MaxLen, NEW d, FilterCall(r, d) PROVE Falls
  <2> DEFINE all == r * (len + 1)
  <2>1. all \in Nat /\ all <= most
    BY <1>1, OutputsLeft, MostOutputs
  <2>2. fir = "idle" /\ FilterLeft' = (r - 0) * (len + 1) + 1 /\ r - 0 = r
    BY <1>1, <1>2, <1>5 DEF FilterCall, FilterLeft
  <2>3. FilterLeft' = all + 1
    BY <2>2
  <2> HIDE DEF all, most, rest, next, FilterLeft
  <2> QED
    BY <1>2, <1>3, <1>4, <2>1, <2>2, <2>3
<1>6. CASE SumTurn
  <2>1. fir = "turn" /\ FilterLeft' = next + (len - 1) + 2
    BY <1>2, <1>6 DEF SumTurn, FilterLeft
  <2> HIDE DEF most, rest, next, FilterLeft
  <2> QED
    BY <1>1, <1>2, <1>3, <1>4, <2>1
<1>7. CASE ShiftTurn
  <2>1. fir = "shift" /\ FilterLeft' = next + (i - 1) + 2
    BY <1>2, <1>7 DEF ShiftTurn, FilterLeft
  <2> HIDE DEF most, rest, next, FilterLeft
  <2> QED
    BY <1>1, <1>2, <1>3, <1>4, <2>1
<1>8. CASE ReadNext
  <2>1. fir = "shift" /\ i = 0 /\ FilterLeft' = (length - (n + 1)) * (len + 1) + 1
    BY <1>2, <1>8 DEF ReadNext, FilterLeft
  <2>2. length - (n + 1) = length - n - 1
    BY <1>1
  <2>3. FilterLeft' = next + 1
    BY <2>1, <2>2
  <2> HIDE DEF most, rest, next, FilterLeft
  <2> QED
    BY <1>1, <1>2, <1>3, <1>4, <2>1, <2>3
<1>9. CASE FilterReturn \/ FilterMallocFails
  <2>1. fir \in {"turn", "idle"} /\ fir' = "done"
    BY <1>9 DEF FilterReturn, FilterMallocFails
  <2> HIDE DEF most, rest, next, FilterLeft
  <2> QED
    BY <1>2, <1>3, <1>4, <2>1
<1> HIDE DEF most, rest, next, FilterLeft
<1> QED
  BY <1>2, <1>5, <1>6, <1>7, <1>8, <1>9 DEF Filter, FilterTurn

LEMMA UseLeftFalls == ASSUME UseInv, FirNext PROVE UseFalls
<1>1. /\ DesignInv /\ FilterInv /\ DesignLeft \in Nat /\ FilterLeft \in Nat
      /\ MaxLen * (len + 1) \in Nat
  BY DesignRange, FilterRange DEF UseInv
<1>2. CASE Design
  <2>1. len' = len /\ DesignLeft' < DesignLeft /\ DesignLeft' \in Int
    BY <1>1, <1>2, DesignFalls DEF Design
  <2>2. stage = "design" /\ stage' = "design"
    BY <1>2 DEF Design
  <2> HIDE DEF DesignLeft
  <2> QED
    BY <1>1, <2>1, <2>2 DEF UseFalls, UseLeft
<1>3. CASE Designed
  <2>1. /\ stage = "design" /\ fir = "idle" /\ stage' \in {"end", "filter"}
        /\ len' = len /\ fir' = fir
    BY <1>3 DEF Designed, UseInv, designVars, filterVars
  <2>2. FilterLeft' = MaxLen * (len + 1) + 2
    BY <2>1 DEF FilterLeft
  <2> HIDE DEF DesignLeft, FilterLeft
  <2> QED
    BY <1>1, <2>1, <2>2 DEF UseFalls, UseLeft
<1>4. CASE Filter
  <2>1. stage = "filter" /\ stage' = stage /\ FilterLeft' < FilterLeft /\ FilterLeft' \in Int
    BY <1>1, <1>4, FilterFalls DEF Filter
  <2> HIDE DEF FilterLeft
  <2> QED
    BY <1>1, <2>1 DEF UseFalls, UseLeft
<1>5. CASE FreeCoeff
  BY <1>1, <1>5 DEF FreeCoeff, UseFalls, UseLeft
<1> QED
  BY <1>2, <1>3, <1>4, <1>5 DEF FirNext

(***************************************************************************)
(* Design and filter end, whatever is requested and whichever allocation   *)
(* fails: each turn of the loops of fir.c:47, :94, :137-161 and :252 and   *)
(* of the nested ones of float_fir_filter (:197-206) brings the caller     *)
(* nearer to its end, the filter after length * (coeff_num + 1) + 1 steps. *)
(***************************************************************************)
THEOREM FilterEnds == FirSpec => []UseInRange /\ [][UseFalls]_firVars
<1>1. UseInv => UseInRange
  <2> SUFFICES ASSUME UseInv PROVE UseInRange
    OBVIOUS
  <2>1. DesignLeft \in Nat /\ FilterLeft \in Nat /\ MaxLen * (len + 1) \in Nat
    BY DesignRange, FilterRange DEF UseInv
  <2> HIDE DEF DesignLeft, FilterLeft
  <2> QED
    BY <2>1 DEF UseInRange, UseLeft, UseInv
<1>2. UseInv /\ [FirNext]_firVars => [UseFalls]_firVars
  BY UseLeftFalls
<1> QED
  BY <1>1, <1>2, UseInit, UseStep, PTL DEF FirSpec
=============================================================================
