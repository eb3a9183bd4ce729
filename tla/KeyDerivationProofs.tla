------------------------ MODULE KeyDerivationProofs -------------------------
(***************************************************************************)
(* Proofs about the key-derivation PRF of src/vpn/crypto.go: the type      *)
(* invariant of the pHash loop and the RFC 2246 split of the secret, for  *)
(* every digest size, secret length and output length.  That the output    *)
(* equals the RFC's PRF (PrfMatchesRFC) is an induction over the loop and  *)
(* over the recursive A(i), and stays with TLC.                            *)
(***************************************************************************)
EXTENDS KeyDerivation, SequenceTheorems, TLAPS

(* The facts about the digest sizes every step below uses.                 *)
LEMMA SizeFacts ==
    /\ MD5Len \in Nat \ {0} /\ SHA1Len \in Nat \ {0}
    /\ MD5Len <= SHA1Len
    /\ MaxOut \in Nat /\ MaxSecret \in Nat
    /\ \A h \in Hashes : HashLen(h) \in Nat \ {0}
BY KeyDerivationAssumption DEF Hashes, HashLen

-----------------------------------------------------------------------------
(* splitPreMasterSecret against the RFC.                                   *)

(* secret[0:(n+1)/2] is the RFC's S1, the first ceil(n/2) bytes.           *)
LEMMA SplitFirstIsS1 ==
    ASSUME NEW sec \in Seq(Nat)
    PROVE  SplitFirst(sec) = RFCS1(sec)
<1> DEFINE half == RFCHalf(sec)
<1>1. half \in Nat /\ half <= Len(sec)
  BY DEF RFCHalf
<1>2. /\ SubSeq(sec, 1, half) \in Seq(Nat)
      /\ Len(SubSeq(sec, 1, half)) = half
      /\ \A i \in 1..half : SubSeq(sec, 1, half)[i] = sec[i]
  <2>1. \A i \in 1..half : sec[i] \in Nat
    BY <1>1
  <2>2. QED
    BY <1>1, <2>1, SubSeqProperties
<1>3. RFCS1(sec) \in Seq(Nat) /\ Len(RFCS1(sec)) = half
  <2>1. RFCS1(sec) \in [1..half -> Nat]
    BY <1>1 DEF RFCS1
  <2>2. QED
    BY <1>1, <2>1
<1>4. \A i \in 1..half : RFCS1(sec)[i] = sec[i]
  BY DEF RFCS1
<1>5. QED
  BY <1>2, <1>3, <1>4, SeqEqual DEF SplitFirst, RFCHalf

(* secret[n/2:] is the RFC's S2, the last ceil(n/2) bytes: for an odd n   *)
(* it starts at the middle byte, which S1 ends with.                       *)
LEMMA SplitSecondIsS2 ==
    ASSUME NEW sec \in Seq(Nat)
    PROVE  SplitSecond(sec) = RFCS2(sec)
<1> DEFINE half == RFCHalf(sec)
           m == (Len(sec) \div 2) + 1
<1>1. /\ half \in Nat /\ half <= Len(sec)
      /\ m \in Nat /\ Len(sec) - m + 1 = half
      /\ Len(sec) - half = m - 1
  BY DEF RFCHalf
<1>2. /\ SubSeq(sec, m, Len(sec)) \in Seq(Nat)
      /\ Len(SubSeq(sec, m, Len(sec))) = half
      /\ \A i \in 1..half : SubSeq(sec, m, Len(sec))[i] = sec[m + i - 1]
  <2>1. \A i \in m..Len(sec) : sec[i] \in Nat
    BY <1>1
  <2>2. QED
    BY <1>1, <2>1, SubSeqProperties
<1>3. RFCS2(sec) \in Seq(Nat) /\ Len(RFCS2(sec)) = half
  <2>1. \A i \in 1..half : Len(sec) - half + i \in 1..Len(sec)
    BY <1>1
  <2>2. RFCS2(sec) \in [1..half -> Nat]
    BY <1>1, <2>1 DEF RFCS2
  <2>3. QED
    BY <1>1, <2>2
<1>4. \A i \in 1..half : RFCS2(sec)[i] = sec[m + i - 1]
  BY <1>1 DEF RFCS2
<1>5. QED
  BY <1>2, <1>3, <1>4, SeqEqual DEF SplitSecond

-----------------------------------------------------------------------------
(* The inductive invariant.  TypeOK alone is not inductive: the EXCEPTs on *)
(* out need its domain, and SplitAsRFC needs the secret to be a sequence.  *)
IInv ==
    /\ TypeOK
    /\ DOMAIN out = Hashes
    /\ secret \in Seq(Nat)
    /\ SplitAsRFC

(* A function on 1..n is a sequence of length n.                           *)
LEMMA LenOfDomain ==
    ASSUME NEW f, NEW n \in Nat, DOMAIN f = 1..n
    PROVE  Len(f) = n
OBVIOUS

(* The length of an output buffer is 0 or olen.                            *)
LEMMA OutLen ==
    ASSUME TypeOK, NEW h \in Hashes
    PROVE  Len(out[h]) \in {0, olen} /\ DOMAIN out[h] = 1..Len(out[h])
<1>1. olen \in Nat
  BY SizeFacts DEF TypeOK
<1>2. CASE DOMAIN out[h] = 1..0
  BY <1>2, LenOfDomain
<1>3. CASE DOMAIN out[h] = 1..olen
  BY <1>1, <1>3, LenOfDomain
<1>4. QED
  BY <1>2, <1>3 DEF TypeOK

LEMMA InitIInv == Init => IInv
<1> SUFFICES ASSUME Init PROVE IInv
  OBVIOUS
<1>1. PICK n \in 0..MaxSecret : secret = [i \in 1..n |-> i]
  BY DEF Init
<1>2. secret \in Seq(Nat)
  <2>1. secret \in [1..n -> Nat]
    BY <1>1, SizeFacts
  <2>2. QED
    BY <2>1, SizeFacts
<1>3. TypeOK
  BY SizeFacts DEF Init, TypeOK, Hashes, HashLen
<1>4. QED
  BY <1>2, <1>3 DEF Init, IInv, SplitAsRFC, Hashes

(* Prf makes result of length olen and splits the secret as the RFC does.  *)
LEMMA PrfIInv == IInv /\ Prf => IInv'
<1> SUFFICES ASSUME IInv, Prf PROVE IInv'
  OBVIOUS
<1>1. TypeOK'
  <2>1. DOMAIN out'["md5"] = 1..olen /\ out'["sha1"] = out["sha1"]
    BY DEF Prf, Zeros, IInv, Hashes
  <2>2. QED
    BY <2>1, SizeFacts DEF Prf, IInv, TypeOK, Hashes, HashLen, inputs
<1>2. SplitAsRFC'
  BY SplitFirstIsS1, SplitSecondIsS2 DEF Prf, IInv, SplitAsRFC, inputs
<1>3. QED
  BY <1>1, <1>2 DEF Prf, IInv, inputs

(* PHashStart restarts j at 0 for the pass about to run.                   *)
LEMMA StartIInv == IInv /\ PHashStart => IInv'
<1> SUFFICES ASSUME IInv, PHashStart PROVE IInv'
  OBVIOUS
<1>1. TypeOK'
  BY SizeFacts DEF PHashStart, IInv, TypeOK, inputs
<1>2. QED
  BY <1>1 DEF PHashStart, IInv, SplitAsRFC, inputs

(* A turn of the loop starts below the length of the buffer and moves j   *)
(* on by one digest; the copy keeps the buffer's length.                   *)
LEMMA IterIInv == IInv /\ PHashIter => IInv'
<1> SUFFICES ASSUME IInv, PHashIter PROVE IInv'
  OBVIOUS
<1> DEFINE b == Mac(ph, hkey, a \o las)
<1>1. /\ ph \in Hashes /\ olen \in Nat /\ j \in Nat
      /\ Len(out[ph]) \in {0, olen} /\ DOMAIN out[ph] = 1..Len(out[ph])
  BY OutLen, SizeFacts DEF IInv, TypeOK
<1>2. Len(b) = HashLen(ph)
  BY <1>1, SizeFacts, LenOfDomain DEF Mac
<1>3. j' \in 0..(olen + HashLen(ph'))
  BY <1>1, <1>2, SizeFacts DEF PHashIter
<1>4. DOMAIN out'[ph] = DOMAIN out[ph]
  BY <1>1 DEF PHashIter, IInv, CopyAt
<1>5. \A h \in Hashes : DOMAIN out'[h] \in {1..0, 1..olen}
  BY <1>1, <1>4 DEF PHashIter, IInv, TypeOK, inputs
<1>6. TypeOK'
  BY <1>3, <1>5 DEF PHashIter, IInv, TypeOK, inputs
<1>7. QED
  BY <1>6 DEF PHashIter, IInv, SplitAsRFC, inputs

(* The end of the MD5 pass hands j, at most olen plus an MD5 digest, to  *)
(* the SHA-1 pass, whose digest is no shorter; result2 gets result's       *)
(* length.                                                                 *)
LEMMA DoneIInv == IInv /\ PHashDone => IInv'
<1> SUFFICES ASSUME IInv, PHashDone PROVE IInv'
  OBVIOUS
<1>1. /\ olen \in Nat /\ Len(out["md5"]) \in {0, olen}
  BY OutLen, SizeFacts DEF IInv, TypeOK, Hashes
<1>2. CASE ph = "md5"
  <2>1. j' \in 0..(olen + HashLen(ph'))
    BY <1>2, SizeFacts DEF PHashDone, IInv, TypeOK, HashLen, Hashes
  <2>2. DOMAIN out'["sha1"] \in {1..0, 1..olen} /\ out'["md5"] = out["md5"]
    BY <1>1, <1>2 DEF PHashDone, Zeros, IInv, Hashes
  <2>3. TypeOK'
    BY <1>2, <2>1, <2>2 DEF PHashDone, IInv, TypeOK, Hashes, inputs
  <2>4. QED
    BY <2>3 DEF PHashDone, IInv, SplitAsRFC, inputs
<1>3. CASE ph # "md5"
  BY <1>3 DEF PHashDone, IInv, TypeOK, SplitAsRFC, inputs
<1>4. QED
  BY <1>2, <1>3

(* The XOR writes into result, of the length it had.                       *)
LEMMA XorIInv == IInv /\ XorOut => IInv'
<1> SUFFICES ASSUME IInv, XorOut PROVE IInv'
  OBVIOUS
<1>1. /\ olen \in Nat /\ Len(out["md5"]) \in {0, olen}
  BY OutLen, SizeFacts DEF IInv, TypeOK, Hashes
<1>2. DOMAIN out'["md5"] \in {1..0, 1..olen} /\ out'["sha1"] = out["sha1"]
  BY <1>1 DEF XorOut, IInv, Hashes
<1>3. TypeOK'
  BY <1>2 DEF XorOut, IInv, TypeOK, Hashes, inputs
<1>4. QED
  BY <1>3 DEF XorOut, IInv, SplitAsRFC, inputs

LEMMA NextIInv == IInv /\ [Next]_vars => IInv'
<1> SUFFICES ASSUME IInv, [Next]_vars PROVE IInv'
  OBVIOUS
<1>1. CASE UNCHANGED vars
  BY <1>1 DEF vars, IInv, TypeOK, SplitAsRFC
<1>2. QED
  BY <1>1, PrfIInv, StartIInv, IterIInv, DoneIInv, XorIInv DEF Next

(* The counters and buffers of prf and pHash keep their types in every    *)
(* state: j never runs past olen plus one digest, through both passes.     *)
THEOREM TypeCorrect == Spec => []TypeOK
<1>1. IInv => TypeOK
  BY DEF IInv
<1>2. QED
  BY InitIInv, NextIInv, <1>1, PTL DEF Spec

(* For every secret length, prf10 keys the two pHash calls with the RFC's  *)
(* S1 and S2 (an odd length shares the middle byte).                       *)
THEOREM SplitAsRFCHolds == Spec => []SplitAsRFC
<1>1. IInv => SplitAsRFC
  BY DEF IInv
<1>2. QED
  BY InitIInv, NextIInv, <1>1, PTL DEF Spec

====
