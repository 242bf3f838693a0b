-------------------------- MODULE HaClient_proofs --------------------------
(***************************************************************************)
(* The buffer of the HTTP client, for every size of the buffer and of the  *)
(* pieces a response comes in.                                             *)
(***************************************************************************)
EXTENDS HaClient, TLAPS

(* The copy of a piece fits, and brings the length to the bytes received   *)
(* or to the end of the buffer.                                            *)
LEMMA CopiedFits ==
    ASSUME HaClientAssumption, TypeOK, NEW n \in Nat
    PROVE  /\ Copied(n) \in 0 .. n
           /\ len + Copied(n) \in 0 .. Cap - 1
           /\ len + Copied(n) = IF len + n < Cap THEN len + n ELSE Cap - 1
BY DEF HaClientAssumption, TypeOK, Copied, Remaining

(* Every variable keeps its type; in particular nothing is written past    *)
(* the end of the buffer.                                                  *)
LEMMA TypeOKNext ==
    ASSUME HaClientAssumption, TypeOK, [Next]_vars
    PROVE  TypeOK'
<1> USE DEF HaClientAssumption
<1>1. CASE Get
  BY <1>1 DEF TypeOK, Get, Nul
<1>2. CASE Post
  BY <1>2 DEF TypeOK, Post, Nul
<1>3. CASE Return
  BY <1>3 DEF TypeOK, Return, Failed
<1>4. ASSUME NEW n \in ChunkSizes, OnData(n)
      PROVE  TypeOK'
  <2>1. n \in Nat
    OBVIOUS
  <2>2. /\ Copied(n) \in Int
        /\ len + Copied(n) \in 0 .. Cap - 1
    BY <2>1, CopiedFits
  <2>3. Filled(Copied(n)) \in [0 .. Cap - 1 -> Int]
    BY <2>2 DEF TypeOK, Filled, Nul
  <2>4. received + n \in 0 .. MaxBody
    BY <1>4, <2>1 DEF TypeOK, OnData
  <2> QED
    BY <1>4, <2>2, <2>3, <2>4 DEF TypeOK, OnData
<1>5. CASE UNCHANGED vars
  BY <1>5 DEF TypeOK, vars
<1> QED
  BY <1>1, <1>2, <1>3, <1>4, <1>5 DEF Next

LEMMA TypeOKInit ==
    ASSUME HaClientAssumption, Init
    PROVE  TypeOK
BY DEF HaClientAssumption, Init, TypeOK, Junk

(* The type invariant: http_event_handler never writes past the buffer.    *)
THEOREM NeverOverruns == Spec => []TypeOK
<1>1. Init => TypeOK
  BY HaClientAssumption, TypeOKInit
<1>2. TypeOK /\ [Next]_vars => TypeOK'
  BY HaClientAssumption, TypeOKNext
<1> QED
  BY <1>1, <1>2, PTL DEF Spec

-----------------------------------------------------------------------------
(* A piece appended to a prefix makes a longer prefix. *)
LEMMA PrefixNext ==
    ASSUME HaClientAssumption, TypeOK, BodyIsPrefix, [Next]_vars
    PROVE  BodyIsPrefix'
<1> USE DEF HaClientAssumption
<1>1. CASE Get
  BY <1>1 DEF TypeOK, Get, BodyIsPrefix
<1>2. CASE Post
  BY <1>2 DEF TypeOK, Post, BodyIsPrefix
<1>3. CASE Return
  BY <1>3 DEF BodyIsPrefix, Return
<1>4. ASSUME NEW n \in ChunkSizes, OnData(n)
      PROVE  BodyIsPrefix'
  <2>1. n \in Nat
    OBVIOUS
  <2>2. /\ Copied(n) \in 0 .. n
        /\ len + Copied(n) \in 0 .. Cap - 1
        /\ len + Copied(n) = IF len + n < Cap THEN len + n ELSE Cap - 1
    BY <2>1, CopiedFits
  <2>3. /\ len = IF received < Cap THEN received ELSE Cap - 1
        /\ \A i \in 0 .. len - 1 : buf[i] = i
        /\ buf[len] = Nul
        /\ received' = received + n
    BY <1>4 DEF OnData, BodyIsPrefix
  <2>4. CASE Copied(n) > 0
    <3>1. buf' = Filled(Copied(n)) /\ len' = len + Copied(n)
      BY <1>4, <2>4 DEF OnData
    <3>2. len = received
      BY <2>2, <2>3, <2>4 DEF TypeOK
    <3>3. len' = IF received' < Cap THEN received' ELSE Cap - 1
      BY <2>1, <2>2, <2>3, <3>1, <3>2 DEF TypeOK
    <3>4. ASSUME NEW i \in 0 .. len' - 1
          PROVE  buf'[i] = i
      <4>1. /\ i \in 0 .. Cap - 1
            /\ i \in 0 .. len - 1 \/ i \in len .. len + Copied(n) - 1
            /\ i # len + Copied(n)
        <5>1. len' = len + Copied(n)
          BY <3>1
        <5>2. /\ len \in Nat /\ Copied(n) \in Nat /\ Cap \in Nat
              /\ len + Copied(n) <= Cap - 1
          BY <2>2 DEF TypeOK
        <5> QED
          BY <5>1, <5>2
      <4>2. CASE i \in 0 .. len - 1
        BY <2>3, <3>1, <4>1, <4>2 DEF Filled, TypeOK
      <4>3. CASE i \in len .. len + Copied(n) - 1
        BY <3>1, <3>2, <4>1, <4>3 DEF Filled, TypeOK
      <4> QED
        BY <4>1, <4>2, <4>3
    <3>5. buf'[len'] = Nul
      BY <2>2, <3>1 DEF Filled, TypeOK
    <3> QED
      BY <3>3, <3>4, <3>5 DEF BodyIsPrefix
  <2>5. CASE ~ (Copied(n) > 0)
    <3>1. UNCHANGED <<buf, len>>
      BY <1>4, <2>5 DEF OnData
    <3>2. Copied(n) = 0
      BY <2>2, <2>5
    <3>3. len' = IF received' < Cap THEN received' ELSE Cap - 1
      BY <2>1, <2>2, <2>3, <3>1, <3>2 DEF TypeOK
    <3> QED
      BY <2>3, <3>1, <3>3 DEF BodyIsPrefix
  <2> QED
    BY <2>4, <2>5
<1>5. CASE UNCHANGED vars
  BY <1>5 DEF BodyIsPrefix, vars
<1> QED
  BY <1>1, <1>2, <1>3, <1>4, <1>5 DEF Next

(* The buffer holds the beginning of the response, whatever its size and   *)
(* that of the pieces.                                                     *)
THEOREM BufferHoldsPrefix == Spec => []BodyIsPrefix
<1>1. Init => BodyIsPrefix
  BY DEF Init, BodyIsPrefix
<1>2. TypeOK /\ BodyIsPrefix /\ [Next]_vars => BodyIsPrefix'
  BY HaClientAssumption, PrefixNext
<1>3. Spec => []TypeOK
  BY NeverOverruns
<1> QED
  BY <1>1, <1>2, <1>3, PTL DEF Spec
=============================================================================
