--------------------------- MODULE EncFile_proofs ---------------------------
(***************************************************************************)
(* For any number of clients, any alphabet, files, keys and size of the    *)
(* buffer: the types, that a client which says it has its file has the     *)
(* encryption of what its user typed, and that a client's No is harmless.  *)
(***************************************************************************)
EXTENDS EncFileInv, SequenceTheorems, TLAPS

-----------------------------------------------------------------------------
(* Parts of sequences.                                                     *)

LEMMA PartFacts ==
  ASSUME NEW S, NEW s \in Seq(S), NEW n \in Nat, NEW m \in n .. Len(s)
  PROVE  /\ SubSeq(s, n + 1, m) \in Seq(S)
         /\ Len(SubSeq(s, n + 1, m)) = m - n
         /\ \A i \in 1 .. m - n : SubSeq(s, n + 1, m)[i] = s[n + i]
<1>1. m \in Nat /\ n <= m /\ m <= Len(s) /\ Len(s) \in Nat
  BY LenProperties
<1>2. \A i \in n + 1 .. m : s[i] \in S
  BY <1>1, ElementOfSeq
<1>3. /\ SubSeq(s, n + 1, m) \in Seq(S)
      /\ Len(SubSeq(s, n + 1, m)) = IF n + 1 <= m THEN m - (n + 1) + 1 ELSE 0
      /\ \A i \in 1 .. m - (n + 1) + 1 : SubSeq(s, n + 1, m)[i] = s[n + 1 + i - 1]
  BY <1>1, <1>2, SubSeqProperties
<1>4. \A i \in 1 .. m - n : n + 1 + i - 1 = n + i
  BY <1>1
<1> QED
  BY <1>1, <1>3, <1>4

(* The beginning of a part and what is left of it are parts.               *)
LEMMA PartOfPart ==
  ASSUME NEW S, NEW s \in Seq(S), NEW n \in Nat, NEW m \in n .. Len(s), NEW k \in 0 .. m - n
  PROVE  LET w == SubSeq(s, n + 1, m) IN
         /\ SubSeq(w, 1, k) = SubSeq(s, n + 1, n + k)
         /\ SubSeq(w, k + 1, Len(w)) = SubSeq(s, n + k + 1, m)
<1> DEFINE w == SubSeq(s, n + 1, m)
           p == SubSeq(w, 0 + 1, k)
           q == SubSeq(s, n + 1, n + k)
           r == SubSeq(w, k + 1, m - n)
           t == SubSeq(s, (n + k) + 1, m)
<1>0. /\ n \in Nat /\ m \in Nat /\ k \in Nat /\ k <= m - n /\ n <= m /\ m <= Len(s) /\ Len(s) \in Nat
  BY LenProperties
<1>1. w \in Seq(S) /\ Len(w) = m - n /\ \A i \in 1 .. m - n : w[i] = s[n + i]
  BY PartFacts
<1> HIDE DEF w
<1>2. p \in Seq(S) /\ Len(p) = k - 0 /\ \A i \in 1 .. k - 0 : p[i] = w[0 + i]
  <2>1. 0 \in Nat /\ k \in 0 .. Len(w)
    BY <1>0, <1>1
  <2> QED
    BY <2>1, <1>1, PartFacts
<1>3. q \in Seq(S) /\ Len(q) = n + k - n /\ \A i \in 1 .. n + k - n : q[i] = s[n + i]
  <2>1. n + k \in n .. Len(s)
    BY <1>0
  <2> QED
    BY <2>1, PartFacts
<1>4. r \in Seq(S) /\ Len(r) = m - n - k /\ \A i \in 1 .. m - n - k : r[i] = w[k + i]
  <2>1. m - n \in k .. Len(w) /\ k \in Nat
    BY <1>0, <1>1
  <2> QED
    BY <2>1, <1>1, PartFacts
<1>5. t \in Seq(S) /\ Len(t) = m - (n + k) /\ \A i \in 1 .. m - (n + k) : t[i] = s[n + k + i]
  <2>1. n + k \in Nat /\ m \in (n + k) .. Len(s)
    BY <1>0
  <2> QED
    BY <2>1, PartFacts
<1> HIDE DEF p, q, r, t
<1>6. p = q
  <2>1. Len(p) = k /\ Len(q) = k
    BY <1>2, <1>3, <1>0
  <2>2. \A i \in 1 .. k : p[i] = w[i] /\ q[i] = s[n + i] /\ i \in 1 .. m - n
    BY <1>2, <1>3, <1>0
  <2>3. \A i \in 1 .. Len(p) : p[i] = q[i]
    BY <2>1, <2>2, <1>1
  <2> QED
    BY <2>1, <2>3, <1>2, <1>3, SeqEqual
<1>7. r = t
  <2>1. Len(r) = m - n - k /\ Len(t) = m - n - k
    BY <1>4, <1>5, <1>0
  <2>2. \A i \in 1 .. m - n - k : r[i] = w[k + i] /\ t[i] = s[n + k + i] /\ k + i \in 1 .. m - n
    BY <1>4, <1>5, <1>0
  <2>3. \A i \in 1 .. m - n - k : w[k + i] = s[n + (k + i)] /\ n + (k + i) = n + k + i
    BY <2>2, <1>1, <1>0
  <2>4. \A i \in 1 .. Len(r) : r[i] = t[i]
    BY <2>1, <2>2, <2>3
  <2> QED
    BY <2>1, <2>4, <1>4, <1>5, SeqEqual
<1>8. 0 + 1 = 1 /\ Len(w) = m - n
  BY <1>1
<1> QED
  BY <1>6, <1>7, <1>8 DEF p, q, r, t, w

(* What recv gives, and what it leaves.                                    *)
LEMMA PieceFacts ==
  ASSUME NEW S, NEW s \in Seq(S), NEW n \in Nat, NEW piece \in Pieces(s, n)
  PROVE  /\ piece \in Seq(S) /\ Rest(s, piece) \in Seq(S)
         /\ Len(piece) \in 1 .. n /\ Len(piece) <= Len(s) /\ s # <<>>
         /\ piece = SubSeq(s, 1, Len(piece))
<1>1. PICK k \in {j \in 1 .. n : j <= Len(s)} : piece = SubSeq(s, 1, k)
  BY DEF Pieces
<1>2. k \in 1 .. n /\ k \in 0 .. Len(s) /\ 0 \in Nat /\ k - 0 = k /\ Len(s) \in Nat
  BY <1>1, LenProperties
<1>3. piece = SubSeq(s, 0 + 1, k) /\ piece \in Seq(S) /\ Len(piece) = k
  BY <1>1, <1>2, PartFacts
<1>4. Len(s) \in k .. Len(s) /\ k \in Nat
  BY <1>2
<1>5. SubSeq(s, k + 1, Len(s)) \in Seq(S)
  BY <1>4, PartFacts
<1>6. s # <<>>
  BY <1>1, <1>2, EmptySeq
<1> QED
  BY <1>1, <1>2, <1>3, <1>5, <1>6 DEF Rest

(* The part of a piece before the marker.                                  *)
LEMMA BeforeFacts ==
  ASSUME NEW S, NEW piece \in Seq(S)
  PROVE  /\ Before(piece) \in Seq(S)
         /\ ~Ends(piece) => Before(piece) = piece
         /\ Ends(piece) => \E i \in MarkedAt(piece) : Before(piece) = SubSeq(piece, 1, i - 1)
<1>1. CASE ~Ends(piece)
  BY <1>1 DEF Before
<1>2. CASE Ends(piece)
  <2> DEFINE i == CHOOSE j \in MarkedAt(piece) : TRUE
  <2>1. i \in MarkedAt(piece)
    BY <1>2 DEF Ends
  <2>2. Before(piece) = SubSeq(piece, 1, i - 1)
    BY <1>2 DEF Before
  <2>3. i \in 1 .. Len(piece) - 1
    BY <2>1 DEF MarkedAt
  <2> HIDE DEF i
  <2>4. i - 1 \in 0 .. Len(piece) /\ 0 \in Nat
    BY <2>3, LenProperties
  <2>5. SubSeq(piece, 0 + 1, i - 1) \in Seq(S)
    BY <2>4, PartFacts
  <2> QED
    BY <1>2, <2>1, <2>2, <2>5
<1> QED
  BY <1>1, <1>2

-----------------------------------------------------------------------------
(* The encryption of a file, and the lines it is sent in.                  *)
LEMMA EncryptionFacts ==
  ASSUME NEW k \in Seq(Symbols), NEW f \in Seq(Symbols)
  PROVE  /\ Encryption(k, f) \in Seq(Symbols \cup {Nul})
         /\ Len(Encryption(k, f)) = Len(f)
         /\ \A i \in 1 .. Len(f) : Encryption(k, f)[i] = Substitute(k, f[i])
<1>1. \A x \in Symbols : Substitute(k, x) \in Symbols \cup {Nul}
  <2> TAKE x \in Symbols
  <2>1. CASE x \notin Letters
    BY <2>1 DEF Substitute
  <2>2. CASE x \in Letters
    <3> DEFINE j == CHOOSE j \in DOMAIN Alphabet : Alphabet[j] = x
    <3>1. j \in DOMAIN Alphabet
      BY <2>2 DEF Letters
    <3>2. DOMAIN Alphabet = 1 .. Len(Alphabet)
      BY EncFileAssumption
    <3>3. Substitute(k, x) = IF j <= Len(k) THEN k[j] ELSE Nul
      BY <2>2 DEF Substitute
    <3> HIDE DEF j
    <3>4. j <= Len(k) => j \in 1 .. Len(k)
      BY <3>1, <3>2
    <3>5. j <= Len(k) => k[j] \in Symbols
      BY <3>4, ElementOfSeq
    <3> QED
      BY <3>3, <3>5
  <2> QED
    BY <2>1, <2>2
<1>2. DOMAIN f = 1 .. Len(f) /\ Len(f) \in Nat
  BY LenProperties
<1>3. \A i \in 1 .. Len(f) : f[i] \in Symbols
  BY ElementOfSeq
<1>4. Encryption(k, f) = [i \in 1 .. Len(f) |-> Substitute(k, f[i])]
  BY <1>2 DEF Encryption
<1>5. \A i \in 1 .. Len(f) : Substitute(k, f[i]) \in Symbols \cup {Nul}
  BY <1>1, <1>3
<1> HIDE DEF Nul
<1>6. Encryption(k, f) \in [1 .. Len(f) -> Symbols \cup {Nul}]
  BY <1>4, <1>5
<1>7. Encryption(k, f) \in Seq(Symbols \cup {Nul})
  BY <1>2, <1>6
<1>8. DOMAIN Encryption(k, f) = 1 .. Len(f)
  BY <1>4
<1>9. Len(Encryption(k, f)) = Len(f)
  BY <1>2, <1>7, <1>8, LenProperties
<1> QED
  BY <1>4, <1>7, <1>9

LEMMA LinesFacts ==
  ASSUME NEW S, NEW f \in Seq(S \cup {Nul})
  PROVE  /\ Lines(f) \in Seq(Seq(S)) /\ Len(Lines(f)) = Len(f)
         /\ \A i \in 1 .. Len(f) : Lines(f)[i] = IF f[i] = Nul THEN <<>> ELSE <<f[i]>>
<1>1. DOMAIN f = 1 .. Len(f) /\ Len(f) \in Nat
  BY LenProperties
<1>2. \A i \in 1 .. Len(f) : f[i] \in S \cup {Nul}
  BY ElementOfSeq
<1> HIDE DEF Nul
<1>3. \A x \in S \cup {Nul} : (IF x = Nul THEN <<>> ELSE <<x>>) \in Seq(S)
  OBVIOUS
<1>4. Lines(f) = [i \in 1 .. Len(f) |-> IF f[i] = Nul THEN <<>> ELSE <<f[i]>>]
  BY <1>1 DEF Lines
<1>5. Lines(f) \in [1 .. Len(f) -> Seq(S)]
  BY <1>2, <1>3, <1>4
<1>6. Lines(f) \in Seq(Seq(S)) /\ DOMAIN Lines(f) = 1 .. Len(f)
  BY <1>1, <1>5
<1>7. Len(Lines(f)) = Len(f)
  BY <1>1, <1>6, LenProperties
<1> QED
  BY <1>4, <1>6, <1>7

LEMMA SymbolsFacts ==
  /\ Letters \subseteq Symbols
  /\ Marker \in Seq(Symbols) /\ Yes \in Seq(Symbols) /\ No \in Seq(Symbols)
  /\ Len(Marker) = 2 /\ Len(Yes) = 2 /\ Len(No) = 2
BY DEF Symbols, Marker, Yes, No

(* What is where in sequences that are put together.                       *)
LEMMA TwoParts ==
  ASSUME NEW S, NEW s \in Seq(S), NEW t \in Seq(S)
  PROVE  /\ s \o t \in Seq(S) /\ Len(s \o t) = Len(s) + Len(t)
         /\ Len(s) \in Nat /\ Len(t) \in Nat
         /\ \A i \in 1 .. Len(s) : (s \o t)[i] = s[i]
         /\ \A i \in 1 .. Len(t) : (s \o t)[Len(s) + i] = t[i]
<1>1. /\ s \o t \in Seq(S) /\ Len(s \o t) = Len(s) + Len(t)
      /\ \A i \in 1 .. Len(s) + Len(t) : (s \o t)[i] = IF i <= Len(s) THEN s[i] ELSE t[i - Len(s)]
  BY ConcatProperties
<1>2. Len(s) \in Nat /\ Len(t) \in Nat
  BY LenProperties
<1>3. \A i \in 1 .. Len(s) : (s \o t)[i] = s[i]
  BY <1>1, <1>2
<1>4. ASSUME NEW i \in 1 .. Len(t) PROVE (s \o t)[Len(s) + i] = t[i]
  <2>1. Len(s) + i \in 1 .. Len(s) + Len(t) /\ ~(Len(s) + i <= Len(s)) /\ Len(s) + i - Len(s) = i
    BY <1>2
  <2> QED
    BY <1>1, <2>1
<1> QED
  BY <1>1, <1>2, <1>3, <1>4

LEMMA ThreeParts ==
  ASSUME NEW S, NEW s \in Seq(S), NEW t \in Seq(S), NEW u \in Seq(S), NEW w, w = s \o t \o u
  PROVE  /\ w \in Seq(S) /\ Len(w) = Len(s) + Len(t) + Len(u)
         /\ Len(s) \in Nat /\ Len(t) \in Nat /\ Len(u) \in Nat
         /\ \A i \in 1 .. Len(s) : w[i] = s[i]
         /\ \A i \in 1 .. Len(t) : w[Len(s) + i] = t[i]
         /\ \A i \in 1 .. Len(u) : w[Len(s) + Len(t) + i] = u[i]
<1> DEFINE v == s \o t
<1>1. /\ v \in Seq(S) /\ Len(v) = Len(s) + Len(t)
      /\ Len(s) \in Nat /\ Len(t) \in Nat
      /\ \A i \in 1 .. Len(s) : v[i] = s[i]
      /\ \A i \in 1 .. Len(t) : v[Len(s) + i] = t[i]
  BY TwoParts
<1>2. w = v \o u
  OBVIOUS
<1> HIDE DEF v
<1>3. /\ w \in Seq(S) /\ Len(w) = Len(v) + Len(u)
      /\ Len(u) \in Nat
      /\ \A i \in 1 .. Len(v) : w[i] = v[i]
      /\ \A i \in 1 .. Len(u) : w[Len(v) + i] = u[i]
  <2>1. v \in Seq(S)
    BY <1>1
  <2> QED
    BY <2>1, <1>2, TwoParts
<1>4. \A i \in 1 .. Len(s) : i \in 1 .. Len(v)
  BY <1>1
<1>5. \A i \in 1 .. Len(t) : Len(s) + i \in 1 .. Len(v)
  BY <1>1
<1>6. \A i \in 1 .. Len(s) : w[i] = s[i]
  BY <1>1, <1>3, <1>4
<1>7. \A i \in 1 .. Len(t) : w[Len(s) + i] = t[i]
  BY <1>1, <1>3, <1>5
<1>8. Len(w) = Len(s) + Len(t) + Len(u)
  BY <1>1, <1>3
<1> QED
  BY <1>1, <1>3, <1>6, <1>7, <1>8

LEMMA ResultFacts ==
  ASSUME skey \in Seq(Symbols), sfile \in Seq(Symbols)
  PROVE  /\ Result \in Seq(Seq(Symbols)) /\ Len(Result) = Len(sfile) + 1
         /\ \A i \in 1 .. Len(sfile) : Result[i] = Lines(Encryption(skey, sfile))[i]
         /\ Result[Len(sfile) + 1] = Marker
<1> DEFINE L == Lines(Encryption(skey, sfile))
           E == <<Marker>>
<1>1. L \in Seq(Seq(Symbols)) /\ Len(L) = Len(sfile)
  BY EncryptionFacts, LinesFacts
<1>2. E \in Seq(Seq(Symbols)) /\ Len(E) = 1 /\ E[1] = Marker
  BY SymbolsFacts
<1>3. Result = L \o E /\ Len(sfile) \in Nat
  BY LenProperties DEF Result
<1> HIDE DEF L, E
<1>4. /\ L \o E \in Seq(Seq(Symbols)) /\ Len(L \o E) = Len(L) + Len(E)
      /\ \A i \in 1 .. Len(L) : (L \o E)[i] = L[i]
      /\ \A i \in 1 .. Len(E) : (L \o E)[Len(L) + i] = E[i]
  <2> DEFINE T == Seq(Symbols)
  <2>1. L \in Seq(T) /\ E \in Seq(T)
    BY <1>1, <1>2
  <2> HIDE DEF T
  <2>2. /\ L \o E \in Seq(T) /\ Len(L \o E) = Len(L) + Len(E)
        /\ \A i \in 1 .. Len(L) : (L \o E)[i] = L[i]
        /\ \A i \in 1 .. Len(E) : (L \o E)[Len(L) + i] = E[i]
    BY <2>1, TwoParts
  <2> QED
    BY <2>2 DEF T
<1>5. 1 \in 1 .. Len(E)
  BY <1>2
<1>6. Result[Len(sfile) + 1] = E[1]
  BY <1>1, <1>3, <1>4, <1>5
<1>7. \A i \in 1 .. Len(sfile) : Result[i] = L[i]
  BY <1>1, <1>2, <1>3, <1>4
<1> QED
  BY <1>1, <1>2, <1>3, <1>4, <1>5, <1>6, <1>7 DEF L

(* What a client sends of a file.                                          *)
Sends(k, f) == <<k>> \o Lines(f) \o <<Marker>>

LEMMA ChunksFacts ==
  ASSUME NEW k \in Seq(Letters), NEW f \in Seq(Letters)
  PROVE  /\ Sends(k, f) \in Seq(Seq(Symbols)) /\ Len(Sends(k, f)) = Len(f) + 2
         /\ Len(f) \in Nat
         /\ Sends(k, f)[1] = k /\ Sends(k, f)[Len(f) + 2] = Marker
         /\ \A i \in 1 .. Len(f) : Sends(k, f)[i + 1] = <<f[i]>>
<1> DEFINE s == Sends(k, f)
           L == Lines(f)
           K == <<k>>
           E == <<Marker>>
<1>0. Len(f) \in Nat /\ f \in Seq(Symbols) /\ k \in Seq(Symbols)
  BY SymbolsFacts, SeqMonotonic, LenProperties
<1>1. /\ L \in Seq(Seq(Symbols)) /\ Len(L) = Len(f)
      /\ \A i \in 1 .. Len(f) : L[i] = <<f[i]>>
  <2>1. f \in Seq(Symbols \cup {Nul})
    BY <1>0, SeqMonotonic
  <2>2. \A i \in 1 .. Len(f) : f[i] # Nul
    BY MarkerAssumption, ElementOfSeq
  <2> QED
    BY <2>1, <2>2, LinesFacts
<1>2. /\ E \in Seq(Seq(Symbols)) /\ Len(E) = 1 /\ E[1] = Marker
      /\ K \in Seq(Seq(Symbols)) /\ Len(K) = 1 /\ K[1] = k
  BY <1>0, SymbolsFacts
<1> DEFINE T == Seq(Symbols)
<1>3. s = K \o L \o E
  BY DEF Sends
<1>4. K \in Seq(T) /\ L \in Seq(T) /\ E \in Seq(T)
  BY <1>1, <1>2
<1> HIDE DEF s, L, E, K, T
<1>5. /\ s \in Seq(T) /\ Len(s) = Len(K) + Len(L) + Len(E)
      /\ \A i \in 1 .. Len(K) : s[i] = K[i]
      /\ \A i \in 1 .. Len(L) : s[Len(K) + i] = L[i]
      /\ \A i \in 1 .. Len(E) : s[Len(K) + Len(L) + i] = E[i]
  BY <1>3, <1>4, ThreeParts, SMTT(30)
<1>6. Len(s) = Len(f) + 2 /\ 1 + Len(f) + 1 = Len(f) + 2 /\ \A i \in 1 .. Len(f) : 1 + i = i + 1
  BY <1>0, <1>1, <1>2, <1>5
<1>7. s[1] = k
  BY <1>2, <1>5
<1>8. s[Len(f) + 2] = Marker
  BY <1>1, <1>2, <1>5, <1>6
<1>9. \A i \in 1 .. Len(f) : s[i + 1] = <<f[i]>>
  BY <1>1, <1>2, <1>5, <1>6, SMTT(30)
<1> QED
  BY <1>0, <1>5, <1>6, <1>7, <1>8, <1>9 DEF s, T

LEMMA LineSent ==
  ASSUME NEW k \in Seq(Letters), NEW f \in Seq(Letters), NEW i \in 1 .. Len(f)
  PROVE  Sends(k, f)[i + 1] = <<f[i]>>
BY ChunksFacts

-----------------------------------------------------------------------------
(* Types.  The programs read a first element of sout and out only while    *)
(* there is one.                                                           *)
TypeInv ==
  /\ TypeOK
  /\ phase = "reply" => sout # <<>>
  /\ \A c \in Clients : at[c] = "upload" => out[c] # <<>>

(* The programs start with their types.                                    *)
THEOREM InitTypes == Init => TypeInv
<1> SUFFICES ASSUME Init PROVE TypeInv
  OBVIOUS
<1>1. <<>> \in Seq(Symbols) /\ <<>> \in Seq(Seq(Symbols)) /\ <<>> \in Seq(Letters) /\ <<>> \in Seq(Clients)
      /\ Len(<<>>) = 0 /\ KeyLen \in Nat
  BY EmptySeq, EncFileAssumption, LenProperties DEF KeyLen
<1> HIDE DEF KeyLen, Symbols, Letters
<1>2. TypeOK
  BY <1>1, EncFileAssumption DEF Init, TypeOK
<1> QED
  BY <1>2 DEF Init, TypeInv

(* A client's part and the server's part of the types.                     *)
ServerTypes ==
  /\ phase \in {"accept", "key", "file", "encrypt", "reply", "more", "down"}
  /\ serving \in Clients \cup {None} /\ (serving = None <=> phase \in {"accept", "down"})
  /\ skey \in Seq(Symbols) /\ Len(skey) <= KeyLen
  /\ sfile \in Seq(Symbols) /\ sout \in Seq(Seq(Symbols)) /\ backlog \in Seq(Clients)
  /\ phase = "reply" => sout # <<>>

ClientTypes ==
  /\ at \in [Clients -> {"off", "prompt", "upload", "store", "recv", "ask", "gone"}]
  /\ key \in [Clients -> Seq(Letters)] /\ file \in [Clients -> Seq(Letters)]
  /\ out \in [Clients -> Seq(Seq(Symbols))]
  /\ got \in [Clients -> Seq(Symbols)] /\ whole \in [Clients -> BOOLEAN]
  /\ rounds \in [Clients -> Nat] /\ left \in [Clients -> {"no", "answered", "early"}]
  /\ \A c \in Clients : at[c] = "upload" => out[c] # <<>>

StreamTypes ==
  /\ up \in [Clients -> Seq(Symbols)] /\ down \in [Clients -> Seq(Symbols)]
  /\ shut \subseteq Clients /\ rst \subseteq Clients
  /\ faults \in 0 .. MaxFaults /\ astray \in [Clients -> BOOLEAN]

LEMMA TypeParts == TypeInv <=> ServerTypes /\ ClientTypes /\ StreamTypes
BY DEF TypeInv, TypeOK, ServerTypes, ClientTypes, StreamTypes

LEMMA EmptyIsSeq ==
  /\ <<>> \in Seq(Symbols) /\ <<>> \in Seq(Seq(Symbols)) /\ <<>> \in Seq(Letters)
  /\ <<>> \in Seq(Clients) /\ Len(<<>>) = 0 /\ KeyLen \in Nat
BY EmptySeq, EncFileAssumption, LenProperties DEF KeyLen

LEMMA AstrayTypes ==
  ASSUME StreamTypes, NEW c \in Clients, NEW missed, Astray(c, missed)
  PROVE  astray' \in [Clients -> BOOLEAN]
BY DEF StreamTypes, Astray

LEMMA FaultTypes ==
  ASSUME StreamTypes, Fault \/ UNCHANGED faults
  PROVE  faults' \in 0 .. MaxFaults
BY EncFileAssumption DEF StreamTypes, Fault

LEMMA ServerSame ==
  ASSUME ServerTypes, UNCHANGED serverVars
  PROVE  ServerTypes'
BY DEF ServerTypes, serverVars

LEMMA ClientSame ==
  ASSUME ClientTypes, UNCHANGED clientVars
  PROVE  ClientTypes'
BY DEF ClientTypes, clientVars

LEMMA LeaveTypes ==
  ASSUME ClientTypes, StreamTypes, NEW c \in Clients, NEW how \in {"answered", "early"}, Leave(c, how)
  PROVE  /\ ClientTypes'
         /\ rst' \subseteq Clients /\ down' \in [Clients -> Seq(Symbols)]
<1> HIDE DEF Symbols, Letters
<1>1. ClientTypes'
  BY EmptyIsSeq DEF Leave, ClientTypes
<1> QED
  BY <1>1, EmptyIsSeq DEF Leave, StreamTypes

-----------------------------------------------------------------------------
(* The steps of a client keep the types.                                   *)
LEMMA SendTypes ==
  ASSUME StreamTypes, NEW c \in Clients, NEW piece \in Seq(Symbols),
         Received(c, piece) \/ Ignored(c)
  PROVE  up' \in [Clients -> Seq(Symbols)] /\ rst' \subseteq Clients
<1>1. up[c] \o piece \in Seq(Symbols)
  BY ConcatProperties DEF StreamTypes
<1> QED
  BY <1>1 DEF Received, Ignored, StreamTypes

LEMMA EnterTypes ==
  ASSUME ServerTypes, ClientTypes, StreamTypes,
         NEW c \in Clients, NEW f \in Files, NEW k \in Keys, Enter(c, f, k)
  PROVE  ServerTypes' /\ ClientTypes' /\ StreamTypes'
<1>1. f \in Seq(Letters) /\ k \in Seq(Letters)
  BY EncFileAssumption, EmptyIsSeq
<1> DEFINE s == Sends(k, f)
<1>2. s \in Seq(Seq(Symbols)) /\ s # <<>>
  <2>1. s \in Seq(Seq(Symbols)) /\ Len(s) = Len(f) + 2 /\ Len(f) \in Nat
    BY <1>1, ChunksFacts, LenProperties
  <2> QED
    BY <2>1, EmptySeq
<1>3. /\ out' = [out EXCEPT ![c] = s]
      /\ at' = [at EXCEPT ![c] = "upload"] /\ rounds' = [rounds EXCEPT ![c] = @ + 1]
      /\ file' = [file EXCEPT ![c] = f] /\ key' = [key EXCEPT ![c] = k]
      /\ UNCHANGED <<serverVars, got, whole, left, up, down, shut, rst, faults, astray>>
  BY DEF Enter, Sends
<1> HIDE DEF s, Symbols, Letters
<1>4. ClientTypes'
  BY <1>1, <1>2, <1>3 DEF ClientTypes
<1> QED
  BY <1>3, <1>4, ServerSame DEF StreamTypes

LEMMA UploadTypes ==
  ASSUME ServerTypes, ClientTypes, StreamTypes, NEW c \in Clients, Upload(c)
  PROVE  ServerTypes' /\ ClientTypes' /\ StreamTypes'
<1> USE DEF Upload
<1>1. out[c] \in Seq(Seq(Symbols)) /\ out[c] # <<>>
  BY DEF ClientTypes
<1>2. Head(out[c]) \in Seq(Symbols) /\ Tail(out[c]) \in Seq(Seq(Symbols))
  BY <1>1, HeadTailProperties
<1>3. ServerTypes'
  BY ServerSame
<1>4. CASE Killed(c) /\ UNCHANGED up
  BY <1>3, <1>4, LeaveTypes DEF Killed, StreamTypes
<1>5. CASE ~(Killed(c) /\ UNCHANGED up)
  <2>1. Received(c, Head(out[c])) \/ Ignored(c)
    BY <1>5
  <2>2. up' \in [Clients -> Seq(Symbols)] /\ rst' \subseteq Clients
    BY <2>1, <1>2, SendTypes
  <2>3. /\ out' = [out EXCEPT ![c] = Tail(@)]
        /\ at' = [at EXCEPT ![c] = IF Tail(out[c]) = <<>> THEN "store" ELSE @]
        /\ UNCHANGED <<key, file, got, whole, rounds, left, down, shut, faults, astray>>
    BY <1>5
  <2> HIDE DEF Symbols, Letters, Upload
  <2>4. ClientTypes'
    BY <1>2, <2>3 DEF ClientTypes
  <2> QED
    BY <1>3, <2>2, <2>3, <2>4 DEF StreamTypes
<1> QED
  BY <1>4, <1>5

LEMMA ClientRecvTypes ==
  ASSUME ServerTypes, ClientTypes, StreamTypes, NEW c \in Clients, ClientRecv(c)
  PROVE  ServerTypes' /\ ClientTypes' /\ StreamTypes'
<1>1. ServerTypes'
  BY ServerSame DEF ClientRecv
<1>2. CASE \E piece \in Pieces(down[c], Buf) :
              /\ down' = [down EXCEPT ![c] = Rest(@, piece)]
              /\ got' = [got EXCEPT ![c] = @ \o Before(piece)]
              /\ whole' = [whole EXCEPT ![c] = Ends(piece)]
              /\ at' = [at EXCEPT ![c] = IF Ends(piece) THEN "ask" ELSE @]
              /\ Astray(c, Splits(piece))
  <2>1. PICK piece \in Pieces(down[c], Buf) :
              /\ down' = [down EXCEPT ![c] = Rest(@, piece)]
              /\ got' = [got EXCEPT ![c] = @ \o Before(piece)]
              /\ whole' = [whole EXCEPT ![c] = Ends(piece)]
              /\ at' = [at EXCEPT ![c] = IF Ends(piece) THEN "ask" ELSE @]
              /\ Astray(c, Splits(piece))
    BY <1>2
  <2>2. down[c] \in Seq(Symbols) /\ Buf \in Nat /\ got[c] \in Seq(Symbols)
    BY EncFileAssumption DEF StreamTypes, ClientTypes
  <2>3. piece \in Seq(Symbols) /\ Rest(down[c], piece) \in Seq(Symbols)
    BY <2>1, <2>2, PieceFacts
  <2>4. got[c] \o Before(piece) \in Seq(Symbols)
    BY <2>2, <2>3, BeforeFacts, ConcatProperties
  <2>5. Ends(piece) \in BOOLEAN
    BY DEF Ends
  <2>6. UNCHANGED <<key, file, out, rounds, left, up, shut, rst, faults>>
    BY DEF ClientRecv
  <2>7. astray' \in [Clients -> BOOLEAN]
    BY <2>1, AstrayTypes
  <2> HIDE DEF Symbols, Letters
  <2>8. ClientTypes'
    BY <2>1, <2>4, <2>5, <2>6 DEF ClientTypes
  <2> QED
    BY <1>1, <2>1, <2>3, <2>6, <2>7, <2>8 DEF StreamTypes
<1>3. CASE at' = [at EXCEPT ![c] = "ask"] /\ UNCHANGED <<down, got, whole, astray>>
  <2> HIDE DEF Symbols, Letters
  <2>1. ClientTypes'
    BY <1>3 DEF ClientRecv, ClientTypes
  <2> QED
    BY <1>1, <1>3, <2>1 DEF ClientRecv, StreamTypes
<1> QED
  BY <1>2, <1>3 DEF ClientRecv

LEMMA AnswerTypes ==
  ASSUME ServerTypes, ClientTypes, StreamTypes, NEW c \in Clients, NEW reply \in {Yes, No}, Answer(c, reply)
  PROVE  ServerTypes' /\ ClientTypes' /\ StreamTypes'
<1>1. ServerTypes' /\ UNCHANGED <<shut, faults, astray>>
  BY ServerSame DEF Answer
<1>2. reply \in Seq(Symbols) /\ No \in Seq(Symbols)
  BY SymbolsFacts
<1>3. CASE /\ Received(c, reply) \/ Ignored(c)
           /\ at' = [at EXCEPT ![c] = "prompt"]
           /\ UNCHANGED <<key, file, out, got, whole, rounds, left, down>>
  <2>1. up' \in [Clients -> Seq(Symbols)] /\ rst' \subseteq Clients
    BY <1>2, <1>3, SendTypes
  <2> HIDE DEF Symbols, Letters
  <2>2. ClientTypes'
    BY <1>3 DEF ClientTypes
  <2> QED
    BY <1>1, <1>3, <2>1, <2>2 DEF StreamTypes
<1>4. CASE up' = (IF c \in shut THEN up ELSE [up EXCEPT ![c] = @ \o No]) /\ Leave(c, "answered")
  <2>1. up[c] \o No \in Seq(Symbols)
    BY <1>2, ConcatProperties DEF StreamTypes
  <2>2. up' \in [Clients -> Seq(Symbols)]
    BY <1>4, <2>1 DEF StreamTypes
  <2> QED
    BY <1>1, <1>4, <2>2, LeaveTypes DEF StreamTypes
<1>5. CASE Killed(c) /\ UNCHANGED up
  BY <1>1, <1>5, LeaveTypes DEF Killed, StreamTypes
<1> QED
  BY <1>3, <1>4, <1>5 DEF Answer

LEMMA ClientKeepsTypes ==
  ASSUME ServerTypes, ClientTypes, StreamTypes, NEW c \in Clients, Client(c)
  PROVE  ServerTypes' /\ ClientTypes' /\ StreamTypes'
<1>1. CASE Connect(c)
  <2>1. Append(backlog, c) \in Seq(Clients)
    BY AppendProperties DEF ServerTypes
  <2> HIDE DEF Symbols, Letters
  <2>2. ServerTypes'
    BY <1>1, <2>1 DEF Connect, ServerTypes
  <2>3. ClientTypes'
    BY <1>1 DEF Connect, ClientTypes
  <2> QED
    BY <1>1, <2>2, <2>3 DEF Connect, StreamTypes
<1>2. CASE Interrupt(c)
  BY <1>2, LeaveTypes, ServerSame DEF Interrupt, StreamTypes
<1>3. CASE \E f \in Files, k \in Keys : Enter(c, f, k)
  BY <1>3, EnterTypes
<1>4. CASE Upload(c)
  BY <1>4, UploadTypes
<1>5. CASE Store(c)
  <2>1. ServerTypes' /\ UNCHANGED <<up, shut, astray>> /\ faults' \in 0 .. MaxFaults
    BY <1>5, ServerSame, FaultTypes DEF Store
  <2>2. CASE Leave(c, "early")
    BY <2>1, <2>2, LeaveTypes DEF StreamTypes
  <2>3. CASE ~Leave(c, "early")
    <3>1. /\ at' = [at EXCEPT ![c] = "recv"]
          /\ got' = [got EXCEPT ![c] = <<>>] /\ whole' = [whole EXCEPT ![c] = FALSE]
          /\ UNCHANGED <<key, file, out, rounds, left, down, rst>>
      BY <1>5, <2>3 DEF Store
    <3> HIDE DEF Symbols, Letters
    <3>2. ClientTypes'
      BY <3>1, EmptyIsSeq DEF ClientTypes
    <3> QED
      BY <2>1, <3>1, <3>2 DEF StreamTypes
  <2> QED
    BY <2>2, <2>3
<1>6. CASE ClientRecv(c)
  BY <1>6, ClientRecvTypes
<1>7. CASE \E reply \in {Yes, No} : Answer(c, reply)
  BY <1>7, AnswerTypes
<1> QED
  BY <1>1, <1>2, <1>3, <1>4, <1>5, <1>6, <1>7 DEF Client

-----------------------------------------------------------------------------
(* The steps of the server keep the types.                                 *)
LEMMA CloseTypes ==
  ASSUME ServerTypes, StreamTypes, NEW c \in Clients, Close(c)
  PROVE  /\ ServerTypes' /\ shut' \subseteq Clients /\ rst' \subseteq Clients
         /\ up' \in [Clients -> Seq(Symbols)]
<1> HIDE DEF Symbols, Letters
<1>1. ServerTypes'
  BY EmptyIsSeq DEF Close, ServerTypes
<1> QED
  BY <1>1, EmptyIsSeq DEF Close, StreamTypes

LEMMA GoDownTypes ==
  ASSUME ServerTypes, StreamTypes, GoDown
  PROVE  /\ ServerTypes' /\ shut' \subseteq Clients /\ rst' \subseteq Clients
         /\ up' \in [Clients -> Seq(Symbols)]
<1> HIDE DEF Symbols, Letters
<1>1. ServerTypes'
  BY EmptyIsSeq DEF GoDown, ServerTypes
<1> QED
  BY <1>1, EmptyIsSeq DEF GoDown, StreamTypes

LEMMA RecvKeyTypes ==
  ASSUME ServerTypes, ClientTypes, StreamTypes, NEW c \in Clients, RecvKey(c)
  PROVE  ServerTypes' /\ ClientTypes' /\ StreamTypes'
<1>1. ClientTypes' /\ down' = down /\ serving = c /\ phase = "key"
  BY ClientSame DEF RecvKey
<1>2. CASE \E piece \in Pieces(up[c], KeyRoom) :
              /\ skey' = piece /\ sfile' = <<>>
              /\ phase' = "file"
              /\ up' = [up EXCEPT ![c] = Rest(@, piece)]
              /\ Astray(c, Len(piece) < KeyLen)
              /\ UNCHANGED <<serving, sout, backlog, shut, rst, faults>>
  <2>1. PICK piece \in Pieces(up[c], KeyRoom) :
              /\ skey' = piece /\ sfile' = <<>>
              /\ phase' = "file"
              /\ up' = [up EXCEPT ![c] = Rest(@, piece)]
              /\ Astray(c, Len(piece) < KeyLen)
              /\ UNCHANGED <<serving, sout, backlog, shut, rst, faults>>
    BY <1>2
  <2>2. /\ piece \in Seq(Symbols) /\ Rest(up[c], piece) \in Seq(Symbols)
        /\ Len(piece) <= KeyLen
    BY <2>1, PieceFacts, EmptyIsSeq DEF StreamTypes, KeyRoom
  <2>3. astray' \in [Clients -> BOOLEAN]
    BY <2>1, AstrayTypes
  <2> HIDE DEF Symbols, Letters, KeyLen
  <2>4. ServerTypes'
    BY <1>1, <2>1, <2>2, EmptyIsSeq, EncFileAssumption DEF ServerTypes
  <2> QED
    BY <1>1, <2>1, <2>2, <2>3, <2>4 DEF StreamTypes
<1>3. CASE (Fault \/ UNCHANGED faults) /\ Close(c) /\ UNCHANGED astray
  BY <1>1, <1>3, CloseTypes, FaultTypes DEF StreamTypes
<1> QED
  BY <1>2, <1>3 DEF RecvKey

LEMMA RecvFileTypes ==
  ASSUME ServerTypes, ClientTypes, StreamTypes, NEW c \in Clients, RecvFile(c)
  PROVE  ServerTypes' /\ ClientTypes' /\ StreamTypes'
<1>1. /\ ClientTypes' /\ serving = c /\ phase = "file"
      /\ UNCHANGED <<serving, skey, sout, backlog, down, shut, rst, faults>>
  BY ClientSame DEF RecvFile
<1>2. CASE \E piece \in Pieces(up[c], Buf) :
              /\ Keep(piece)
              /\ phase' = IF Ends(piece) THEN "encrypt" ELSE phase
              /\ up' = [up EXCEPT ![c] = Rest(@, piece)]
              /\ Astray(c, Splits(piece))
  <2>1. PICK piece \in Pieces(up[c], Buf) :
              /\ Keep(piece)
              /\ phase' = IF Ends(piece) THEN "encrypt" ELSE phase
              /\ up' = [up EXCEPT ![c] = Rest(@, piece)]
              /\ Astray(c, Splits(piece))
    BY <1>2
  <2>2. piece \in Seq(Symbols) /\ Rest(up[c], piece) \in Seq(Symbols)
    BY <2>1, PieceFacts, EncFileAssumption DEF StreamTypes
  <2>3. sfile' \in Seq(Symbols)
    BY <2>1, <2>2, BeforeFacts, ConcatProperties DEF Keep, ServerTypes
  <2>4. astray' \in [Clients -> BOOLEAN]
    BY <2>1, AstrayTypes
  <2> HIDE DEF Symbols, Letters, KeyLen
  <2>5. ServerTypes'
    BY <1>1, <2>1, <2>3, EncFileAssumption DEF ServerTypes
  <2> QED
    BY <1>1, <2>1, <2>2, <2>4, <2>5 DEF StreamTypes
<1>3. CASE phase' = "encrypt" /\ UNCHANGED <<sfile, up, astray>>
  <2> HIDE DEF Symbols, Letters, KeyLen
  <2>1. ServerTypes'
    BY <1>1, <1>3, EncFileAssumption DEF ServerTypes
  <2> QED
    BY <1>1, <1>3, <2>1 DEF StreamTypes
<1> QED
  BY <1>2, <1>3 DEF RecvFile

LEMMA EncryptTypes ==
  ASSUME ServerTypes, ClientTypes, StreamTypes, NEW c \in Clients, Encrypt(c)
  PROVE  ServerTypes' /\ ClientTypes' /\ StreamTypes'
<1>1. ClientTypes' /\ serving = c /\ phase = "encrypt" /\ UNCHANGED <<down, astray>>
  BY ClientSame DEF Encrypt
<1>2. CASE sout' = Result /\ phase' = "reply"
           /\ UNCHANGED <<serving, skey, sfile, backlog, up, shut, rst, faults>>
  <2>1. Result \in Seq(Seq(Symbols)) /\ Result # <<>>
    <3>1. skey \in Seq(Symbols) /\ sfile \in Seq(Symbols)
      BY DEF ServerTypes
    <3>2. Result \in Seq(Seq(Symbols)) /\ Len(Result) = Len(sfile) + 1 /\ Len(sfile) \in Nat
      BY <3>1, ResultFacts, LenProperties
    <3> QED
      BY <3>2, EmptySeq
  <2> HIDE DEF Symbols, Letters, KeyLen, Result
  <2>2. ServerTypes'
    BY <1>1, <1>2, <2>1, EncFileAssumption DEF ServerTypes
  <2> QED
    BY <1>1, <1>2, <2>2 DEF StreamTypes
<1>3. CASE Fault /\ (GoDown \/ Close(c))
  <2>1. faults' \in 0 .. MaxFaults
    BY <1>3, FaultTypes
  <2>2. /\ ServerTypes' /\ shut' \subseteq Clients /\ rst' \subseteq Clients
        /\ up' \in [Clients -> Seq(Symbols)]
    BY <1>3, CloseTypes, GoDownTypes
  <2> QED
    BY <1>1, <2>1, <2>2 DEF StreamTypes
<1> QED
  BY <1>2, <1>3 DEF Encrypt

LEMMA SendBackTypes ==
  ASSUME ServerTypes, ClientTypes, StreamTypes, NEW c \in Clients, SendBack(c)
  PROVE  ServerTypes' /\ ClientTypes' /\ StreamTypes'
<1>1. ClientTypes' /\ serving = c /\ phase = "reply" /\ UNCHANGED <<faults, astray>>
  BY ClientSame DEF SendBack
<1>2. CASE Breaks(c) /\ GoDown /\ UNCHANGED down
  BY <1>1, <1>2, GoDownTypes DEF StreamTypes
<1>3. CASE ~(Breaks(c) /\ GoDown /\ UNCHANGED down)
  <2>1. /\ IF at[c] = "gone"
           THEN rst' = (IF Head(sout) = <<>> THEN rst ELSE rst \cup {c}) /\ UNCHANGED down
           ELSE down' = [down EXCEPT ![c] = @ \o Head(sout)] /\ UNCHANGED rst
        /\ sout' = Tail(sout)
        /\ IF sout' = <<>> THEN phase' = "more" /\ skey' = <<>> /\ sfile' = <<>>
           ELSE UNCHANGED <<phase, skey, sfile>>
        /\ UNCHANGED <<serving, backlog, up, shut>>
    BY <1>3 DEF SendBack
  <2>2. Head(sout) \in Seq(Symbols) /\ Tail(sout) \in Seq(Seq(Symbols))
    BY <1>1, HeadTailProperties DEF ServerTypes
  <2>3. down[c] \o Head(sout) \in Seq(Symbols)
    BY <2>2, ConcatProperties DEF StreamTypes
  <2>4. down' \in [Clients -> Seq(Symbols)] /\ rst' \subseteq Clients
    BY <2>1, <2>3 DEF StreamTypes
  <2> HIDE DEF Symbols, Letters, KeyLen
  <2>5. ServerTypes'
    <3>1. CASE sout' = <<>>
      <4>1. /\ phase' = "more" /\ skey' = <<>> /\ sfile' = <<>>
            /\ UNCHANGED <<serving, backlog>> /\ serving # None
        BY <1>1, <2>1, <3>1 DEF ServerTypes
      <4>2. Len(skey') <= KeyLen /\ skey' \in Seq(Symbols)
        BY <4>1, EmptyIsSeq
      <4> QED
        BY <4>1, <4>2, <3>1, EmptyIsSeq DEF ServerTypes
    <3>2. CASE sout' # <<>>
      BY <1>1, <2>1, <2>2, <3>2 DEF ServerTypes
    <3> QED
      BY <3>1, <3>2
  <2> QED
    BY <1>1, <2>1, <2>4, <2>5 DEF StreamTypes
<1> QED
  BY <1>2, <1>3

LEMMA RecvMoreTypes ==
  ASSUME ServerTypes, ClientTypes, StreamTypes, NEW c \in Clients, RecvMore(c)
  PROVE  ServerTypes' /\ ClientTypes' /\ StreamTypes'
<1>1. ClientTypes' /\ serving = c /\ phase = "more" /\ UNCHANGED <<down, faults>>
  BY ClientSame DEF RecvMore
<1>2. CASE Close(c) /\ astray' \in [Clients -> BOOLEAN]
  BY <1>1, <1>2, CloseTypes DEF StreamTypes
<1>3. CASE \E piece \in Pieces(up[c], Buf) :
              /\ phase' = "key"
              /\ up' = [up EXCEPT ![c] = Rest(@, piece)]
              /\ UNCHANGED <<serving, skey, sfile, sout, backlog, shut, rst>>
              /\ astray' \in [Clients -> BOOLEAN]
  <2>1. PICK piece \in Pieces(up[c], Buf) :
              /\ phase' = "key"
              /\ up' = [up EXCEPT ![c] = Rest(@, piece)]
              /\ UNCHANGED <<serving, skey, sfile, sout, backlog, shut, rst>>
              /\ astray' \in [Clients -> BOOLEAN]
    BY <1>3
  <2>2. Rest(up[c], piece) \in Seq(Symbols)
    BY <2>1, PieceFacts, EncFileAssumption DEF StreamTypes
  <2> HIDE DEF Symbols, Letters, KeyLen
  <2>3. ServerTypes'
    BY <1>1, <2>1, EncFileAssumption DEF ServerTypes
  <2> QED
    BY <1>1, <2>1, <2>2, <2>3 DEF StreamTypes
<1>4. astray' \in [Clients -> BOOLEAN]
  BY AstrayTypes DEF RecvMore, StreamTypes
<1> QED
  BY <1>2, <1>3, <1>4 DEF RecvMore

(* No step of a client or the server leaves the types.                     *)
THEOREM NextTypes == TypeInv /\ [Next]_vars => TypeInv'
<1> SUFFICES ASSUME TypeInv, [Next]_vars PROVE ServerTypes' /\ ClientTypes' /\ StreamTypes'
  <2>1. (ServerTypes /\ ClientTypes /\ StreamTypes)' => TypeInv'
    BY DEF TypeInv, TypeOK, ServerTypes, ClientTypes, StreamTypes
  <2> QED
    BY <2>1
<1>0. ServerTypes /\ ClientTypes /\ StreamTypes
  BY TypeParts
<1>1. CASE Accept
  <2>1. Head(backlog) \in Clients /\ Tail(backlog) \in Seq(Clients)
    BY <1>0, <1>1, HeadTailProperties DEF Accept, ServerTypes
  <2> HIDE DEF Symbols, Letters, KeyLen
  <2>2. ServerTypes'
    BY <1>0, <1>1, <2>1, EncFileAssumption DEF Accept, ServerTypes
  <2> QED
    BY <1>0, <1>1, <2>2, ClientSame DEF Accept, StreamTypes
<1>2. CASE \E c \in Clients : Client(c)
  BY <1>0, <1>2, ClientKeepsTypes
<1>3. CASE \E c \in Clients : Serve(c)
  BY <1>0, <1>3, RecvKeyTypes, RecvFileTypes, EncryptTypes, SendBackTypes, RecvMoreTypes DEF Serve
<1>4. CASE UNCHANGED vars
  BY <1>0, <1>4, ServerSame, ClientSame DEF vars, StreamTypes
<1> QED
  BY <1>1, <1>2, <1>3, <1>4 DEF Next

(* The state of the encrypting file server and its clients has its types,  *)
(* whatever the constants.                                                 *)
THEOREM TypeCorrect == Spec => []TypeOK
<1>1. TypeInv => TypeOK
  BY DEF TypeInv
<1> QED
  BY <1>1, InitTypes, NextTypes, PTL DEF Spec

-----------------------------------------------------------------------------
(* The stream of a round, and where its markers are.                       *)
Round(k, f) == Yes \o k \o f \o Marker

LEMMA FourParts ==
  ASSUME NEW S, NEW y \in Seq(S), NEW k \in Seq(S), NEW f \in Seq(S), NEW m \in Seq(S),
         NEW s, s = y \o k \o f \o m
  PROVE  /\ s \in Seq(S) /\ Len(s) = Len(y) + Len(k) + Len(f) + Len(m)
         /\ Len(y) \in Nat /\ Len(k) \in Nat /\ Len(f) \in Nat /\ Len(m) \in Nat
         /\ \A i \in 1 .. Len(y) : s[i] = y[i]
         /\ \A i \in 1 .. Len(k) : s[Len(y) + i] = k[i]
         /\ \A i \in 1 .. Len(f) : s[Len(y) + Len(k) + i] = f[i]
         /\ \A i \in 1 .. Len(m) : s[Len(y) + Len(k) + Len(f) + i] = m[i]
<1> DEFINE v == y \o k \o f
<1>0. v = y \o k \o f
  OBVIOUS
<1>2. s = v \o m
  OBVIOUS
<1> HIDE DEF v
<1>1. /\ v \in Seq(S) /\ Len(v) = Len(y) + Len(k) + Len(f)
      /\ Len(y) \in Nat /\ Len(k) \in Nat /\ Len(f) \in Nat
      /\ \A i \in 1 .. Len(y) : v[i] = y[i]
      /\ \A i \in 1 .. Len(k) : v[Len(y) + i] = k[i]
      /\ \A i \in 1 .. Len(f) : v[Len(y) + Len(k) + i] = f[i]
  BY <1>0, ThreeParts
<1>3. /\ s \in Seq(S) /\ Len(s) = Len(v) + Len(m)
      /\ Len(m) \in Nat
      /\ \A i \in 1 .. Len(v) : s[i] = v[i]
      /\ \A i \in 1 .. Len(m) : s[Len(v) + i] = m[i]
  <2>1. v \in Seq(S)
    BY <1>1
  <2> QED
    BY <2>1, <1>2, TwoParts
<1>4. \A i \in 1 .. Len(y) : i \in 1 .. Len(v)
  BY <1>1
<1>5. \A i \in 1 .. Len(k) : Len(y) + i \in 1 .. Len(v)
  BY <1>1
<1>6. \A i \in 1 .. Len(f) : Len(y) + Len(k) + i \in 1 .. Len(v)
  BY <1>1
<1>7. \A i \in 1 .. Len(y) : s[i] = y[i]
  BY <1>1, <1>3, <1>4
<1>8. \A i \in 1 .. Len(k) : s[Len(y) + i] = k[i]
  BY <1>1, <1>3, <1>5
<1>9. \A i \in 1 .. Len(f) : s[Len(y) + Len(k) + i] = f[i]
  BY <1>1, <1>3, <1>6
<1> QED
  BY <1>1, <1>3, <1>7, <1>8, <1>9

(* Sequences that have the same parts.                                     *)
Alike(s, n, t, l, k) == \A i \in 1 .. k : s[n + i] = t[l + i]

LEMMA SameParts ==
  ASSUME NEW S, NEW s \in Seq(S), NEW t \in Seq(S),
         NEW n \in Nat, NEW m \in n .. Len(s), NEW l \in Nat, NEW r \in l .. Len(t), m - n = r - l,
         Alike(s, n, t, l, m - n)
  PROVE  SubSeq(s, n + 1, m) = SubSeq(t, l + 1, r)
<1> DEFINE p == SubSeq(s, n + 1, m)
           q == SubSeq(t, l + 1, r)
<1>1. p \in Seq(S) /\ Len(p) = m - n /\ \A i \in 1 .. m - n : p[i] = s[n + i]
  BY PartFacts
<1>2. q \in Seq(S) /\ Len(q) = r - l /\ \A i \in 1 .. r - l : q[i] = t[l + i]
  BY PartFacts
<1> HIDE DEF p, q
<1>3. \A i \in 1 .. Len(p) : p[i] = q[i]
  BY <1>1, <1>2 DEF Alike
<1>4. p = q
  BY <1>1, <1>2, <1>3, SeqEqual
<1> QED
  BY <1>4 DEF p, q

(* A sequence holds another from a place on.                               *)
Holds(s, b, h) == \A i \in 1 .. Len(h) : s[b + i] = h[i]

Begins(s, h) == \A i \in 1 .. Len(h) : s[i] = h[i]

LEMMA Joined ==
  ASSUME NEW S, NEW s \in Seq(S), NEW t \in Seq(S)
  PROVE  /\ s \o t \in Seq(S) /\ Len(s \o t) = Len(s) + Len(t)
         /\ Len(s) \in Nat /\ Len(t) \in Nat /\ Len(s \o t) \in Nat
         /\ Begins(s \o t, s) /\ Holds(s \o t, Len(s), t)
<1>1. /\ s \o t \in Seq(S) /\ Len(s \o t) = Len(s) + Len(t)
      /\ Len(s) \in Nat /\ Len(t) \in Nat
      /\ \A i \in 1 .. Len(s) : (s \o t)[i] = s[i]
      /\ \A i \in 1 .. Len(t) : (s \o t)[Len(s) + i] = t[i]
  BY TwoParts
<1>2. Len(s \o t) \in Nat
  BY <1>1, LenProperties
<1> QED
  BY <1>1, <1>2 DEF Begins, Holds

LEMMA PartIs ==
  ASSUME NEW S, NEW s \in Seq(S), NEW h \in Seq(S), NEW b \in Nat, NEW e \in b .. Len(s),
         Len(h) = e - b, Holds(s, b, h)
  PROVE  SubSeq(s, b + 1, e) = h
<1> DEFINE q == SubSeq(s, b + 1, e)
<1>1. q \in Seq(S) /\ Len(q) = e - b /\ \A i \in 1 .. e - b : q[i] = s[b + i]
  BY PartFacts
<1> HIDE DEF q
<1>2. \A i \in 1 .. Len(q) : q[i] = h[i]
  BY <1>1 DEF Holds
<1>3. q = h
  BY <1>1, <1>2, SeqEqual
<1> QED
  BY <1>3 DEF q

LEMMA RoundFacts ==
  ASSUME NEW k \in Seq(Letters), NEW f \in Seq(Letters)
  PROVE  /\ Round(k, f) \in Seq(Symbols) /\ Len(Round(k, f)) = 4 + Len(k) + Len(f)
         /\ Len(k) \in Nat /\ Len(f) \in Nat
         /\ Round(k, f)[1] = Yes[1] /\ Round(k, f)[2] = Yes[2]
         /\ \A i \in 1 .. Len(k) : Round(k, f)[2 + i] = k[i]
         /\ \A i \in 1 .. Len(f) : Round(k, f)[2 + Len(k) + i] = f[i]
         /\ Round(k, f)[Len(Round(k, f)) - 1] = Marker[1]
         /\ Round(k, f)[Len(Round(k, f))] = Marker[2]
         /\ Holds(Round(k, f), 2, k) /\ Holds(Round(k, f), 2 + Len(k), f)
         /\ Holds(Round(k, f), 2 + Len(k) + Len(f), Marker)
<1> DEFINE s == Round(k, f)
<1>1. /\ Yes \in Seq(Symbols) /\ Marker \in Seq(Symbols)
      /\ k \in Seq(Symbols) /\ f \in Seq(Symbols)
  BY SymbolsFacts, SeqMonotonic
<1>2. Len(Yes) = 2 /\ Len(Marker) = 2
  BY SymbolsFacts
<1>3. s = Yes \o k \o f \o Marker
  BY DEF Round
<1> HIDE DEF s, Yes, Marker, Symbols, Letters
<1>4. /\ s \in Seq(Symbols) /\ Len(s) = Len(Yes) + Len(k) + Len(f) + Len(Marker)
      /\ Len(k) \in Nat /\ Len(f) \in Nat
      /\ \A i \in 1 .. Len(Yes) : s[i] = Yes[i]
      /\ \A i \in 1 .. Len(k) : s[Len(Yes) + i] = k[i]
      /\ \A i \in 1 .. Len(f) : s[Len(Yes) + Len(k) + i] = f[i]
      /\ \A i \in 1 .. Len(Marker) : s[Len(Yes) + Len(k) + Len(f) + i] = Marker[i]
  BY <1>1, <1>3, FourParts
<1> DEFINE n == 2 + Len(k) + Len(f)
<1>5. Len(s) = 4 + Len(k) + Len(f) /\ Len(s) - 1 = n + 1 /\ Len(s) = n + 2
  BY <1>2, <1>4
<1>6. s[1] = Yes[1] /\ s[2] = Yes[2]
  BY <1>2, <1>4
<1>7. s[n + 1] = Marker[1] /\ s[n + 2] = Marker[2]
  BY <1>2, <1>4
<1>8. /\ \A i \in 1 .. Len(k) : s[2 + i] = k[i]
      /\ \A i \in 1 .. Len(f) : s[2 + Len(k) + i] = f[i]
  BY <1>2, <1>4
<1>9. s[Len(s) - 1] = Marker[1] /\ s[Len(s)] = Marker[2]
  BY <1>5, <1>7
<1>10. Holds(s, 2, k) /\ Holds(s, 2 + Len(k), f)
  BY <1>8 DEF Holds
<1>11. Holds(s, 2 + Len(k) + Len(f), Marker)
  <2>1. \A i \in 1 .. Len(Marker) : i = 1 \/ i = 2
    BY <1>2
  <2> QED
    BY <2>1, <1>7 DEF Holds
<1> QED
  BY <1>4, <1>5, <1>6, <1>8, <1>9, <1>10, <1>11 DEF s

LEMMA RoundMarker ==
  ASSUME NEW k \in Seq(Letters), NEW f \in Seq(Letters), NEW s, s = Round(k, f), NEW i \in 1 .. Len(s)
  PROVE  /\ s[i] = Marker[1] <=> i = Len(s) - 1
         /\ s[i] = Marker[2] <=> i = Len(s)
<1>1. /\ s \in Seq(Symbols) /\ Len(s) = 4 + Len(k) + Len(f)
      /\ Len(k) \in Nat /\ Len(f) \in Nat
      /\ s[1] = Yes[1] /\ s[2] = Yes[2]
      /\ \A j \in 1 .. Len(k) : s[2 + j] = k[j]
      /\ \A j \in 1 .. Len(f) : s[2 + Len(k) + j] = f[j]
      /\ s[Len(s) - 1] = Marker[1] /\ s[Len(s)] = Marker[2]
  BY RoundFacts
<1>2. /\ {Yes[1], Yes[2]} \cap {Marker[1], Marker[2]} = {} /\ Marker[1] # Marker[2]
      /\ Letters \cap {Marker[1], Marker[2]} = {}
  BY MarkerAssumption DEF Yes, Marker
<1> HIDE DEF Yes, Marker
<1>3. i \in 1 .. Len(s) /\ i \in Nat
  OBVIOUS
<1>a. Len(s) = 4 + Len(k) + Len(f) /\ Len(k) \in Nat /\ Len(f) \in Nat
  BY <1>1
<1>4. CASE i <= 2
  <2>1. i = 1 \/ i = 2
    BY <1>3, <1>4
  <2>2. s[i] \in {Yes[1], Yes[2]} /\ i # Len(s) - 1 /\ i # Len(s)
    BY <2>1, <1>1
  <2> QED
    BY <2>2, <1>2
<1>5. CASE i > 2 /\ i <= 2 + Len(k)
  <2>1. i - 2 \in 1 .. Len(k) /\ 2 + (i - 2) = i /\ i # Len(s) - 1 /\ i # Len(s)
    BY <1>1, <1>3, <1>5
  <2>2. s[i] = k[i - 2] /\ k[i - 2] \in Letters
    BY <2>1, <1>1, ElementOfSeq
  <2> QED
    BY <2>1, <2>2, <1>2
<1>6. CASE i > 2 + Len(k) /\ i <= 2 + Len(k) + Len(f)
  <2>1. /\ i - 2 - Len(k) \in 1 .. Len(f) /\ 2 + Len(k) + (i - 2 - Len(k)) = i
        /\ i # Len(s) - 1 /\ i # Len(s)
    BY <1>1, <1>3, <1>6
  <2>2. s[i] = f[i - 2 - Len(k)] /\ f[i - 2 - Len(k)] \in Letters
    BY <2>1, <1>1, ElementOfSeq
  <2> QED
    BY <2>1, <2>2, <1>2
<1>7. CASE i > 2 + Len(k) + Len(f)
  <2>1. (i = Len(s) - 1 \/ i = Len(s)) /\ Len(s) - 1 # Len(s)
    BY <1>a, <1>3, <1>7
  <2> QED
    BY <2>1, <1>1, <1>2
<1> QED
  BY <1>1, <1>3, <1>4, <1>5, <1>6, <1>7

LEMMA MarkedAtFacts ==
  ASSUME NEW piece \in Seq(Symbols), NEW i \in 1 .. Len(piece) - 1
  PROVE  i \in MarkedAt(piece) <=> piece[i] = Marker[1] /\ piece[i + 1] = Marker[2]
<1> DEFINE q == SubSeq(piece, i, i + 1)
<1>1. Len(piece) \in Nat /\ i \in Int /\ i + 1 \in Int /\ \A j \in i .. i + 1 : j \in 1 .. Len(piece)
  BY LenProperties
<1>2. \A j \in i .. i + 1 : piece[j] \in Symbols
  BY <1>1, ElementOfSeq
<1>3. /\ q \in Seq(Symbols)
      /\ Len(q) = IF i <= i + 1 THEN i + 1 - i + 1 ELSE 0
      /\ \A j \in 1 .. i + 1 - i + 1 : q[j] = piece[i + j - 1]
  BY <1>1, <1>2, SubSeqProperties
<1> HIDE DEF q
<1>4. i <= i + 1 /\ i + 1 - i + 1 = 2 /\ i + 1 - 1 = i /\ i + 2 - 1 = i + 1
  BY <1>1
<1>5. q \in Seq(Symbols) /\ Len(q) = 2
  BY <1>3, <1>4
<1>6. \A j \in 1 .. 2 : q[j] = piece[i + j - 1]
  BY <1>3, <1>4
<1>7. q[1] = piece[i] /\ q[2] = piece[i + 1]
  <2>1. q[1] = piece[i + 1 - 1] /\ q[2] = piece[i + 2 - 1]
    BY <1>6
  <2> QED
    BY <2>1, <1>4
<1>8. Marker \in Seq(Symbols) /\ Len(Marker) = 2
  BY SymbolsFacts
<1>9. (q[1] = Marker[1] /\ q[2] = Marker[2]) => q = Marker
  <2> SUFFICES ASSUME q[1] = Marker[1], q[2] = Marker[2] PROVE q = Marker
    OBVIOUS
  <2>1. \A j \in 1 .. Len(q) : q[j] = Marker[j]
    BY <1>5
  <2> QED
    BY <1>5, <1>8, <2>1, SeqEqual
<1> QED
  BY <1>7, <1>9 DEF MarkedAt, q

(* A piece of a stream: the j bytes after the first n.                     *)
IsPart(s, n, j, piece) ==
  n \in Nat /\ j \in 1 .. Len(s) /\ n + j <= Len(s) /\ piece = SubSeq(s, n + 1, n + j)

(* What of the marker is in such a piece, and what comes before it.        *)
MarkerIn(s, n, j, piece) ==
  /\ n + j <= Len(s) - 2 => Plain(piece)
  /\ Splits(piece) <=> n + j = Len(s) - 1
  /\ Ends(piece) <=> n + j = Len(s) /\ j >= 2
  /\ Ends(piece) => Before(piece) = SubSeq(s, n + 1, Len(s) - 2)

(* A part of a round: which of it is the marker, what comes before it.     *)
LEMMA PartOfRound ==
  ASSUME NEW k \in Seq(Letters), NEW f \in Seq(Letters),
         NEW n, NEW j, NEW piece, IsPart(Round(k, f), n, j, piece)
  PROVE  piece \in Seq(Symbols) /\ Len(piece) = j /\ MarkerIn(Round(k, f), n, j, piece)
<1> DEFINE s == Round(k, f)
<1>a. s = Round(k, f)
  OBVIOUS
<1>b. n \in Nat /\ j \in 1 .. Len(s) /\ n + j <= Len(s) /\ piece = SubSeq(s, n + 1, n + j)
  BY DEF IsPart
<1> HIDE DEF s
<1>0. s \in Seq(Symbols) /\ Len(s) \in Nat /\ n \in Nat /\ j \in Nat /\ j >= 1 /\ n + j <= Len(s) /\ n + j \in n .. Len(s)
  BY <1>a, <1>b, RoundFacts, LenProperties
<1>1. /\ piece \in Seq(Symbols) /\ Len(piece) = n + j - n
      /\ \A i \in 1 .. n + j - n : piece[i] = s[n + i]
  BY <1>0, <1>b, PartFacts
<1>2. Len(piece) = j /\ \A i \in 1 .. j : piece[i] = s[n + i] /\ n + i \in 1 .. Len(s)
  <2>1. n + j - n = j
    BY <1>0
  <2>2. \A i \in 1 .. j : n + i \in 1 .. Len(s)
    BY <1>0
  <2> HIDE DEF Symbols, Letters
  <2>3. Len(piece) = j
    BY <2>1, <1>1
  <2>4. 1 .. n + j - n = 1 .. j
    BY <2>1
  <2>5. \A i \in 1 .. j : piece[i] = s[n + i]
    BY <2>4, <1>1
  <2> QED
    BY <2>2, <2>3, <2>5
<1>3. \A i \in 1 .. Len(s) : /\ s[i] = Marker[1] <=> i = Len(s) - 1
                             /\ s[i] = Marker[2] <=> i = Len(s)
  BY <1>a, RoundMarker
<1> HIDE DEF Marker
<1>4. ASSUME n + j <= Len(s) - 2 PROVE Plain(piece)
  <2>1. DOMAIN piece = 1 .. j
    BY <1>1, <1>2, LenProperties
  <2>2. ASSUME NEW i \in 1 .. j PROVE piece[i] \notin {Marker[1], Marker[2]}
    <3>1. n + i \in 1 .. Len(s) /\ n + i # Len(s) - 1 /\ n + i # Len(s)
      BY <1>0, <1>4
    <3> QED
      BY <3>1, <1>2, <1>3
  <2> QED
    BY <2>1, <2>2 DEF Plain
<1>5. Splits(piece) <=> n + j = Len(s) - 1
  <2>1. j \in 1 .. j
    BY <1>0
  <2> QED
    BY <2>1, <1>2, <1>3 DEF Splits
<1>6. ASSUME NEW i \in MarkedAt(piece) PROVE n + i = Len(s) - 1 /\ n + j = Len(s) /\ i = j - 1 /\ j >= 2
  <2>1. i \in 1 .. Len(piece) - 1 /\ i \in 1 .. j
    BY <1>0, <1>2 DEF MarkedAt
  <2>2. piece[i] = Marker[1]
    BY <1>1, <2>1, MarkedAtFacts
  <2>3. n + i = Len(s) - 1
    BY <2>1, <2>2, <1>2, <1>3
  <2> QED
    <3>1. i \in Nat /\ i <= j - 1
      BY <2>1, <1>0, <1>2
    <3>2. n \in Nat /\ j \in Nat /\ Len(s) \in Nat /\ n + j <= Len(s)
      BY <1>0
    <3> DEFINE l == Len(s)
    <3>3. n \in Nat /\ j \in Nat /\ l \in Nat /\ i \in Nat /\ n + j <= l /\ i <= j - 1 /\ n + i = l - 1
          /\ i >= 1
      BY <3>1, <3>2, <2>1, <2>3
    <3> HIDE DEF l
    <3>4. n + i = l - 1 /\ n + j = l /\ i = j - 1 /\ j >= 2
      BY <3>3
    <3> QED
      BY <3>4 DEF l
<1>7. ASSUME n + j = Len(s), j >= 2 PROVE j - 1 \in MarkedAt(piece)
  <2>1. j - 1 \in 1 .. Len(piece) - 1 /\ j - 1 + 1 = j /\ j - 1 \in 1 .. j /\ j \in 1 .. j
    BY <1>0, <1>2, <1>7
  <2>2. n + (j - 1) = Len(s) - 1 /\ n + (j - 1) \in 1 .. Len(s) /\ n + j \in 1 .. Len(s)
    BY <1>0, <1>7
  <2>3. piece[j - 1] = Marker[1] /\ piece[j] = Marker[2]
    BY <2>1, <2>2, <1>7, <1>2, <1>3
  <2> QED
    BY <2>1, <2>3, <1>1, MarkedAtFacts
<1>8. Ends(piece) <=> n + j = Len(s) /\ j >= 2
  BY <1>6, <1>7 DEF Ends
<1>9. ASSUME Ends(piece) PROVE Before(piece) = SubSeq(s, n + 1, Len(s) - 2)
  <2>1. PICK i \in MarkedAt(piece) : Before(piece) = SubSeq(piece, 1, i - 1)
    BY <1>1, <1>9, BeforeFacts
  <2> DEFINE e == i - 1
             m == n + j
  <2>2. e \in 0 .. m - n /\ n + e = Len(s) - 2 /\ m \in n .. Len(s) /\ n \in Nat
    <3>1. n + i = Len(s) - 1 /\ n + j = Len(s) /\ i = j - 1 /\ j >= 2
      BY <2>1, <1>6
    <3> DEFINE l == Len(s)
    <3>2. /\ n + i = l - 1 /\ n + j = l /\ i = j - 1 /\ j >= 2 /\ n \in Nat /\ j \in Nat /\ l \in Nat
      BY <3>1, <1>0
    <3> HIDE DEF l
    <3>3. i - 1 \in 0 .. n + j - n /\ n + (i - 1) = l - 2 /\ n + j \in n .. l
      BY <3>2
    <3> QED
      BY <3>2, <3>3 DEF l
  <2>3. piece = SubSeq(s, n + 1, m) /\ Before(piece) = SubSeq(piece, 1, e)
    BY <1>b, <2>1
  <2> HIDE DEF e, m
  <2>4. SubSeq(SubSeq(s, n + 1, m), 1, e) = SubSeq(s, n + 1, n + e)
    BY <2>2, <1>0, PartOfPart
  <2> QED
    BY <2>2, <2>3, <2>4
<1>10. MarkerIn(s, n, j, piece)
  BY <1>4, <1>5, <1>8, <1>9 DEF MarkerIn
<1> QED
  BY <1>1, <1>2, <1>10 DEF s

-----------------------------------------------------------------------------
(* The stream of a connection, and the pieces the server takes of it.      *)
LEMMA StreamFacts ==
  ASSUME TypeInv, NEW c \in Clients
  PROVE  /\ Stream(c) = Round(key[c], file[c])
         /\ key[c] \in Seq(Letters) /\ file[c] \in Seq(Letters)
         /\ Stream(c) \in Seq(Symbols)
         /\ Len(key[c]) \in Nat /\ Len(file[c]) \in Nat
         /\ Len(Stream(c)) = 4 + Len(key[c]) + Len(file[c])
         /\ Len(Stream(c)) \in Nat /\ Len(Stream(c)) >= 4
         /\ Stream(c)[1] = Yes[1] /\ Stream(c)[2] = Yes[2]
         /\ Holds(Stream(c), 2, key[c]) /\ Holds(Stream(c), 2 + Len(key[c]), file[c])
         /\ Holds(Stream(c), 2 + Len(key[c]) + Len(file[c]), Marker)
         /\ Chunks(c) \in Seq(Seq(Symbols)) /\ Len(Chunks(c)) = Len(file[c]) + 2
         /\ Len(Chunks(c)) \in Nat /\ Len(Chunks(c)) >= 2
         /\ Chunks(c)[1] = key[c] /\ Chunks(c)[Len(file[c]) + 2] = Marker
         /\ \A i \in 1 .. Len(file[c]) : Chunks(c)[i + 1] = <<file[c][i]>>
<1> DEFINE k == key[c]
           f == file[c]
           s == Round(k, f)
           h == Sends(k, f)
           l == Len(s)
           g == Len(h)
<1>1. Stream(c) = s /\ Chunks(c) = h
  BY DEF Stream, Round, Chunks, Sends
<1>2. k \in Seq(Letters) /\ f \in Seq(Letters)
  BY DEF TypeInv, TypeOK
<1> HIDE DEF k, f
<1>3. /\ s \in Seq(Symbols)
      /\ Len(k) \in Nat /\ Len(f) \in Nat
      /\ l = 4 + Len(k) + Len(f)
      /\ s[1] = Yes[1] /\ s[2] = Yes[2]
      /\ Holds(s, 2, k) /\ Holds(s, 2 + Len(k), f)
      /\ Holds(s, 2 + Len(k) + Len(f), Marker)
  BY <1>2, RoundFacts
<1>4. /\ h \in Seq(Seq(Symbols)) /\ g = Len(f) + 2
      /\ h[1] = k /\ h[Len(f) + 2] = Marker
  BY <1>2, ChunksFacts
<1>5. ASSUME NEW i \in 1 .. Len(f) PROVE h[i + 1] = <<f[i]>>
  BY <1>2, LineSent
<1>6. l \in Nat /\ l >= 4 /\ g \in Nat /\ g >= 2
  <2> DEFINE a == Len(k)
             b == Len(f)
  <2>1. a \in Nat /\ b \in Nat /\ l = 4 + a + b /\ g = b + 2
    BY <1>3, <1>4
  <2> HIDE DEF s, h, l, g, a, b
  <2> QED
    BY <2>1
<1> HIDE DEF s, h, l, g
<1> QED
  BY <1>1, <1>2, <1>3, <1>4, <1>5, <1>6 DEF k, f, s, l, g

LEMMA TypedKey ==
  ASSUME NEW c \in Clients, TypedPart(c), at[c] \in {"upload", "store", "recv", "ask"}
  PROVE  Len(key[c]) = KeyLen /\ KeyLen \in Nat
<1>1. key[c] \in [1 .. KeyLen -> Letters]
  BY DEF TypedPart
<1>2. KeyLen \in Nat
  BY EmptyIsSeq
<1> HIDE DEF KeyLen, Letters
<1> QED
  BY <1>1, <1>2

(* What a client that uploads still has to send.                           *)
LEMMA OutFacts ==
  ASSUME TypeInv, NEW c \in Clients, at[c] = "upload",
         NEW m \in 1 .. Len(Chunks(c)), out[c] = SubSeq(Chunks(c), m, Len(Chunks(c)))
  PROVE  /\ Len(out[c]) = Len(Chunks(c)) - m + 1
         /\ Head(out[c]) = Chunks(c)[m]
         /\ Tail(out[c]) = SubSeq(Chunks(c), m + 1, Len(Chunks(c)))
         /\ Tail(out[c]) = <<>> <=> m = Len(Chunks(c))
         /\ Len(Tail(out[c])) = Len(Chunks(c)) - m
<1> DEFINE s == Chunks(c)
           T == Seq(Symbols)
           l == Len(s)
           n == m - 1
<1>a. s \in Seq(T) /\ l \in Nat
  BY StreamFacts, LenProperties
<1>b. m \in 1 .. l
  OBVIOUS
<1>c. out[c] = SubSeq(s, m, l) /\ l = Len(s)
  OBVIOUS
<1> HIDE DEF s, T, l
<1>1. s \in Seq(T) /\ l \in Nat /\ m \in 1 .. l /\ n \in Nat /\ n + 1 = m /\ l \in n .. l /\ l \in m .. l
      /\ l - n = l - m + 1 /\ l - n >= 1 /\ l = Len(s) /\ l \in n .. Len(s) /\ l \in m .. Len(s)
  BY <1>a, <1>b, <1>c
<1>2. out[c] = SubSeq(s, n + 1, l) /\ out[c] = SubSeq(s, m, l)
  BY <1>1, <1>c
<1> HIDE DEF n
<1>3. out[c] \in Seq(T) /\ Len(out[c]) = l - n /\ \A i \in 1 .. l - n : out[c][i] = s[n + i]
  BY <1>1, <1>2, PartFacts
<1>4. Len(out[c]) = l - m + 1 /\ out[c] # <<>> /\ 1 \in 1 .. l - n
  <2>1. l - n = l - m + 1 /\ l - n >= 1
    BY <1>1
  <2> QED
    BY <2>1, <1>3, EmptySeq
<1>5. Head(out[c]) = s[m]
  <2>1. Head(out[c]) = out[c][1]
    BY <1>3, <1>4, HeadTailProperties
  <2> QED
    BY <2>1, <1>1, <1>3, <1>4
<1>6. Tail(out[c]) \in Seq(T) /\ Len(Tail(out[c])) = l - m
      /\ \A i \in 1 .. l - m : Tail(out[c])[i] = out[c][i + 1]
  <2>1. /\ Tail(out[c]) \in Seq(T) /\ Len(Tail(out[c])) = Len(out[c]) - 1
        /\ \A i \in 1 .. Len(Tail(out[c])) : Tail(out[c])[i] = out[c][i + 1]
    BY <1>3, <1>4, HeadTailProperties
  <2> QED
    BY <2>1, <1>1, <1>4
<1>7. /\ SubSeq(s, m + 1, l) \in Seq(T) /\ Len(SubSeq(s, m + 1, l)) = l - m
      /\ \A i \in 1 .. l - m : SubSeq(s, m + 1, l)[i] = s[m + i]
  <2>1. m \in Nat /\ l \in m .. Len(s)
    BY <1>1
  <2> QED
    BY <2>1, <1>1, PartFacts
<1>8. ASSUME NEW i \in 1 .. Len(Tail(out[c])) PROVE Tail(out[c])[i] = SubSeq(s, m + 1, l)[i]
  <2>1. i \in 1 .. l - m /\ i + 1 \in 1 .. l - n /\ n + (i + 1) = m + i
    BY <1>1, <1>6
  <2>2. Tail(out[c])[i] = out[c][i + 1] /\ out[c][i + 1] = s[n + (i + 1)]
    BY <2>1, <1>3, <1>6
  <2> QED
    BY <2>1, <2>2, <1>7
<1>9. Tail(out[c]) = SubSeq(s, m + 1, l)
  BY <1>6, <1>7, <1>8, SeqEqual
<1>10. Tail(out[c]) = <<>> <=> m = l
  <2>1. Tail(out[c]) = <<>> <=> Len(Tail(out[c])) = 0
    BY <1>6, EmptySeq
  <2> QED
    BY <2>1, <1>1, <1>6
<1>11. Len(out[c]) = l - m + 1
  BY <1>4
<1>12. Len(Tail(out[c])) = l - m
  BY <1>6
<1> QED
  BY <1>5, <1>9, <1>10, <1>11, <1>12 DEF s, l

LEMMA SentFacts ==
  ASSUME TypeInv, NEW c \in Clients, TypedPart(c)
  PROVE  /\ Sent(c) \in 2 .. Len(Stream(c)) /\ Len(Stream(c)) \in Nat
         /\ at[c] = "prompt" => Sent(c) = 2
         /\ at[c] = "upload" => Sent(c) <= Len(Stream(c)) - 2
         /\ at[c] \notin {"prompt", "upload"} => Sent(c) = Len(Stream(c))
<1> DEFINE k == Len(key[c])
           f == Len(file[c])
           l == Len(Stream(c))
           h == Len(Chunks(c))
           o == Len(out[c])
           t == Sent(c)
<1>1. k \in Nat /\ f \in Nat /\ l = 4 + k + f /\ h = f + 2
  BY StreamFacts
<1>2. CASE at[c] = "prompt"
  <2>1. t = 2
    BY <1>2 DEF Sent
  <2> HIDE DEF t, l, k, f
  <2>2. t \in 2 .. l /\ l \in Nat
    BY <1>1, <2>1
  <2> QED
    BY <1>2, <2>1, <2>2 DEF t, l
<1>3. CASE at[c] = "upload"
  <2>1. PICK m \in 1 .. Len(Chunks(c)) : out[c] = SubSeq(Chunks(c), m, Len(Chunks(c)))
    BY <1>3 DEF TypedPart
  <2>2. o = h - m + 1 /\ m \in 1 .. h
    BY <1>3, <2>1, OutFacts
  <2>3. k = KeyLen
    BY <1>3, TypedKey
  <2>4. (o = h => t = 2) /\ (o # h => t = 2 + KeyLen + f + 1 - o)
    BY <1>3 DEF Sent
  <2> HIDE DEF KeyLen, t, l, k, f, h, o
  <2>5. t \in 2 .. l /\ t <= l - 2 /\ l \in Nat
    BY <1>1, <2>2, <2>3, <2>4
  <2> QED
    BY <1>3, <2>5 DEF t, l
<1>4. CASE at[c] \notin {"prompt", "upload"}
  <2>1. t = l
    BY <1>4 DEF Sent
  <2> HIDE DEF t, l, k, f
  <2>2. t \in 2 .. l /\ l \in Nat
    BY <1>1, <2>1
  <2> QED
    BY <1>4, <2>1, <2>2 DEF t, l
<1> QED
  BY <1>2, <1>3, <1>4

LEMMA TakenPiece ==
  ASSUME TypeInv, NEW c \in Clients, TypedPart(c), NEW n \in 0 .. Sent(c),
         up[c] = SubSeq(Stream(c), n + 1, Sent(c)),
         NEW b \in Nat, NEW piece \in Pieces(up[c], b)
  PROVE  /\ Len(piece) \in 1 .. b /\ n + Len(piece) <= Sent(c) /\ piece \in Seq(Symbols)
         /\ n + Len(piece) \in 0 .. Sent(c)
         /\ piece = SubSeq(Stream(c), n + 1, n + Len(piece))
         /\ Rest(up[c], piece) = SubSeq(Stream(c), (n + Len(piece)) + 1, Sent(c))
<1> DEFINE s == Stream(c)
           m == Sent(c)
           k == Len(piece)
<1>a. s \in Seq(Symbols) /\ m \in 2 .. Len(s) /\ Len(s) \in Nat
  BY StreamFacts, SentFacts
<1>b. n \in 0 .. m /\ up[c] = SubSeq(s, n + 1, m)
  OBVIOUS
<1> HIDE DEF s, m
<1>1. s \in Seq(Symbols) /\ n \in Nat /\ m \in n .. Len(s) /\ m \in Nat
  BY <1>a, <1>b
<1>2. up[c] = SubSeq(s, n + 1, m)
  BY <1>b
<1>3. up[c] \in Seq(Symbols) /\ Len(up[c]) = m - n
  <2> HIDE DEF Symbols
  <2>1. SubSeq(s, n + 1, m) \in Seq(Symbols) /\ Len(SubSeq(s, n + 1, m)) = m - n
    BY <1>1, PartFacts
  <2> QED
    BY <2>1, <1>2
<1>4. piece \in Seq(Symbols) /\ k \in 1 .. b /\ k <= Len(up[c]) /\ piece = SubSeq(up[c], 1, k)
  BY <1>3, PieceFacts
<1> HIDE DEF k
<1>5. k \in 0 .. m - n /\ n + k <= m /\ n + k \in 0 .. m
  BY <1>1, <1>3, <1>4
<1>6. /\ SubSeq(SubSeq(s, n + 1, m), 1, k) = SubSeq(s, n + 1, n + k)
      /\ SubSeq(SubSeq(s, n + 1, m), k + 1, Len(SubSeq(s, n + 1, m))) = SubSeq(s, n + k + 1, m)
  BY <1>1, <1>5, PartOfPart
<1>7. Rest(up[c], piece) = SubSeq(up[c], k + 1, Len(up[c]))
  BY DEF Rest, k
<1> QED
  BY <1>2, <1>4, <1>5, <1>6, <1>7 DEF s, m, k

-----------------------------------------------------------------------------
(* A step that does not touch a connection keeps what is said of it.       *)
Untouched(d) ==
  /\ at'[d] = at[d] /\ key'[d] = key[d] /\ file'[d] = file[d] /\ out'[d] = out[d]
  /\ got'[d] = got[d] /\ whole'[d] = whole[d] /\ left'[d] = left[d]
  /\ up'[d] = up[d] /\ down'[d] = down[d] /\ astray'[d] = astray[d]
  /\ d \in shut' <=> d \in shut
  /\ d \in rst' <=> d \in rst

(* The server was elsewhere and is, or it has not moved.                   *)
Apart(d) ==
  /\ Queued(d)' => Queued(d)
  /\ phase = "down" => phase' = "down"
  /\ faults > 0 => faults' > 0
  /\ \/ serving # d /\ serving' # d
     \/ UNCHANGED <<phase, serving, skey, sfile, sout>>

LEMMA FaultsGrow ==
  ASSUME TypeInv, faults' = faults \/ faults' = faults + 1
  PROVE  faults > 0 => faults' > 0
<1>1. faults \in Nat
  BY EncFileAssumption DEF TypeInv, TypeOK
<1> QED
  BY <1>1

LEMMA ConnectionKept ==
  ASSUME NEW d \in Clients, Connection(d), Untouched(d), Apart(d)
  PROVE  Connection(d)'
<1>1. /\ Stream(d)' = Stream(d) /\ Chunks(d)' = Chunks(d) /\ Sent(d)' = Sent(d)
      /\ Arrived(d)' = Arrived(d) /\ (Alive(d)' <=> Alive(d))
  <2>1. Stream(d)' = Stream(d)
    BY DEF Stream, Untouched
  <2>2. Chunks(d)' = Chunks(d)
    BY DEF Chunks, Untouched
  <2>3. Sent(d)' = Sent(d)
    BY <2>1, <2>2 DEF Sent, Untouched
  <2> QED
    BY <2>1, <2>2, <2>3 DEF Arrived, Alive, Untouched
<1>2. TypedPart(d)'
  BY <1>1 DEF Connection, TypedPart, Untouched
<1>3. OffPart(d)'
  BY DEF Connection, OffPart, Untouched
<1>4. NoPart(d)'
  BY DEF Connection, NoPart, Untouched, Apart
<1>5. Cut(d) => Cut(d)'
  BY DEF Cut, Untouched, Apart
<1>6. Unfound(d) => Unfound(d)'
  <2> SUFFICES ASSUME Unfound(d) PROVE Unfound(d)'
    OBVIOUS
  <2>1. PICK n \in 0 .. Sent(d) : Taken(d, n)
    BY DEF Unfound
  <2>2. Taken(d, n)'
    BY <1>1, <2>1 DEF Taken, Untouched, Apart
  <2> QED
    BY <1>1, <2>2 DEF Unfound, Untouched
<1>7. Found(d) => Found(d)'
  <2> SUFFICES ASSUME Found(d) PROVE Found(d)'
    OBVIOUS
  <2>1. serving = d /\ UNCHANGED <<phase, serving, skey, sfile, sout>>
    BY DEF Found, Apart
  <2>2. Result' = Result
    BY <2>1 DEF Result
  <2>3. \A n : Returned(d, n) => Returned(d, n)'
    BY <1>1, <2>1, <2>2 DEF Returned, Untouched
  <2>4. phase' = "reply" => \E n \in 0 .. Len(sfile') : Returned(d, n)'
    BY <2>1, <2>3 DEF Found
  <2> QED
    BY <1>1, <2>1, <2>4 DEF Found, Untouched
<1>8. d \in shut' <=> d \in shut
  BY DEF Untouched
<1>9. d \in rst' <=> d \in rst
  BY DEF Untouched
<1> QED
  BY <1>1, <1>2, <1>3, <1>4, <1>5, <1>6, <1>7, <1>8, <1>9 DEF Connection

(* Only Connect, Accept and the ends of clients and connections change who *)
(* is where.                                                               *)
LEMMA QueueKept ==
  ASSUME QueuePart, UNCHANGED <<serving, backlog, shut, left>>, phase' = "down" => phase = "down",
         \A d \in Clients : /\ at'[d] = "off" <=> at[d] = "off"
                            /\ at'[d] = "gone" <=> at[d] = "gone"
  PROVE  QueuePart'
<1>1. \A d : Queued(d)' <=> Queued(d)
  BY DEF Queued
<1> QED
  BY <1>1 DEF QueuePart

LEMMA LeaveKeeps ==
  ASSUME TypeInv, QueuePart, NEW c \in Clients, NEW how \in {"answered", "early"}, Leave(c, how),
         at[c] # "off", UNCHANGED <<phase, serving, backlog, shut>>
  PROVE  QueuePart'
<1>1. \A d : Queued(d)' <=> Queued(d)
  BY DEF Queued
<1>2. /\ at' = [at EXCEPT ![c] = "gone"] /\ left' = [left EXCEPT ![c] = how]
      /\ DOMAIN at = Clients /\ DOMAIN left = Clients
  BY DEF Leave, TypeInv, TypeOK
<1>3. at[c] # "gone" \/ at[c] = "gone"
  OBVIOUS
<1> QED
  BY <1>1, <1>2 DEF QueuePart

(* Whatever a client was at, it may leave.                                 *)
LEMMA LeaveEarly ==
  ASSUME TypeInv, StreamsAgree, NEW c \in Clients, Leave(c, "early"), at[c] # "off",
         UNCHANGED <<serverVars, up, shut, astray>>, faults' = faults \/ faults' = faults + 1
  PROVE  StreamsAgree'
<1>1. QueuePart'
  BY LeaveKeeps DEF StreamsAgree, serverVars
<1>2. at'[c] = "gone" /\ left'[c] = "early"
  BY DEF Leave, TypeInv, TypeOK
<1>3. Connection(c)'
  BY <1>2 DEF Connection, TypedPart, OffPart, NoPart, Alive
<1>4. ASSUME NEW d \in Clients, d # c PROVE Connection(d)'
  <2>1. Untouched(d)
    BY <1>4 DEF Untouched, Leave, TypeInv, TypeOK
  <2>2. Apart(d)
    <3>1. Queued(d)' <=> Queued(d)
      BY DEF Queued, serverVars
    <3>2. faults > 0 => faults' > 0
      BY FaultsGrow
    <3> QED
      BY <3>1, <3>2 DEF Apart, serverVars
  <2> QED
    BY <2>1, <2>2, ConnectionKept DEF StreamsAgree
<1> QED
  BY <1>1, <1>3, <1>4 DEF StreamsAgree

(* The steps of a client and of the server, but for the ends and Connect   *)
(* and Accept: what is left to show is the connection they are about.      *)
LEMMA OneConnection ==
  ASSUME TypeInv, StreamsAgree, NEW c \in Clients,
         UNCHANGED <<serving, backlog, shut, left>>,
         phase' = "down" <=> phase = "down", faults' = faults \/ faults' = faults + 1,
         /\ at'[c] = "off" <=> at[c] = "off"
         /\ at'[c] = "gone" <=> at[c] = "gone",
         \A d \in Clients \ {c} : Untouched(d),
         serving = c \/ UNCHANGED <<phase, skey, sfile, sout>>,
         Connection(c)'
  PROVE  StreamsAgree'
<1>1. \A d \in Clients : /\ at'[d] = "off" <=> at[d] = "off"
                         /\ at'[d] = "gone" <=> at[d] = "gone"
  BY DEF Untouched
<1>2. QueuePart'
  BY <1>1, QueueKept DEF StreamsAgree
<1>3. ASSUME NEW d \in Clients, d # c PROVE Connection(d)'
  <2>1. Queued(d)' <=> Queued(d)
    BY DEF Queued
  <2>2. faults > 0 => faults' > 0
    BY FaultsGrow
  <2>3. Apart(d)
    BY <1>3, <2>1, <2>2 DEF Apart
  <2> QED
    BY <1>3, <2>3, ConnectionKept DEF StreamsAgree
<1> QED
  BY <1>2, <1>3 DEF StreamsAgree

-----------------------------------------------------------------------------
(* The steps of a client.                                                  *)
LEMMA ConnectAgrees ==
  ASSUME TypeInv, StreamsAgree, NEW c \in Clients, Connect(c)
  PROVE  StreamsAgree'
<1>1. /\ at[c] = "off" /\ at' = [at EXCEPT ![c] = "prompt"] /\ backlog' = Append(backlog, c)
      /\ UNCHANGED <<phase, serving, skey, sfile, sout, key, file, out, got, whole, rounds, left,
                     up, down, shut, rst, faults, astray>>
      /\ phase # "down" /\ at'[c] = "prompt" /\ \A d \in Clients \ {c} : at'[d] = at[d]
  BY DEF Connect, TypeInv, TypeOK
<1>2. ~Queued(c) /\ serving # c /\ c \notin shut /\ up[c] = <<>> /\ down[c] = <<>> /\ c \notin rst
  BY <1>1 DEF StreamsAgree, QueuePart, Connection, OffPart
<1>3. /\ DOMAIN backlog = 1 .. Len(backlog) /\ Len(backlog) \in Nat
      /\ DOMAIN backlog' = 1 .. Len(backlog) + 1
      /\ \A i \in 1 .. Len(backlog) : backlog'[i] = backlog[i]
      /\ backlog'[Len(backlog) + 1] = c
  <2>1. backlog \in Seq(Clients)
    BY DEF TypeInv, TypeOK
  <2>2. /\ backlog' \in Seq(Clients) /\ Len(backlog') = Len(backlog) + 1
        /\ \A i \in 1 .. Len(backlog) : backlog'[i] = backlog[i]
        /\ backlog'[Len(backlog) + 1] = c
    BY <1>1, <2>1, AppendProperties
  <2> QED
    BY <2>1, <2>2, LenProperties
<1>4. Queued(c)' /\ \A d \in Clients \ {c} : Queued(d)' <=> Queued(d)
  <2>1. \A d : Queued(d) <=> \E i \in 1 .. Len(backlog) : backlog[i] = d
    BY <1>3 DEF Queued
  <2>2. \A d : Queued(d)' <=> \E i \in 1 .. Len(backlog) + 1 : backlog'[i] = d
    BY <1>3 DEF Queued
  <2>3. \A i \in 1 .. Len(backlog) + 1 : i = Len(backlog) + 1 \/ i \in 1 .. Len(backlog)
    BY <1>3
  <2>4. \A i \in 1 .. Len(backlog) : i \in 1 .. Len(backlog) + 1
    BY <1>3
  <2>5. Len(backlog) + 1 \in 1 .. Len(backlog) + 1
    BY <1>3
  <2> QED
    BY <1>3, <2>1, <2>2, <2>3, <2>4, <2>5
<1>5. QueuePart'
  <2>1. ASSUME NEW i \in DOMAIN backlog', NEW j \in DOMAIN backlog', backlog'[i] = backlog'[j]
        PROVE  i = j
    <3>1. \A h \in 1 .. Len(backlog) : backlog'[h] = backlog[h] /\ backlog[h] # c
      BY <1>2, <1>3 DEF Queued
    <3>2. \A h \in DOMAIN backlog' : h = Len(backlog) + 1 \/ h \in 1 .. Len(backlog)
      BY <1>3
    <3>3. \A h, g \in 1 .. Len(backlog) : backlog[h] = backlog[g] => h = g
      BY <1>3 DEF StreamsAgree, QueuePart
    <3> QED
      BY <1>3, <2>1, <3>1, <3>2, <3>3
  <2>2. ASSUME NEW d \in Clients
        PROVE  /\ at'[d] = "off" => ~Queued(d)' /\ serving' # d /\ d \notin shut'
               /\ at'[d] # "off" => Queued(d)' \/ serving' = d \/ d \in shut'
               /\ Queued(d)' => serving' # d /\ d \notin shut'
               /\ serving' = d => d \notin shut'
               /\ left'[d] = "no" <=> at'[d] # "gone"
    <3>1. CASE d = c
      BY <1>1, <1>2, <1>4, <3>1 DEF StreamsAgree, QueuePart
    <3>2. CASE d # c
      BY <1>1, <1>4, <3>2 DEF StreamsAgree, QueuePart
    <3> QED
      BY <3>1, <3>2
  <2>3. phase' # "down"
    BY <1>1
  <2> QED
    BY <2>1, <2>2, <2>3 DEF QueuePart
<1>6. Connection(c)'
  <2>1. /\ Sent(c)' = 2 /\ Arrived(c)' = <<>> /\ Stream(c)' = Stream(c) /\ (Alive(c) <=> FALSE)
        /\ at'[c] = "prompt" /\ down'[c] = <<>> /\ up'[c] = <<>> /\ c \notin shut' /\ c \notin rst'
        /\ serving' # c
    BY <1>1, <1>2 DEF Sent, Arrived, Stream, Alive
  <2>2. SubSeq(Stream(c), 2 + 1, 2) = <<>>
    <3> DEFINE s == Stream(c)
               l == Len(s)
               n == 2
    <3>0. s \in Seq(Symbols) /\ l \in Nat /\ l >= 4
      BY StreamFacts
    <3> HIDE DEF s, l
    <3>1. s \in Seq(Symbols) /\ n \in Nat /\ n \in n .. Len(s)
      BY <3>0 DEF l
    <3> HIDE DEF n
    <3>2. SubSeq(s, n + 1, n) \in Seq(Symbols) /\ Len(SubSeq(s, n + 1, n)) = n - n
      BY <3>1, PartFacts
    <3> QED
      BY <3>1, <3>2, EmptySeq DEF s, n
  <2>3. Taken(c, 2)'
    BY <2>1, <2>2 DEF Taken
  <2>4. Unfound(c)'
    BY <2>1, <2>3 DEF Unfound
  <2> QED
    BY <2>1, <2>4 DEF Connection, TypedPart, OffPart, NoPart
<1>7. ASSUME NEW d \in Clients, d # c PROVE Connection(d)'
  <2>1. Untouched(d)
    BY <1>1, <1>7 DEF Untouched
  <2>2. Apart(d)
    BY <1>1, <1>4, <1>7 DEF Apart
  <2> QED
    BY <2>1, <2>2, ConnectionKept DEF StreamsAgree
<1> QED
  BY <1>5, <1>6, <1>7 DEF StreamsAgree

(* A new round's stream begins as the one before did.                      *)
LEMMA EnterAgrees ==
  ASSUME TypeInv, TypeInv', StreamsAgree,
         NEW c \in Clients, NEW f \in Files, NEW k \in Keys, Enter(c, f, k)
  PROVE  StreamsAgree'
<1>1. /\ at[c] = "prompt" /\ at'[c] = "upload" /\ key'[c] = k /\ file'[c] = f
      /\ out'[c] = <<k>> \o Lines(f) \o <<Marker>>
      /\ UNCHANGED <<serverVars, got, whole, left, up, down, shut, rst, faults, astray>>
      /\ \A d \in Clients \ {c} : /\ at'[d] = at[d] /\ key'[d] = key[d] /\ file'[d] = file[d]
                                  /\ out'[d] = out[d]
  BY DEF Enter, TypeInv, TypeOK
<1>2. /\ Stream(c)' \in Seq(Symbols) /\ Len(Stream(c)') >= 4 /\ Len(Stream(c)') \in Nat
      /\ Stream(c)'[1] = Yes[1] /\ Stream(c)'[2] = Yes[2]
      /\ Chunks(c)' = out'[c]
      /\ Chunks(c)' \in Seq(Seq(Symbols)) /\ Len(Chunks(c)') \in Nat /\ Len(Chunks(c)') >= 2
  <2>1. /\ (Stream(c) \in Seq(Symbols))' /\ (Len(Stream(c)) >= 4)' /\ (Len(Stream(c)) \in Nat)'
        /\ (Stream(c)[1] = Yes[1])' /\ (Stream(c)[2] = Yes[2])'
        /\ (Chunks(c) \in Seq(Seq(Symbols)))' /\ (Len(Chunks(c)) \in Nat)' /\ (Len(Chunks(c)) >= 2)'
    BY StreamFacts, PTL
  <2>2. Chunks(c)' = out'[c]
    BY <1>1 DEF Chunks
  <2>3. Yes' = Yes
    BY DEF Yes
  <2> QED
    BY <2>1, <2>2, <2>3
<1>3. Sent(c)' = 2 /\ Sent(c) = 2 /\ Arrived(c)' = <<>>
  BY <1>1, <1>2 DEF Sent, Arrived
<1>4. TypedPart(c)'
  <2>1. k \in [1 .. KeyLen -> Letters] /\ f \in Seq(Letters)
    BY EncFileAssumption
  <2>2. 1 \in 1 .. Len(Chunks(c)') /\ out'[c] = SubSeq(Chunks(c)', 1, Len(Chunks(c)'))
    BY <1>2, SubSeqFull
  <2> QED
    BY <1>1, <2>1, <2>2 DEF TypedPart
<1>5. (Alive(c) /\ Alive(c)') /\ Connection(c)
  BY <1>1 DEF Alive, StreamsAgree
<1>6. CASE c \in shut
  <2>1. Cut(c)'
    BY <1>1, <1>5, <1>6 DEF Connection, Cut, serverVars
  <2> QED
    <3>1. Connection(c)'
      BY <1>1, <1>4, <1>6, <2>1 DEF Connection, OffPart, NoPart
    <3>2. \A d \in Clients \ {c} : Untouched(d)
      BY <1>1 DEF Untouched
    <3> QED
      BY <1>1, <3>1, <3>2, OneConnection DEF serverVars
<1>7. CASE c \notin shut
  <2>1. Unfound(c) /\ c \notin rst
    BY <1>1, <1>5, <1>7 DEF Connection, Found
  <2>2. PICK n \in 0 .. Sent(c) : Taken(c, n)
    BY <2>1 DEF Unfound
  <2>3. n \in 0 .. 2 /\ n \in Nat /\ 2 \in n .. 2
    BY <1>3, <2>2
  <2>4. SubSeq(Stream(c), n + 1, 2) = SubSeq(Stream(c)', n + 1, 2)
    <3> DEFINE s == Stream(c)
               t == Stream(c)'
    <3>1. s \in Seq(Symbols) /\ Len(s) \in Nat /\ Len(s) >= 4 /\ s[1] = Yes[1] /\ s[2] = Yes[2]
      BY StreamFacts
    <3>2. t \in Seq(Symbols) /\ Len(t) \in Nat /\ Len(t) >= 4 /\ t[1] = Yes[1] /\ t[2] = Yes[2]
      BY <1>2
    <3> HIDE DEF s, t
    <3>4. 2 \in n .. Len(s) /\ 2 \in n .. Len(t)
      BY <2>3, <3>1, <3>2
    <3>5. \A i \in 1 .. 2 - n : n + i = 1 \/ n + i = 2
      BY <2>3
    <3>6. Alike(s, n, t, n, 2 - n)
      BY <3>1, <3>2, <3>5 DEF Alike
    <3>7. SubSeq(s, n + 1, 2) = SubSeq(t, n + 1, 2)
      BY <2>3, <3>1, <3>2, <3>4, <3>6, SameParts
    <3> QED
      BY <3>7 DEF s, t
  <2>5. Queued(c)' <=> Queued(c)
    BY <1>1 DEF Queued, serverVars
  <2>6. serving = c /\ phase = "file" => astray[c] /\ n <= Len(Stream(c)) - 2
    <3> DEFINE l == Len(Stream(c))
    <3>1. l \in Nat /\ l >= 4
      BY StreamFacts
    <3> HIDE DEF l
    <3>2. n <= l - 2
      BY <2>3, <3>1
    <3>3. serving = c /\ phase = "file" => astray[c]
      BY <1>1, <2>2 DEF Taken
    <3> QED
      BY <3>2, <3>3 DEF l
  <2>7. Taken(c, n)'
    BY <1>1, <1>3, <2>2, <2>4, <2>5, <2>6 DEF Taken, serverVars
  <2>8. Unfound(c)'
    BY <1>1, <1>3, <2>1, <2>3, <2>7 DEF Unfound
  <2>9. Connection(c)'
    BY <1>1, <1>4, <1>7, <2>1, <2>8 DEF Connection, OffPart, NoPart
  <2>10. \A d \in Clients \ {c} : Untouched(d)
    BY <1>1 DEF Untouched
  <2> QED
    BY <1>1, <2>9, <2>10, OneConnection DEF serverVars
<1> QED
  BY <1>6, <1>7

(* What Upload sends is the next part of the stream.                       *)
LEMMA ChunkOfStream ==
  ASSUME TypeInv, NEW c \in Clients, TypedPart(c), at[c] = "upload",
         NEW m \in 1 .. Len(Chunks(c)), out[c] = SubSeq(Chunks(c), m, Len(Chunks(c))),
         NEW e, e = IF m = Len(Chunks(c)) THEN Len(Stream(c)) ELSE KeyLen + m + 1
  PROVE  /\ e \in Sent(c) .. Len(Stream(c)) /\ Sent(c) \in Nat
         /\ Head(out[c]) = SubSeq(Stream(c), Sent(c) + 1, e)
<1> DEFINE s == Stream(c)
           k == key[c]
           f == file[c]
           b == Sent(c)
           h == Head(out[c])
           sl == Len(s)
           kl == Len(k)
           fl == Len(f)
           ol == Len(out[c])
           cl == Len(Chunks(c))
<1>1. /\ s \in Seq(Symbols) /\ k \in Seq(Letters) /\ f \in Seq(Letters)
      /\ Chunks(c)[1] = k /\ Chunks(c)[fl + 2] = Marker
      /\ Holds(s, 2, k) /\ Holds(s, 2 + kl, f) /\ Holds(s, 2 + kl + fl, Marker)
      /\ \A i \in 1 .. fl : Chunks(c)[i + 1] = <<f[i]>>
  BY StreamFacts
<1>2. fl \in Nat /\ kl \in Nat /\ sl = 4 + kl + fl /\ cl = fl + 2 /\ kl = KeyLen
  BY StreamFacts, TypedKey
<1>3. h = Chunks(c)[m] /\ ol = cl - m + 1
  BY OutFacts
<1>4. b = IF ol = cl THEN 2 ELSE 2 + KeyLen + fl + 1 - ol
  BY DEF Sent
<1>5. m \in 1 .. cl /\ e = IF m = cl THEN sl ELSE KeyLen + m + 1
  OBVIOUS
<1>6. Letters \subseteq Symbols /\ Marker \in Seq(Symbols) /\ Len(Marker) = 2
  BY SymbolsFacts
<1>n. ol = cl - m + 1
  BY <1>3
<1> HIDE DEF b, h, sl, kl, fl, ol, cl, KeyLen, Symbols, Letters, Marker
<1>7. CASE m = 1
  <2>1. b = 2 /\ e = 2 + kl /\ e \in 2 .. sl /\ kl = e - 2
    BY <1>2, <1>4, <1>n, <1>5, <1>7
  <2>2. k \in Seq(Symbols)
    BY <1>1, <1>6, SeqMonotonic
  <2>3. SubSeq(s, b + 1, e) = k
    <3> HIDE DEF s, k
    <3>1. b \in Nat /\ e \in b .. Len(s) /\ Len(k) = e - b /\ Holds(s, b, k)
      BY <1>1, <2>1 DEF sl, kl
    <3> QED
      BY <1>1, <2>2, <3>1, PartIs, SMTT(30)
  <2> QED
    BY <1>1, <1>3, <1>7, <2>1, <2>3 DEF b, h, sl
<1>8. CASE m # 1 /\ m # cl
  <2> DEFINE i == m - 1
  <2>a. m \in Nat /\ m > 1 /\ m < cl /\ ol = cl - m + 1
    BY <1>2, <1>n, <1>5, <1>8
  <2>c. ol # cl /\ m # cl
    BY <2>a, <1>2
  <2>b. b = 2 + KeyLen + fl + 1 - ol /\ e = KeyLen + m + 1
    <3>1. b = 2 + KeyLen + fl + 1 - ol
      BY <2>c, <1>4
    <3>2. e = KeyLen + m + 1
      BY <2>c, <1>5
    <3> QED
      BY <3>1, <3>2
  <2>1. i \in 1 .. fl /\ i + 1 = m /\ b = 2 + kl + i - 1 /\ e = b + 1 /\ b + 1 = 2 + kl + i
        /\ b \in Nat /\ e \in b .. sl /\ e - b = 1
    BY <1>2, <2>a, <2>b
  <2> HIDE DEF i
  <2>2. h = <<f[i]>> /\ s[2 + kl + i] = f[i] /\ f[i] \in Symbols
    <3>1. i \in 1 .. Len(f) /\ h = Chunks(c)[i + 1]
      BY <1>3, <2>1 DEF fl
    <3>2. s[2 + kl + i] = f[i]
      BY <1>1, <3>1 DEF Holds
    <3>3. f[i] \in Letters
      BY <1>1, <3>1, ElementOfSeq
    <3> QED
      BY <1>1, <1>6, <2>1, <3>1, <3>2, <3>3
  <2>3. h \in Seq(Symbols) /\ Len(h) = 1 /\ h[1] = f[i]
    BY <2>2
  <2>4. Holds(s, b, h)
    <3>1. h[1] = s[b + 1]
      BY <2>1, <2>2, <2>3
    <3>2. \A j \in 1 .. Len(h) : j = 1
      BY <2>3
    <3> QED
      BY <3>1, <3>2 DEF Holds
  <2>5. SubSeq(s, b + 1, e) = h
    <3> HIDE DEF s
    <3>1. b \in Nat /\ e \in b .. Len(s) /\ Len(h) = e - b /\ s \in Seq(Symbols) /\ h \in Seq(Symbols)
      BY <1>1, <2>1, <2>3 DEF sl
    <3> QED
      BY <2>4, <3>1, PartIs
  <2> QED
    BY <2>1, <2>5 DEF b, h, sl
<1>9. CASE m = cl
  <2>1. m # 1 /\ b = 2 + kl + fl /\ e = sl /\ b \in Nat /\ e \in b .. sl /\ e - b = 2
    BY <1>2, <1>4, <1>n, <1>5, <1>9
  <2>2. h = Marker /\ Holds(s, b, h)
    BY <1>1, <1>2, <1>3, <1>9, <2>1
  <2>3. SubSeq(s, b + 1, e) = h
    <3> HIDE DEF s
    <3>1. b \in Nat /\ e \in b .. Len(s) /\ Len(h) = e - b /\ s \in Seq(Symbols) /\ h \in Seq(Symbols)
      BY <1>1, <1>6, <2>1, <2>2 DEF sl
    <3>2. Holds(s, b, h)
      BY <2>2
    <3> QED
      BY <3>1, <3>2, PartIs
  <2> QED
    BY <2>1, <2>3 DEF b, h, sl
<1> QED
  BY <1>7, <1>8, <1>9

LEMMA AdjacentParts ==
  ASSUME NEW S, NEW s \in Seq(S), NEW n \in Nat, NEW m \in n .. Len(s), NEW e \in m .. Len(s)
  PROVE  SubSeq(s, n + 1, m) \o SubSeq(s, m + 1, e) = SubSeq(s, n + 1, e)
<1>1. m \in Nat /\ e \in Nat /\ n + 1 \in Nat
  BY LenProperties
<1> DEFINE p == SubSeq(s, n + 1, m)
           q == SubSeq(s, m + 1, e)
           r == SubSeq(s, n + 1, e)
<1>2. p \in Seq(S) /\ Len(p) = m - n /\ \A i \in 1 .. m - n : p[i] = s[n + i]
  BY PartFacts
<1>3. q \in Seq(S) /\ Len(q) = e - m /\ \A i \in 1 .. e - m : q[i] = s[m + i]
  BY <1>1, PartFacts
<1>4. r \in Seq(S) /\ Len(r) = e - n /\ \A i \in 1 .. e - n : r[i] = s[n + i]
  <2>1. e \in n .. Len(s)
    BY <1>1
  <2> QED
    BY <2>1, PartFacts
<1> HIDE DEF p, q, r
<1>5. /\ p \o q \in Seq(S) /\ Len(p \o q) = Len(p) + Len(q)
      /\ \A i \in 1 .. Len(p) + Len(q) : (p \o q)[i] = IF i <= Len(p) THEN p[i] ELSE q[i - Len(p)]
  BY <1>2, <1>3, ConcatProperties
<1>6. Len(p \o q) = e - n
  BY <1>1, <1>2, <1>3, <1>5
<1>7. ASSUME NEW i \in 1 .. e - n PROVE (p \o q)[i] = r[i]
  <2>1. i \in 1 .. Len(p) + Len(q)
    BY <1>1, <1>2, <1>3
  <2>2. r[i] = s[n + i]
    BY <1>4
  <2>3. CASE i <= m - n
    <3>1. i \in 1 .. m - n /\ i <= Len(p)
      BY <1>1, <1>2, <2>3
    <3>2. (p \o q)[i] = p[i]
      BY <3>1, <2>1, <1>5
    <3> QED
      BY <3>1, <3>2, <2>2, <1>2
  <2>4. CASE i > m - n
    <3>1. i - (m - n) \in 1 .. e - m /\ ~(i <= Len(p)) /\ i - Len(p) = i - (m - n)
          /\ m + (i - (m - n)) = n + i
      BY <1>1, <1>2, <2>4
    <3>2. (p \o q)[i] = q[i - (m - n)]
      BY <3>1, <2>1, <1>5
    <3>3. q[i - (m - n)] = s[n + i]
      BY <3>1, <1>3
    <3> QED
      BY <3>2, <3>3, <2>2
  <2>5. i <= m - n \/ i > m - n
    BY <1>1
  <2> QED
    BY <2>3, <2>4, <2>5
<1>8. p \o q = r
  <2>1. \A i \in 1 .. Len(p \o q) : (p \o q)[i] = r[i]
    BY <1>6, <1>7
  <2> QED
    BY <1>4, <1>5, <1>6, <2>1, SeqEqual
<1> QED
  BY <1>8 DEF p, q, r

LEMMA UploadAgrees ==
  ASSUME TypeInv, StreamsAgree, NEW c \in Clients, Upload(c)
  PROVE  StreamsAgree'
<1>1. at[c] = "upload" /\ UNCHANGED <<serverVars, shut, faults, astray>> /\ Connection(c)
  BY DEF Upload, StreamsAgree
<1>2. CASE Killed(c) /\ UNCHANGED up
  BY <1>1, <1>2, LeaveEarly DEF Killed
<1>3. CASE ~(Killed(c) /\ UNCHANGED up)
  <2>1. /\ Received(c, Head(out[c])) \/ Ignored(c)
        /\ out' = [out EXCEPT ![c] = Tail(@)]
        /\ at' = [at EXCEPT ![c] = IF Tail(out[c]) = <<>> THEN "store" ELSE @]
        /\ UNCHANGED <<key, file, got, whole, rounds, left, down>>
    BY <1>3 DEF Upload
  <2>2. /\ out'[c] = Tail(out[c]) /\ at'[c] = IF Tail(out[c]) = <<>> THEN "store" ELSE "upload"
        /\ \A d \in Clients \ {c} : at'[d] = at[d] /\ out'[d] = out[d] /\ up'[d] = up[d]
                                    /\ (d \in rst' <=> d \in rst)
    BY <1>1, <2>1 DEF Received, Ignored, TypeInv, TypeOK
  <2>3. \A d \in Clients \ {c} : Untouched(d)
    BY <1>1, <2>1, <2>2 DEF Untouched
  <2>4. TypedPart(c)
    BY <1>1 DEF Connection
  <2>5. PICK m \in 1 .. Len(Chunks(c)) : out[c] = SubSeq(Chunks(c), m, Len(Chunks(c)))
    BY <1>1, <2>4 DEF TypedPart
  <2>6. /\ Tail(out[c]) = SubSeq(Chunks(c), m + 1, Len(Chunks(c)))
        /\ Tail(out[c]) = <<>> <=> m = Len(Chunks(c))
        /\ Len(Tail(out[c])) = Len(Chunks(c)) - m
    BY <1>1, <2>5, OutFacts
  <2>7. Chunks(c)' = Chunks(c) /\ Stream(c)' = Stream(c)
    BY <2>1 DEF Chunks, Stream
  <2>8. TypedPart(c)'
    <3> DEFINE cl == Len(Chunks(c))
    <3>1. m # cl => m + 1 \in 1 .. cl
      <4>1. cl \in Nat /\ m \in 1 .. cl
        BY <2>5, StreamFacts
      <4> HIDE DEF cl
      <4> QED
        BY <4>1
    <3> HIDE DEF cl
    <3>2. key'[c] = key[c] /\ file'[c] = file[c] /\ at'[c] # "recv"
      <4>1. key' = key /\ file' = file
        BY <2>1
      <4>2. at'[c] = "store" \/ at'[c] = "upload"
        BY <2>2
      <4> QED
        BY <4>1, <4>2
    <3>3. key[c] \in [1 .. KeyLen -> Letters] /\ file[c] \in Seq(Letters)
      BY <1>1, <2>4 DEF TypedPart
    <3>4. at'[c] = "upload" => m # cl
      BY <2>2, <2>6 DEF cl
    <3>5. at'[c] = "upload" => \E j \in 1 .. cl : out'[c] = SubSeq(Chunks(c), j, cl)
      BY <2>2, <2>6, <3>1, <3>4 DEF cl
    <3> QED
      BY <2>7, <3>2, <3>3, <3>5 DEF TypedPart, cl
  <2>9. (at'[c] \in {"store", "upload"}) /\ Arrived(c)' = <<>> /\ Arrived(c) = <<>> /\ Alive(c) /\ Alive(c)'
    BY <1>1, <2>2 DEF Arrived, Alive
  <2>10. CASE c \in shut
    <3>1. Cut(c)'
      BY <1>1, <2>1, <2>9, <2>10 DEF Connection, Cut, serverVars
    <3>2. Connection(c)'
      BY <1>1, <2>8, <2>9, <2>10, <3>1 DEF Connection, OffPart, NoPart
    <3> QED
      BY <1>1, <2>1, <2>3, <2>9, <3>2, OneConnection DEF serverVars
  <2>11. CASE c \notin shut
    <3>1. up'[c] = up[c] \o Head(out[c]) /\ UNCHANGED rst
      BY <2>1, <2>11 DEF Received, Ignored, TypeInv, TypeOK
    <3>2. Unfound(c) /\ c \notin rst
      BY <1>1, <2>9, <2>11 DEF Connection, Found
    <3>3. PICK n \in 0 .. Sent(c) : Taken(c, n)
      BY <3>2 DEF Unfound
    <3> DEFINE e == IF m = Len(Chunks(c)) THEN Len(Stream(c)) ELSE KeyLen + m + 1
    <3>4. e \in Sent(c) .. Len(Stream(c)) /\ Head(out[c]) = SubSeq(Stream(c), Sent(c) + 1, e)
      BY <1>1, <2>4, <2>5, ChunkOfStream
    <3>5. Sent(c)' = e
      <4>1. CASE m = Len(Chunks(c))
        BY <2>2, <2>6, <2>7, <4>1 DEF Sent
      <4>2. CASE m # Len(Chunks(c))
        <5> DEFINE cl == Len(Chunks(c))
                   fl == Len(file[c])
                   ol == Len(out'[c])
                   t == Sent(c)'
        <5>1. t = IF ol = cl THEN 2 ELSE 2 + KeyLen + fl + 1 - ol
          <6>1. at'[c] = "upload" /\ file'[c] = file[c]
            BY <2>1, <2>2, <2>6, <4>2
          <6> QED
            BY <2>7, <6>1 DEF Sent
        <5>2. ol = cl - m /\ cl = fl + 2 /\ fl \in Nat /\ KeyLen \in Nat /\ m \in 1 .. cl
          BY <2>2, <2>5, <2>6, StreamFacts, EmptyIsSeq
        <5>3. e = KeyLen + m + 1
          BY <4>2
        <5> HIDE DEF e, KeyLen, cl, fl, ol, t
        <5>4. ol # cl
          BY <5>2
        <5>5. t = 2 + KeyLen + fl + 1 - ol
          BY <5>1, <5>4
        <5>6. t = e
          BY <5>2, <5>3, <5>5
        <5> QED
          BY <5>6 DEF t
      <4> QED
        BY <4>1, <4>2
    <3> HIDE DEF e
    <3>6. n \in 0 .. e /\ n \in Nat /\ Sent(c) \in n .. Len(Stream(c)) /\ e \in Sent(c) .. Len(Stream(c))
      BY <2>4, <3>3, <3>4, SentFacts
    <3>7. up'[c] = SubSeq(Stream(c), n + 1, e)
      <4>1. up[c] = SubSeq(Stream(c), n + 1, Sent(c))
        BY <3>3 DEF Taken
      <4>2. SubSeq(Stream(c), n + 1, Sent(c)) \o SubSeq(Stream(c), Sent(c) + 1, e)
              = SubSeq(Stream(c), n + 1, e)
        <5>1. Stream(c) \in Seq(Symbols)
          BY StreamFacts
        <5> QED
          BY <3>6, <5>1, AdjacentParts
      <4> QED
        BY <3>1, <3>4, <4>1, <4>2
    <3>8. Queued(c)' <=> Queued(c)
      BY <1>1 DEF Queued, serverVars
    <3>9. Taken(c, n)'
      BY <1>1, <2>1, <2>7, <2>9, <3>3, <3>5, <3>7, <3>8 DEF Taken, serverVars
    <3>10. Unfound(c)'
      BY <2>1, <2>9, <3>2, <3>5, <3>6, <3>9 DEF Unfound
    <3>11. Connection(c)'
      BY <1>1, <2>8, <2>9, <2>11, <3>1, <3>2, <3>10 DEF Connection, OffPart, NoPart
    <3> QED
      BY <1>1, <2>1, <2>3, <2>9, <3>11, OneConnection DEF serverVars
  <2> QED
    BY <2>10, <2>11
<1> QED
  BY <1>2, <1>3

LEMMA StoreAgrees ==
  ASSUME TypeInv, StreamsAgree, NEW c \in Clients, Store(c)
  PROVE  StreamsAgree'
<1>1. at[c] = "store" /\ UNCHANGED <<serverVars, up, shut, astray>> /\ Connection(c)
  BY DEF Store, StreamsAgree
<1>2. CASE Fault /\ Leave(c, "early")
  BY <1>1, <1>2, LeaveEarly DEF Fault
<1>3. CASE ~(Fault /\ Leave(c, "early"))
  <2>1. /\ at' = [at EXCEPT ![c] = "recv"]
        /\ got' = [got EXCEPT ![c] = <<>>] /\ whole' = [whole EXCEPT ![c] = FALSE]
        /\ UNCHANGED <<key, file, out, rounds, left, down, rst, faults>>
    BY <1>3 DEF Store
  <2>2. /\ at'[c] = "recv" /\ got'[c] = <<>> /\ whole'[c] = FALSE
        /\ \A d \in Clients \ {c} : at'[d] = at[d] /\ got'[d] = got[d] /\ whole'[d] = whole[d]
    BY <2>1 DEF TypeInv, TypeOK
  <2>3. \A d \in Clients \ {c} : Untouched(d)
    BY <1>1, <2>1, <2>2 DEF Untouched
  <2>4. Stream(c)' = Stream(c) /\ Arrived(c)' = <<>> /\ Arrived(c) = <<>> /\ Alive(c) /\ Alive(c)'
    BY <1>1, <2>1, <2>2 DEF Stream, Arrived, Alive
  <2>5. Sent(c)' = Sent(c)
    BY <1>1, <2>2, <2>4 DEF Sent
  <2>6. Queued(c)' <=> Queued(c)
    BY <1>1 DEF Queued, serverVars
  <2>7. TypedPart(c)' /\ OffPart(c)' /\ NoPart(c)'
    BY <1>1, <2>1, <2>2 DEF Connection, TypedPart, OffPart, NoPart
  <2>8. Cut(c) => Cut(c)'
    BY <1>1, <2>1, <2>2 DEF Cut, serverVars
  <2>9. Unfound(c) => Unfound(c)'
    <3> SUFFICES ASSUME Unfound(c) PROVE Unfound(c)'
      OBVIOUS
    <3>1. PICK n \in 0 .. Sent(c) : Taken(c, n)
      BY DEF Unfound
    <3>2. Taken(c, n)'
      BY <1>1, <2>1, <2>2, <2>4, <2>5, <2>6, <3>1 DEF Taken, serverVars
    <3> QED
      BY <2>1, <2>2, <2>4, <2>5, <3>2 DEF Unfound
  <2>10. Found(c) => Found(c)'
    <3> SUFFICES ASSUME Found(c) PROVE Found(c)'
      OBVIOUS
    <3>1. Result' = Result
      BY <1>1 DEF Result, serverVars
    <3>2. \A n : Returned(c, n) => Returned(c, n)'
      BY <1>1, <2>1, <2>4, <3>1 DEF Returned, serverVars
    <3>3. phase' = "reply" => \E n \in 0 .. Len(sfile') : Returned(c, n)'
      BY <1>1, <3>2 DEF Found, serverVars
    <3> QED
      BY <1>1, <2>1, <2>2, <2>4, <3>3 DEF Found, serverVars
  <2>11. Connection(c)'
    BY <1>1, <2>1, <2>4, <2>7, <2>8, <2>9, <2>10 DEF Connection
  <2> QED
    BY <1>1, <2>1, <2>2, <2>3, <2>11, OneConnection DEF serverVars
<1> QED
  BY <1>2, <1>3

(* A client that asks its user has its whole file, or has been cut off.    *)
LEMMA AskFacts ==
  ASSUME TypeInv, StreamsAgree, NEW c \in Clients, at[c] = "ask", c \notin shut
  PROVE  /\ serving = c /\ phase = "more" /\ up[c] = <<>> /\ down[c] = <<>> /\ c \notin rst
         /\ ~astray[c] => whole[c] /\ got[c] = Encryption(key[c], file[c])
<1>1. Found(c) /\ c \notin rst
  BY DEF StreamsAgree, Connection, Alive, Unfound
<1> QED
  BY <1>1 DEF Found

LEMMA AnswerAgrees ==
  ASSUME TypeInv, StreamsAgree, NEW c \in Clients, NEW reply \in {Yes, No}, Answer(c, reply)
  PROVE  StreamsAgree'
<1>1. at[c] = "ask" /\ UNCHANGED <<serverVars, shut, faults, astray>> /\ Connection(c)
  BY DEF Answer, StreamsAgree
<1>2. CASE Killed(c) /\ UNCHANGED up
  BY <1>1, <1>2, LeaveEarly DEF Killed
<1>3. CASE /\ up' = IF c \in shut THEN up ELSE [up EXCEPT ![c] = @ \o No]
           /\ Leave(c, "answered")
  <2>1. QueuePart'
    BY <1>1, <1>3, LeaveKeeps DEF StreamsAgree, serverVars
  <2>2. at'[c] = "gone" /\ left'[c] = "answered" /\ Alive(c)
    BY <1>1, <1>3 DEF Leave, TypeInv, TypeOK, Alive
  <2>3. NoPart(c)'
    <3>1. CASE c \in shut
      BY <1>1, <3>1 DEF NoPart
    <3>2. CASE c \notin shut
      <4>1. serving = c /\ phase = "more" /\ up[c] = <<>> /\ down[c] = <<>> /\ c \notin rst
        BY <1>1, <3>2, AskFacts
      <4>2. <<>> \o No = No
        BY SymbolsFacts, ConcatEmptySeq
      <4>3. up'[c] = No
        BY <1>3, <3>2, <4>1, <4>2 DEF TypeInv, TypeOK
      <4>4. c \notin rst'
        BY <1>3, <4>1 DEF Leave
      <4> QED
        BY <1>1, <4>1, <4>3, <4>4 DEF NoPart, serverVars
    <3> QED
      BY <3>1, <3>2
  <2>4. Connection(c)'
    BY <2>2, <2>3 DEF Connection, TypedPart, OffPart, Alive
  <2>5. ASSUME NEW d \in Clients, d # c PROVE Connection(d)'
    <3>1. Untouched(d)
      BY <1>1, <1>3, <2>5 DEF Untouched, Leave, TypeInv, TypeOK
    <3>2. Queued(d)' <=> Queued(d)
      BY <1>1 DEF Queued, serverVars
    <3>3. Apart(d)
      BY <1>1, <3>2 DEF Apart, serverVars
    <3> QED
      BY <3>1, <3>3, ConnectionKept DEF StreamsAgree
  <2> QED
    BY <2>1, <2>4, <2>5 DEF StreamsAgree
<1>4. CASE /\ Received(c, reply) \/ Ignored(c)
           /\ reply = Yes
           /\ at' = [at EXCEPT ![c] = "prompt"]
           /\ UNCHANGED <<key, file, out, got, whole, rounds, left, down>>
  <2>1. /\ at'[c] = "prompt"
        /\ \A d \in Clients \ {c} : at'[d] = at[d] /\ up'[d] = up[d] /\ (d \in rst' <=> d \in rst)
    BY <1>4 DEF Received, Ignored, TypeInv, TypeOK
  <2>2. \A d \in Clients \ {c} : Untouched(d)
    BY <1>1, <1>4, <2>1 DEF Untouched
  <2>3. Stream(c)' = Stream(c) /\ Sent(c)' = 2 /\ Arrived(c)' = <<>> /\ Alive(c) /\ Alive(c)'
    BY <1>1, <1>4, <2>1 DEF Stream, Sent, Arrived, Alive
  <2>4. TypedPart(c)' /\ OffPart(c)' /\ NoPart(c)'
    BY <2>1 DEF TypedPart, OffPart, NoPart
  <2>5. CASE c \in shut
    <3>1. Cut(c)'
      BY <1>1, <1>4, <2>1, <2>3, <2>5 DEF Connection, Cut, serverVars
    <3>2. Connection(c)'
      BY <1>1, <2>3, <2>4, <2>5, <3>1 DEF Connection
    <3> QED
      BY <1>1, <1>4, <2>1, <2>2, <3>2, OneConnection DEF serverVars
  <2>6. CASE c \notin shut
    <3>1. serving = c /\ phase = "more" /\ up[c] = <<>> /\ down[c] = <<>> /\ c \notin rst
      BY <1>1, <2>6, AskFacts
    <3>2. <<>> \o Yes = Yes
      BY SymbolsFacts, ConcatEmptySeq
    <3>3. up'[c] = Yes /\ UNCHANGED rst
      BY <1>4, <2>6, <3>1, <3>2 DEF Received, Ignored, TypeInv, TypeOK
    <3>4. Yes = SubSeq(Stream(c), 0 + 1, 2)
      <4> DEFINE s == Stream(c)
                 y == Yes
                 z == 0
                 t == 2
      <4>1. s \in Seq(Symbols) /\ Len(s) \in Nat /\ Len(s) >= 4 /\ s[1] = y[1] /\ s[2] = y[2]
        BY StreamFacts
      <4>2. y \in Seq(Symbols) /\ Len(y) = 2
        BY SymbolsFacts
      <4> HIDE DEF s, y
      <4>3. t \in z .. Len(s) /\ z \in Nat /\ Len(y) = t - z
        BY <4>1, <4>2
      <4>4. Holds(s, z, y)
        <5>1. \A i \in 1 .. Len(y) : i = 1 \/ i = 2
          BY <4>2
        <5> QED
          BY <4>1, <5>1 DEF Holds
      <4> HIDE DEF z, t
      <4>5. SubSeq(s, z + 1, t) = y
        BY <4>1, <4>2, <4>3, <4>4, PartIs
      <4> QED
        BY <4>5 DEF s, y, z, t
    <3>5. ~Queued(c)'
      BY <1>1, <3>1 DEF Queued, serverVars, StreamsAgree, QueuePart
    <3>6. Taken(c, 0)'
      BY <1>1, <2>3, <3>1, <3>3, <3>4, <3>5 DEF Taken, serverVars
    <3>7. Unfound(c)'
      BY <1>4, <2>1, <2>3, <3>1, <3>6 DEF Unfound
    <3>8. Connection(c)'
      BY <1>1, <2>3, <2>4, <2>6, <3>1, <3>3, <3>7 DEF Connection
    <3> QED
      BY <1>1, <1>4, <2>1, <2>2, <3>8, OneConnection DEF serverVars
  <2> QED
    BY <2>5, <2>6
<1> QED
  BY <1>2, <1>3, <1>4 DEF Answer

-----------------------------------------------------------------------------
(* What the client takes of the result.                                    *)
LEMMA PieceAndRest ==
  ASSUME NEW S, NEW d \in Seq(S), NEW b \in Nat, NEW piece \in Pieces(d, b)
  PROVE  /\ Len(piece) \in 1 .. Len(d) /\ piece \in Seq(S) /\ Begins(d, piece)
         /\ Rest(d, piece) \in Seq(S) /\ Len(Rest(d, piece)) = Len(d) - Len(piece)
         /\ Holds(d, Len(piece), Rest(d, piece))
         /\ piece \o Rest(d, piece) = d /\ Len(d) \in Nat
<1> DEFINE k == Len(piece)
           r == Rest(d, piece)
           l == Len(d)
           z == 0
<1>1. piece \in Seq(S) /\ k \in 1 .. b /\ k <= l /\ piece = SubSeq(d, 1, k)
  BY PieceFacts
<1>2. r = SubSeq(d, k + 1, l)
  BY DEF Rest
<1>a. l \in Nat /\ l = Len(d)
  BY LenProperties
<1>b. SubSeq(d, 1, l) = d
  BY SubSeqFull
<1> HIDE DEF k, r, l
<1>3. /\ z \in Nat /\ k \in Nat /\ k \in 1 .. l /\ k \in z .. Len(d) /\ l \in k .. Len(d)
      /\ z + 1 = 1 /\ k - z = k /\ l \in z .. Len(d)
  BY <1>1, <1>a
<1> HIDE DEF z
<1>c. piece = SubSeq(d, z + 1, k) /\ d = SubSeq(d, z + 1, l)
  BY <1>1, <1>3, <1>b
<1>4. Begins(d, piece)
  <2>1. \A i \in 1 .. k - z : SubSeq(d, z + 1, k)[i] = d[z + i]
    BY <1>3, PartFacts
  <2>2. \A i \in 1 .. k : z + i = i
    BY <1>3 DEF z
  <2>3. \A i \in 1 .. k : piece[i] = d[i]
    BY <1>3, <1>c, <2>1, <2>2
  <2> QED
    BY <2>3 DEF Begins, k
<1>5. r \in Seq(S) /\ Len(r) = l - k /\ \A i \in 1 .. l - k : r[i] = d[k + i]
  <2>1. /\ SubSeq(d, k + 1, l) \in Seq(S) /\ Len(SubSeq(d, k + 1, l)) = l - k
        /\ \A i \in 1 .. l - k : SubSeq(d, k + 1, l)[i] = d[k + i]
    BY <1>3, PartFacts
  <2> QED
    BY <2>1, <1>2
<1>6. Holds(d, k, r)
  BY <1>5 DEF Holds
<1>7. piece \o r = d
  <2>1. SubSeq(d, z + 1, k) \o SubSeq(d, k + 1, l) = SubSeq(d, z + 1, l)
    <3>1. z \in Nat /\ k \in z .. Len(d) /\ l \in k .. Len(d)
      BY <1>3
    <3> QED
      BY <3>1, AdjacentParts
  <2> QED
    BY <1>2, <1>c, <2>1
<1> QED
  BY <1>1, <1>3, <1>4, <1>5, <1>6, <1>7, <1>a DEF k, r, l

LEMMA PlainPiece ==
  ASSUME NEW d \in Seq(Symbols), Plain(d), NEW b \in Nat, NEW piece \in Pieces(d, b)
  PROVE  ~Ends(piece) /\ ~Splits(piece) /\ Before(piece) = piece /\ Plain(Rest(d, piece))
<1> DEFINE k == Len(piece)
           r == Rest(d, piece)
<1>0. /\ k \in 1 .. Len(d) /\ piece \in Seq(Symbols) /\ Begins(d, piece)
      /\ r \in Seq(Symbols) /\ Len(r) = Len(d) - k /\ Holds(d, k, r)
      /\ Len(d) \in Nat
  <2> HIDE DEF Symbols
  <2> QED
    BY PieceAndRest
<1>1. /\ k \in 1 .. Len(d) /\ piece \in Seq(Symbols) /\ \A i \in 1 .. k : piece[i] = d[i]
      /\ r \in Seq(Symbols) /\ Len(r) = Len(d) - k /\ \A i \in 1 .. Len(d) - k : r[i] = d[k + i]
      /\ Len(d) \in Nat
  <2>1. \A i \in 1 .. k : piece[i] = d[i]
    BY <1>0 DEF Begins
  <2> HIDE DEF r, k
  <2>2. \A i \in 1 .. Len(d) - k : r[i] = d[k + i]
    BY <1>0 DEF Holds
  <2> QED
    BY <1>0, <2>1, <2>2
<1> HIDE DEF k, r, Marker, Symbols
<1>2. \A i \in 1 .. Len(d) : d[i] # Marker[1] /\ d[i] # Marker[2]
  <2>1. DOMAIN d = 1 .. Len(d)
    BY LenProperties
  <2> QED
    BY <2>1 DEF Plain
<1>3. \A i \in 1 .. k : i \in 1 .. Len(d)
  BY <1>1
<1>4. ~Splits(piece)
  <2>1. k \in 1 .. k
    BY <1>1
  <2>2. piece[k] # Marker[1]
    BY <2>1, <1>1, <1>2, <1>3
  <2> QED
    BY <2>2 DEF Splits, k
<1>5. ~Ends(piece)
  <2> SUFFICES ASSUME NEW i \in MarkedAt(piece) PROVE FALSE
    BY DEF Ends
  <2>1. i \in 1 .. Len(piece) - 1
    BY DEF MarkedAt
  <2>2. piece[i] = Marker[1]
    BY <1>1, <2>1, MarkedAtFacts
  <2>3. i \in 1 .. k
    BY <1>1, <2>1 DEF k
  <2> QED
    BY <2>2, <2>3, <1>1, <1>2, <1>3
<1>6. Before(piece) = piece
  BY <1>5 DEF Before
<1>7. Plain(r)
  <2>1. DOMAIN r = 1 .. Len(d) - k
    BY <1>1, LenProperties
  <2>2. \A i \in 1 .. Len(d) - k : k + i \in 1 .. Len(d)
    BY <1>1
  <2> QED
    BY <2>1, <2>2, <1>1, <1>2, SMTT(30) DEF Plain
<1> QED
  BY <1>4, <1>5, <1>6, <1>7 DEF r

(* A piece that holds the marker is all there is.                          *)
LEMMA LastPiece ==
  ASSUME NEW d \in Seq(Symbols), MarkerLast(d), NEW b \in Nat, NEW piece \in Pieces(d, b)
  PROVE  /\ Ends(piece) => /\ Len(d) >= 2 /\ Rest(d, piece) = <<>>
                           /\ Before(piece) = SubSeq(d, 1, Len(d) - 2)
         /\ MarkerLast(Rest(d, piece))
<1> DEFINE k == Len(piece)
           r == Rest(d, piece)
<1>0. /\ k \in 1 .. Len(d) /\ piece \in Seq(Symbols) /\ Begins(d, piece)
      /\ r \in Seq(Symbols) /\ Len(r) = Len(d) - k /\ Holds(d, k, r)
      /\ Len(d) \in Nat
  <2> HIDE DEF Symbols
  <2> QED
    BY PieceAndRest
<1>1. /\ k \in 1 .. Len(d) /\ piece \in Seq(Symbols) /\ \A i \in 1 .. k : piece[i] = d[i]
      /\ r \in Seq(Symbols) /\ Len(r) = Len(d) - k /\ \A i \in 1 .. Len(d) - k : r[i] = d[k + i]
      /\ Len(d) \in Nat
  <2>1. \A i \in 1 .. k : piece[i] = d[i]
    BY <1>0 DEF Begins
  <2> HIDE DEF r, k
  <2>2. \A i \in 1 .. Len(d) - k : r[i] = d[k + i]
    BY <1>0 DEF Holds
  <2> QED
    BY <1>0, <2>1, <2>2
<1>2. piece = SubSeq(d, 1, k)
  BY PieceFacts
<1> HIDE DEF k, r, Marker, Symbols
<1>3. \A i \in 1 .. Len(d) : /\ d[i] = Marker[1] => i = Len(d) - 1
                             /\ d[i] = Marker[2] => i = Len(d)
  <2>1. DOMAIN d = 1 .. Len(d)
    BY LenProperties
  <2> QED
    BY <2>1 DEF MarkerLast
<1>4. ASSUME Ends(piece)
      PROVE  Len(d) >= 2 /\ r = <<>> /\ Before(piece) = SubSeq(d, 1, Len(d) - 2)
  <2>1. PICK i \in MarkedAt(piece) : Before(piece) = SubSeq(piece, 1, i - 1)
    BY <1>1, <1>4, BeforeFacts
  <2>2. i \in 1 .. Len(piece) - 1
    BY DEF MarkedAt
  <2>3. piece[i] = Marker[1] /\ piece[i + 1] = Marker[2]
    BY <1>1, <2>2, MarkedAtFacts
  <2>4. i \in 1 .. k /\ i + 1 \in 1 .. k /\ i + 1 \in 1 .. Len(d)
    BY <1>1, <2>2 DEF k
  <2>5. i + 1 = Len(d)
    BY <2>3, <2>4, <1>1, <1>3
  <2>6. k = Len(d) /\ i - 1 = Len(d) - 2 /\ Len(d) >= 2 /\ Len(r) = 0
    BY <1>1, <2>4, <2>5
  <2>7. r = <<>>
    BY <1>1, <2>6, EmptySeq
  <2>8. piece = d
    BY <1>2, <2>6, SubSeqFull
  <2> QED
    BY <2>1, <2>6, <2>7, <2>8
<1>5. MarkerLast(r)
  <2>1. DOMAIN r = 1 .. Len(d) - k
    BY <1>1, LenProperties
  <2>2. \A i \in 1 .. Len(d) - k : k + i \in 1 .. Len(d) /\ k \in Nat
    BY <1>1
  <2>3. ASSUME NEW i \in 1 .. Len(d) - k
        PROVE  /\ r[i] = Marker[1] => i = Len(r) - 1
               /\ r[i] = Marker[2] => i = Len(r)
    <3>1. /\ r[i] = Marker[1] => k + i = Len(d) - 1
          /\ r[i] = Marker[2] => k + i = Len(d)
      <4> DEFINE j == k + i
      <4>1. j \in 1 .. Len(d) /\ r[i] = d[j]
        BY <1>1, <2>2
      <4> HIDE DEF j
      <4>2. /\ d[j] = Marker[1] => j = Len(d) - 1
            /\ d[j] = Marker[2] => j = Len(d)
        BY <4>1, <1>3
      <4> QED
        BY <4>1, <4>2 DEF j
    <3>2. /\ k + i = Len(d) - 1 => i = Len(d) - k - 1
          /\ k + i = Len(d) => i = Len(d) - k
      BY <1>1
    <3> QED
      BY <1>1, <3>1, <3>2
  <2> QED
    BY <2>1, <2>3 DEF MarkerLast
<1> QED
  BY <1>4, <1>5 DEF r

(* What has come and what is on its way are e and its marker.              *)
LEMMA WholeAndRest ==
  ASSUME NEW g \in Seq(Symbols), NEW d \in Seq(Symbols), NEW e \in Seq(Symbols \cup {Nul}),
         g \o d = e \o Marker, Len(g) <= Len(e)
  PROVE  /\ Len(g) + Len(d) = Len(e) + 2 /\ Len(g) \in Nat /\ Len(d) \in Nat /\ Len(e) \in Nat
         /\ Len(d) >= 2 /\ d[Len(d) - 1] = Marker[1] /\ d[Len(d)] = Marker[2]
         /\ g \o SubSeq(d, 1, Len(d) - 2) = e
<1> DEFINE T == Symbols \cup {Nul}
<1>1. g \in Seq(T) /\ d \in Seq(T) /\ e \in Seq(T) /\ Marker \in Seq(T) /\ Len(Marker) = 2
  BY SymbolsFacts, SeqMonotonic
<1> HIDE DEF T, Marker, Symbols
<1> DEFINE w == g \o d
           gl == Len(g)
           dl == Len(d)
           el == Len(e)
           n == dl - 2
           z == 0
<1>2. /\ Len(w) = gl + dl /\ gl \in Nat /\ dl \in Nat
      /\ Begins(w, g) /\ Holds(w, gl, d)
  BY <1>1, Joined
<1>3. /\ Len(w) = el + 2 /\ el \in Nat
      /\ Begins(w, e) /\ Holds(w, el, Marker)
  <2>1. /\ Len(e \o Marker) = el + Len(Marker) /\ el \in Nat
        /\ Begins(e \o Marker, e) /\ Holds(e \o Marker, el, Marker)
    BY <1>1, Joined
  <2> QED
    BY <2>1, <1>1
<1>0. gl <= el
  OBVIOUS
<1> HIDE DEF w, gl, dl, el
<1>4. /\ gl + dl = el + 2 /\ dl >= 2 /\ dl - 1 \in 1 .. dl /\ dl \in 1 .. dl
      /\ gl + (dl - 1) = el + 1
  <2>1. gl \in Nat /\ dl \in Nat /\ el \in Nat /\ gl + dl = el + 2 /\ gl <= el
    BY <1>0, <1>2, <1>3
  <2> QED
    BY <2>1
<1>5. d[dl - 1] = Marker[1] /\ d[dl] = Marker[2]
  <2>1. w[el + 1] = Marker[1] /\ w[el + 2] = Marker[2]
    <3>1. 1 \in 1 .. Len(Marker) /\ 2 \in 1 .. Len(Marker)
      BY <1>1
    <3> QED
      BY <3>1, <1>3 DEF Holds
  <2>2. w[gl + (dl - 1)] = d[dl - 1] /\ w[gl + dl] = d[dl]
    BY <1>2, <1>4 DEF Holds, dl
  <2> QED
    BY <2>1, <2>2, <1>4
<1> DEFINE q == SubSeq(d, z + 1, n)
<1>a. /\ n \in Nat /\ n \in z .. dl /\ z \in Nat /\ n - z = n /\ gl + n = el
      /\ \A i \in 1 .. n : z + i = i /\ i \in 1 .. dl
  BY <1>2, <1>3, <1>4
<1> HIDE DEF n, z
<1>6. q \in Seq(T) /\ Len(q) = n /\ \A i \in 1 .. n : q[i] = d[i]
  <2>1. n \in z .. Len(d)
    BY <1>a DEF dl
  <2>2. q \in Seq(T) /\ Len(q) = n - z /\ \A i \in 1 .. n - z : q[i] = d[z + i]
    BY <2>1, <1>1, <1>a, PartFacts
  <2> HIDE DEF q
  <2>3. q \in Seq(T) /\ Len(q) = n
    BY <2>2, <1>a
  <2>4. \A i \in 1 .. n : q[i] = d[z + i] /\ z + i = i
    BY <2>2, <1>a
  <2> QED
    BY <2>3, <2>4
<1> HIDE DEF q
<1> DEFINE v == g \o q
<1>7. v \in Seq(T) /\ Len(v) = gl + Len(q) /\ Begins(v, g) /\ Holds(v, gl, q)
  BY <1>1, <1>6, Joined DEF gl
<1> HIDE DEF v
<1>8. ASSUME NEW i \in 1 .. el PROVE v[i] = e[i]
  <2>0. e[i] = w[i]
    BY <1>3 DEF Begins, el
  <2>1. CASE i <= gl
    <3>1. i \in 1 .. Len(g)
      BY <1>2, <2>1 DEF gl
    <3>2. v[i] = g[i] /\ w[i] = g[i]
      BY <3>1, <1>2, <1>7 DEF Begins
    <3> QED
      BY <2>0, <3>2
  <2>2. CASE i > gl
    <3> DEFINE j == i - gl
    <3>1. j \in 1 .. n /\ j \in 1 .. dl /\ gl + j = i
      BY <1>2, <1>3, <1>a, <2>2
    <3> HIDE DEF j
    <3>2. j \in 1 .. Len(q) /\ j \in 1 .. Len(d)
      BY <3>1, <1>6 DEF dl
    <3>3. v[gl + j] = q[j] /\ w[gl + j] = d[j] /\ q[j] = d[j]
      BY <3>1, <3>2, <1>2, <1>6, <1>7 DEF Holds
    <3> QED
      BY <2>0, <3>1, <3>3
  <2>3. i <= gl \/ i > gl
    BY <1>2
  <2> QED
    BY <2>1, <2>2, <2>3
<1>9. Len(v) = el
  BY <1>2, <1>a, <1>6, <1>7
<1>10. v = e
  <2>1. \A i \in 1 .. Len(v) : v[i] = e[i]
    BY <1>8, <1>9
  <2> QED
    BY <1>1, <1>7, <1>9, <2>1, SeqEqual DEF el
<1>11. z + 1 = 1
  BY DEF z
<1> QED
  BY <1>0, <1>2, <1>3, <1>4, <1>5, <1>10, <1>11 DEF gl, dl, el, n, q, v

(* A piece without the marker, or the beginning of it at its end, is part  *)
(* of e.                                                                   *)
LEMMA PieceOfWhole ==
  ASSUME NEW g \in Seq(Symbols), NEW d \in Seq(Symbols), NEW e \in Seq(Symbols \cup {Nul}),
         g \o d = e \o Marker, Len(g) <= Len(e),
         NEW b \in Nat, NEW piece \in Pieces(d, b), ~Ends(piece), ~Splits(piece)
  PROVE  Len(g \o piece) <= Len(e)
<1> DEFINE k == Len(piece)
           gl == Len(g)
           dl == Len(d)
           el == Len(e)
<1>0. k \in 1 .. dl /\ piece \in Seq(Symbols) /\ Begins(d, piece)
  <2> HIDE DEF Symbols
  <2> QED
    BY PieceAndRest
<1>1. \A i \in 1 .. k : piece[i] = d[i]
  BY <1>0 DEF Begins
<1>2. /\ gl + dl = el + 2 /\ gl \in Nat /\ dl \in Nat /\ el \in Nat
      /\ dl >= 2 /\ d[dl - 1] = Marker[1] /\ d[dl] = Marker[2]
  BY WholeAndRest
<1>3. Len(g \o piece) = gl + k
  BY <1>0, Joined
<1>6. piece[k] # Marker[1] /\ \A i \in 1 .. k - 1 : i \notin MarkedAt(piece)
  BY DEF Splits, Ends
<1>7. \A i \in 1 .. k - 1 : i \in MarkedAt(piece) <=> piece[i] = Marker[1] /\ piece[i + 1] = Marker[2]
  BY <1>0, MarkedAtFacts
<1> HIDE DEF k, gl, dl, el, Marker, Symbols
<1>4. k # dl - 1
  <2> SUFFICES ASSUME k = dl - 1 PROVE FALSE
    OBVIOUS
  <2>1. k \in 1 .. k
    BY <1>0, <1>2
  <2>2. piece[k] = Marker[1]
    BY <1>1, <1>2, <2>1
  <2> QED
    BY <2>2, <1>6
<1>5. k # dl
  <2> SUFFICES ASSUME k = dl PROVE FALSE
    OBVIOUS
  <2> DEFINE i == k - 1
  <2>1. i \in 1 .. k - 1 /\ i \in 1 .. k /\ i + 1 \in 1 .. k /\ i = dl - 1 /\ i + 1 = dl
    BY <1>0, <1>2
  <2> HIDE DEF i
  <2>2. piece[i] = Marker[1] /\ piece[i + 1] = Marker[2]
    BY <1>1, <1>2, <2>1
  <2> QED
    BY <2>1, <2>2, <1>6, <1>7
<1>8. gl + k <= el
  <2>1. k \in 1 .. dl /\ dl \in Nat /\ gl \in Nat /\ el \in Nat /\ gl + dl = el + 2
    BY <1>0, <1>2
  <2> QED
    BY <2>1, <1>4, <1>5
<1> QED
  BY <1>3, <1>8 DEF el

LEMMA ClientRecvAgrees ==
  ASSUME TypeInv, StreamsAgree, NEW c \in Clients, ClientRecv(c)
  PROVE  StreamsAgree'
<1>1. /\ at[c] = "recv" /\ Connection(c) /\ Alive(c) /\ Arrived(c) = got[c] /\ ~whole[c]
      /\ UNCHANGED <<serverVars, key, file, out, rounds, left, up, shut, rst, faults>>
  BY DEF ClientRecv, StreamsAgree, Alive, Arrived, Connection, TypedPart
<1>2. (Queued(c)' <=> Queued(c)) /\ Stream(c)' = Stream(c) /\ Result' = Result
  BY <1>1 DEF Queued, Stream, Result, serverVars
<1>3. CASE /\ down[c] = <<>> /\ c \in shut
           /\ at' = [at EXCEPT ![c] = "ask"]
           /\ UNCHANGED <<down, got, whole, astray>>
  <2>1. at'[c] = "ask" /\ \A d \in Clients \ {c} : at'[d] = at[d]
    BY <1>3 DEF TypeInv, TypeOK
  <2>2. \A d \in Clients \ {c} : Untouched(d)
    BY <1>1, <1>3, <2>1 DEF Untouched
  <2>3. Cut(c)'
    BY <1>1, <1>3, <2>1 DEF Connection, Cut, serverVars
  <2>4. Connection(c)'
    BY <1>1, <1>3, <2>1, <2>3 DEF Connection, TypedPart, OffPart, NoPart
  <2> QED
    BY <1>1, <2>1, <2>2, <2>4, OneConnection DEF serverVars
<1>4. ASSUME NEW piece \in Pieces(down[c], Buf),
             down' = [down EXCEPT ![c] = Rest(@, piece)],
             got' = [got EXCEPT ![c] = @ \o Before(piece)],
             whole' = [whole EXCEPT ![c] = Ends(piece)],
             at' = [at EXCEPT ![c] = IF Ends(piece) THEN "ask" ELSE @],
             Astray(c, Splits(piece))
      PROVE  StreamsAgree'
  <2> DEFINE d == down[c]
             g == got[c]
             e == Encryption(key[c], file[c])
             r == Rest(d, piece)
  <2>1. /\ down'[c] = r /\ got'[c] = g \o Before(piece) /\ whole'[c] = Ends(piece)
        /\ at'[c] = (IF Ends(piece) THEN "ask" ELSE "recv")
        /\ astray'[c] = (astray[c] \/ Splits(piece))
        /\ \A x \in Clients \ {c} : /\ down'[x] = down[x] /\ got'[x] = got[x] /\ whole'[x] = whole[x]
                                    /\ at'[x] = at[x] /\ astray'[x] = astray[x]
    BY <1>1, <1>4 DEF Astray, TypeInv, TypeOK
  <2>2. \A x \in Clients \ {c} : Untouched(x)
    BY <1>1, <2>1 DEF Untouched
  <2>3. d \in Seq(Symbols) /\ g \in Seq(Symbols) /\ Buf \in Nat
    BY EncFileAssumption DEF TypeInv, TypeOK
  <2>4. e \in Seq(Symbols \cup {Nul}) /\ Len(e) = Len(file[c])
    <3>1. key[c] \in Seq(Symbols) /\ file[c] \in Seq(Symbols)
      BY StreamFacts, SymbolsFacts, SeqMonotonic
    <3> QED
      BY <3>1, EncryptionFacts
  <2>5. d # <<>> /\ piece \in Seq(Symbols) /\ r \in Seq(Symbols) /\ piece \o r = d
    BY <2>3, PieceFacts, PieceAndRest
  <2>6. c \notin shut /\ Found(c) /\ c \notin rst /\ phase \in {"reply", "more"} /\ serving = c
    BY <1>1, <2>5 DEF Connection, Cut, Unfound, Found
  <2>7. ~Ends(piece) => got'[c] = g \o piece /\ got'[c] \o r = g \o d
    <3> SUFFICES ASSUME ~Ends(piece) PROVE got'[c] = g \o piece /\ got'[c] \o r = g \o d
      OBVIOUS
    <3>1. got'[c] = g \o piece
      BY <2>1 DEF Before
    <3>3. g \in Seq(Symbols) /\ piece \in Seq(Symbols) /\ r \in Seq(Symbols)
      BY <2>3, <2>5
    <3> HIDE DEF g, r, d, Symbols
    <3>2. (g \o piece) \o r = g \o (piece \o r)
      BY <3>3, ConcatAssociative
    <3> QED
      BY <3>1, <3>2, <2>5
  <2>8. Arrived(c)' = (IF Ends(piece) THEN <<>> ELSE got'[c]) /\ Alive(c)'
    BY <2>1 DEF Arrived, Alive
  <2>9. TypedPart(c)' /\ OffPart(c)' /\ NoPart(c)'
    BY <1>1, <2>1 DEF Connection, TypedPart, OffPart, NoPart
  <2>10. Found(c)'
    <3>1. CASE phase = "reply"
      <4>1. PICK n \in 0 .. Len(sfile) : Returned(c, n)
        BY <2>6, <3>1 DEF Found
      <4>2. Plain(d)
        BY <4>1 DEF Returned
      <4>3. ~Ends(piece) /\ ~Splits(piece) /\ Plain(r)
        BY <2>3, <4>2, PlainPiece
      <4>4. (Encryption(key[c], file[c]))' = e
        BY <1>1
      <4>5. Returned(c, n)'
        <5>1. sout' = SubSeq(Result, n + 1, Len(Result))
          BY <1>1, <4>1 DEF Returned, serverVars
        <5>2. ~astray'[c] => got'[c] \o down'[c] = SubSeq(e, 1, n)
          BY <1>1, <2>1, <2>7, <4>1, <4>3 DEF Returned
        <5> QED
          BY <1>2, <2>1, <2>8, <4>3, <4>4, <5>1, <5>2 DEF Returned
      <4>6. phase' = phase /\ serving' = c /\ sfile' = sfile /\ skey' = skey /\ at'[c] = "recv"
        BY <1>1, <2>1, <2>6, <4>3 DEF serverVars
      <4>7. phase # "more" => Plain(skey) /\ Plain(sfile) /\ (~astray[c] => skey = key[c] /\ sfile = file[c])
        BY <2>6 DEF Found
      <4>8. up'[c] = <<>> /\ key'[c] = key[c] /\ file'[c] = file[c]
        BY <1>1, <2>6 DEF Found
      <4> QED
        BY <2>1, <3>1, <4>5, <4>6, <4>7, <4>8 DEF Found
    <3>2. CASE phase = "more"
      <4>1. /\ MarkerLast(d)
            /\ ~astray[c] => Len(g) <= Len(file[c]) /\ g \o d = e \o Marker
        BY <1>1, <2>6, <3>2 DEF Found
      <4>2. /\ Ends(piece) => /\ Len(d) >= 2 /\ r = <<>>
                              /\ Before(piece) = SubSeq(d, 1, Len(d) - 2)
            /\ MarkerLast(r)
        BY <2>3, <4>1, LastPiece
      <4>3. phase' = "more" /\ serving' = c /\ up'[c] = <<>> /\ key'[c] = key[c] /\ file'[c] = file[c]
        BY <1>1, <2>6, <3>2 DEF Found, serverVars
      <4>4. CASE Ends(piece)
        <5>1. ~astray'[c] => whole'[c] /\ got'[c] = e
          <6> SUFFICES ASSUME ~astray'[c] PROVE whole'[c] /\ got'[c] = e
            OBVIOUS
          <6>1. g \o d = e \o Marker /\ Len(g) <= Len(e)
            BY <2>1, <2>4, <4>1
          <6>2. g \o SubSeq(d, 1, Len(d) - 2) = e
            <7>1. g \in Seq(Symbols) /\ d \in Seq(Symbols) /\ e \in Seq(Symbols \cup {Nul})
              BY <2>3, <2>4
            <7> HIDE DEF g, d, e, Symbols, Marker, Nul
            <7> QED
              BY <6>1, <7>1, WholeAndRest
          <6> QED
            BY <2>1, <4>2, <4>4, <6>2
        <5>2. at'[c] = "ask" /\ down'[c] = <<>>
          BY <2>1, <4>2, <4>4
        <5> QED
          BY <4>3, <5>1, <5>2 DEF Found
      <4>5. CASE ~Ends(piece)
        <5>1. at'[c] = "recv" /\ Arrived(c)' = got'[c] /\ down'[c] = r
          BY <2>1, <2>8, <4>5
        <5>2. ~astray'[c] => Len(got'[c]) <= Len(file[c]) /\ got'[c] \o r = e \o Marker
          <6> SUFFICES ASSUME ~astray'[c]
                       PROVE  Len(got'[c]) <= Len(file[c]) /\ got'[c] \o r = e \o Marker
            OBVIOUS
          <6>1. g \o d = e \o Marker /\ Len(g) <= Len(e) /\ ~Splits(piece)
            BY <2>1, <2>4, <4>1
          <6>2. Len(g \o piece) <= Len(e)
            BY <2>3, <2>4, <4>5, <6>1, PieceOfWhole
          <6> QED
            BY <2>4, <2>7, <4>5, <6>1, <6>2
        <5> QED
          BY <4>2, <4>3, <5>1, <5>2 DEF Found
      <4> QED
        BY <4>4, <4>5
    <3> QED
      BY <2>6, <3>1, <3>2
  <2>11. Connection(c)'
    BY <1>1, <2>6, <2>9, <2>10 DEF Connection
  <2> QED
    BY <1>1, <2>1, <2>2, <2>11, OneConnection DEF serverVars
<1> QED
  BY <1>3, <1>4 DEF ClientRecv

-----------------------------------------------------------------------------
(* The server takes a connection, closes one, or ends.                     *)
LEMMA AcceptAgrees ==
  ASSUME TypeInv, StreamsAgree, Accept
  PROVE  StreamsAgree'
<1>0. PICK c \in Clients : c = Head(backlog)
  <2>1. backlog \in Seq(Clients) /\ backlog # <<>>
    BY DEF Accept, TypeInv, TypeOK
  <2>2. Head(backlog) \in Clients
    BY <2>1, HeadTailProperties
  <2> QED
    BY <2>2
<1>1. /\ phase = "accept" /\ backlog # <<>> /\ serving' = c /\ backlog' = Tail(backlog) /\ phase' = "key"
      /\ UNCHANGED <<skey, sfile, sout, clientVars, up, down, shut, rst, faults, astray>>
  BY <1>0 DEF Accept
<1>2. /\ c \in Clients /\ Len(backlog) \in Nat /\ DOMAIN backlog = 1 .. Len(backlog)
      /\ 1 \in 1 .. Len(backlog) /\ backlog[1] = c
      /\ DOMAIN backlog' = 1 .. Len(backlog) - 1
      /\ \A i \in 1 .. Len(backlog) - 1 : backlog'[i] = backlog[i + 1]
  <2>1. backlog \in Seq(Clients)
    BY DEF TypeInv, TypeOK
  <2>2. c \in Clients /\ c = backlog[1] /\ Len(backlog) \in Nat /\ Len(backlog) >= 1
    BY <1>0, <1>1, <2>1, HeadTailProperties, EmptySeq, LenProperties
  <2>3. /\ backlog' \in Seq(Clients) /\ Len(backlog') = Len(backlog) - 1
        /\ \A i \in 1 .. Len(backlog') : backlog'[i] = backlog[i + 1]
    BY <1>1, <2>1, HeadTailProperties
  <2> QED
    BY <2>1, <2>2, <2>3, LenProperties
<1>3. serving = None /\ \A d \in Clients : serving # d
  BY <1>1, EncFileAssumption DEF TypeInv, TypeOK
<1>4. \A i, j \in 1 .. Len(backlog) : backlog[i] = backlog[j] => i = j
  BY <1>2 DEF StreamsAgree, QueuePart
<1>5. \A d : Queued(d) <=> \E i \in 1 .. Len(backlog) : backlog[i] = d
  BY <1>2 DEF Queued
<1>6. \A d : Queued(d)' <=> \E i \in 1 .. Len(backlog) - 1 : backlog[i + 1] = d
  BY <1>2 DEF Queued
<1>7. \A i \in 1 .. Len(backlog) - 1 : i + 1 \in 1 .. Len(backlog) /\ i + 1 # 1
  BY <1>2
<1>8. Queued(c) /\ ~Queued(c)' /\ \A d : d # c => (Queued(d)' <=> Queued(d))
  <2>1. Queued(c) /\ ~Queued(c)'
    BY <1>2, <1>4, <1>5, <1>6, <1>7
  <2>2. \A i \in 1 .. Len(backlog) : i # 1 => i - 1 \in 1 .. Len(backlog) - 1 /\ (i - 1) + 1 = i
    BY <1>2
  <2>3. \A d : d # c => (Queued(d)' <=> Queued(d))
    BY <1>2, <1>5, <1>6, <1>7, <2>2
  <2> QED
    BY <2>1, <2>3
<1>9. UNCHANGED <<at, key, file, out, got, whole, rounds, left>>
  BY <1>1 DEF clientVars
<1>10. QueuePart'
  <2>1. ASSUME NEW i \in DOMAIN backlog', NEW j \in DOMAIN backlog', backlog'[i] = backlog'[j]
        PROVE  i = j
    <3>1. i \in 1 .. Len(backlog) - 1 /\ j \in 1 .. Len(backlog) - 1
      BY <1>2
    <3>2. i + 1 = j + 1
      BY <3>1, <2>1, <1>2, <1>4, <1>7
    <3> QED
      BY <3>1, <3>2
  <2>2. ASSUME NEW d \in Clients
        PROVE  /\ at'[d] = "off" => ~Queued(d)' /\ serving' # d /\ d \notin shut'
               /\ at'[d] # "off" => Queued(d)' \/ serving' = d \/ d \in shut'
               /\ Queued(d)' => serving' # d /\ d \notin shut'
               /\ serving' = d => d \notin shut'
               /\ left'[d] = "no" <=> at'[d] # "gone"
    <3>1. CASE d = c
      BY <1>1, <1>8, <1>9, <3>1 DEF StreamsAgree, QueuePart
    <3>2. CASE d # c
      BY <1>1, <1>3, <1>8, <1>9, <3>2 DEF StreamsAgree, QueuePart
    <3> QED
      BY <3>1, <3>2
  <2> QED
    BY <1>1, <2>1, <2>2 DEF QueuePart
<1>11. Connection(c)'
  <2>1. c \notin shut /\ serving # c /\ Connection(c) /\ at[c] # "off"
    BY <1>2, <1>3, <1>8 DEF StreamsAgree, QueuePart
  <2>2. Stream(c)' = Stream(c) /\ Chunks(c)' = Chunks(c) /\ Arrived(c)' = Arrived(c) /\ (Alive(c)' <=> Alive(c))
    BY <1>9 DEF Stream, Chunks, Arrived, Alive
  <2>3. Sent(c)' = Sent(c)
    BY <1>9, <2>2 DEF Sent
  <2>4. TypedPart(c)' /\ OffPart(c)' /\ NoPart(c)'
    BY <1>1, <1>9, <2>1, <2>2 DEF Connection, TypedPart, OffPart, NoPart
  <2>5. Alive(c) => Unfound(c)'
    <3> SUFFICES ASSUME Alive(c) PROVE Unfound(c)'
      OBVIOUS
    <3>1. Unfound(c)
      BY <2>1 DEF Connection, Found
    <3>2. PICK n \in 0 .. Sent(c) : Taken(c, n)
      BY <3>1 DEF Unfound
    <3>3. n = 2
      BY <1>8, <3>2 DEF Taken
    <3>4. Taken(c, n)'
      BY <1>1, <1>8, <1>9, <2>2, <2>3, <3>2, <3>3 DEF Taken
    <3> QED
      BY <1>1, <1>9, <2>2, <2>3, <3>1, <3>4 DEF Unfound
  <2> QED
    BY <1>1, <2>1, <2>2, <2>4, <2>5 DEF Connection
<1>12. ASSUME NEW d \in Clients, d # c PROVE Connection(d)'
  <2>1. Untouched(d)
    BY <1>1, <1>9 DEF Untouched
  <2>2. Apart(d)
    BY <1>1, <1>3, <1>8, <1>12 DEF Apart
  <2> QED
    BY <2>1, <2>2, ConnectionKept DEF StreamsAgree
<1> QED
  BY <1>2, <1>10, <1>11, <1>12 DEF StreamsAgree

(* The server may close a connection when nothing is on its way to the     *)
(* client, which does not believe that it has its file.                    *)
LEMMA CloseAgrees ==
  ASSUME TypeInv, StreamsAgree, NEW c \in Clients, serving = c, Close(c),
         UNCHANGED <<clientVars, down>>, faults' = faults \/ faults' = faults + 1,
         \A d \in Clients \ {c} : astray'[d] = astray[d],
         Alive(c) => faults' > 0 /\ down[c] = <<>> /\ at[c] # "ask"
  PROVE  StreamsAgree'
<1>1. /\ phase' = "accept" /\ serving' = None /\ UNCHANGED backlog /\ shut' = shut \cup {c}
      /\ \A d \in Clients \ {c} : up'[d] = up[d] /\ (d \in rst' <=> d \in rst)
      /\ UNCHANGED <<at, key, file, out, got, whole, rounds, left>>
      /\ None \notin Clients /\ at[c] # "off"
  BY EncFileAssumption DEF Close, clientVars, TypeInv, TypeOK, StreamsAgree, QueuePart
<1>2. \A d : Queued(d)' <=> Queued(d)
  BY <1>1 DEF Queued
<1>3. phase # "down"
  BY EncFileAssumption DEF TypeInv, TypeOK
<1>4. QueuePart'
  BY <1>1, <1>2 DEF StreamsAgree, QueuePart
<1>5. Connection(c)'
  <2>1. Chunks(c)' = Chunks(c) /\ (Alive(c)' <=> Alive(c))
    BY <1>1 DEF Chunks, Alive
  <2>2. TypedPart(c)' /\ OffPart(c)' /\ NoPart(c)' /\ c \in shut'
    BY <1>1, <2>1 DEF StreamsAgree, Connection, TypedPart, OffPart, NoPart
  <2>3. Alive(c)' => Cut(c)'
    BY <1>1, <2>1 DEF Cut
  <2> QED
    BY <2>2, <2>3 DEF Connection
<1>6. ASSUME NEW d \in Clients, d # c PROVE Connection(d)'
  <2>1. Untouched(d)
    BY <1>1, <1>6 DEF Untouched
  <2>2. faults > 0 => faults' > 0
    BY FaultsGrow
  <2>3. Apart(d)
    BY <1>1, <1>2, <1>3, <1>6, <2>2 DEF Apart
  <2> QED
    BY <2>1, <2>3, ConnectionKept DEF StreamsAgree
<1> QED
  BY <1>4, <1>5, <1>6 DEF StreamsAgree

LEMMA GoDownAgrees ==
  ASSUME TypeInv, StreamsAgree, NEW c \in Clients, serving = c, phase \in {"encrypt", "reply"}, GoDown,
         UNCHANGED <<clientVars, down>>, faults' = faults \/ faults' = faults + 1,
         Alive(c) => phase = "encrypt"
  PROVE  StreamsAgree'
<1>1. /\ phase' = "down" /\ serving' = None /\ backlog' = <<>> /\ shut' = {d \in Clients : at[d] # "off"}
      /\ \A d \in Clients : up'[d] = <<>>
      /\ UNCHANGED <<at, key, file, out, got, whole, rounds, left>>
      /\ None \notin Clients /\ rst' = rst \cup {d \in Clients : up[d] # <<>>}
  BY EncFileAssumption DEF GoDown, clientVars
<1>2. DOMAIN backlog' = {} /\ \A d : ~Queued(d)'
  BY <1>1 DEF Queued
<1>3. QueuePart'
  BY <1>1, <1>2 DEF StreamsAgree, QueuePart
<1>4. ASSUME NEW d \in Clients PROVE Connection(d)'
  <2>1. Chunks(d)' = Chunks(d) /\ (Alive(d)' <=> Alive(d)) /\ Connection(d)
    BY <1>1 DEF Chunks, Alive, StreamsAgree
  <2>2. TypedPart(d)' /\ OffPart(d)' /\ NoPart(d)'
    BY <1>1, <2>1 DEF Connection, TypedPart, OffPart, NoPart
  <2>3. Alive(d) => Cut(d)'
    <3> SUFFICES ASSUME Alive(d) PROVE Cut(d)'
      OBVIOUS
    <3>1. CASE d \in shut
      BY <1>1, <2>1, <3>1 DEF Connection, Cut
    <3>2. CASE d \notin shut
      <4>1. down[d] = <<>> /\ at[d] # "ask"
        BY <2>1, <3>2 DEF Connection, Unfound, Found
      <4> QED
        BY <1>1, <4>1 DEF Cut
    <3> QED
      BY <3>1, <3>2
  <2>4. Alive(d) => d \in shut'
    BY <1>1 DEF Alive
  <2> QED
    BY <2>1, <2>2, <2>3, <2>4 DEF Connection
<1> QED
  BY <1>3, <1>4 DEF StreamsAgree

-----------------------------------------------------------------------------
(* What the server takes of a stream.                                      *)
LEMMA ServedConnection ==
  ASSUME TypeInv, StreamsAgree, NEW c \in Clients, serving = c
  PROVE  /\ Connection(c) /\ TypedPart(c) /\ c \notin shut /\ at[c] # "off" /\ ~Queued(c)
         /\ Alive(c) \/ at[c] = "gone"
         /\ Alive(c) => c \notin rst /\ (Unfound(c) \/ Found(c))
         /\ at[c] = "gone" => left[c] \in {"answered", "early"}
BY DEF StreamsAgree, QueuePart, Connection, Alive, TypeInv, TypeOK

(* The gone client's part, and the rest, when the client does nothing.     *)
LEMMA ServedKeeps ==
  ASSUME TypeInv, StreamsAgree, NEW c \in Clients, serving = c,
         UNCHANGED <<clientVars, down, serving, backlog, shut>>,
         phase # "down", phase' # "down", faults' = faults \/ faults' = faults + 1,
         \A d \in Clients \ {c} : up'[d] = up[d] /\ astray'[d] = astray[d] /\ (d \in rst' <=> d \in rst),
         Alive(c) => c \notin rst' /\ (Unfound(c)' \/ Found(c)'),
         at[c] = "gone" /\ left[c] = "answered" => NoPart(c)'
  PROVE  StreamsAgree'
<1>1. UNCHANGED <<at, key, file, out, got, whole, rounds, left>>
  BY DEF clientVars
<1>2. \A d \in Clients \ {c} : Untouched(d)
  BY <1>1 DEF Untouched
<1>3. Connection(c)'
  <2>1. Chunks(c)' = Chunks(c) /\ (Alive(c)' <=> Alive(c))
    BY <1>1 DEF Chunks, Alive
  <2>2. TypedPart(c)' /\ OffPart(c)'
    BY <1>1, <2>1, ServedConnection DEF TypedPart, OffPart
  <2>3. NoPart(c)'
    BY <1>1 DEF NoPart
  <2>4. c \notin shut'
    BY ServedConnection
  <2> QED
    BY <2>1, <2>2, <2>3, <2>4 DEF Connection
<1> QED
  BY <1>1, <1>2, <1>3, OneConnection

LEMMA RecvKeyAgrees ==
  ASSUME TypeInv, StreamsAgree, NEW c \in Clients, RecvKey(c)
  PROVE  StreamsAgree'
<1>1. phase = "key" /\ serving = c /\ UNCHANGED <<clientVars, down>>
  BY DEF RecvKey
<1>2. /\ Connection(c) /\ TypedPart(c) /\ c \notin shut /\ at[c] # "off" /\ ~Queued(c)
      /\ Alive(c) \/ at[c] = "gone"
      /\ Alive(c) => c \notin rst /\ Unfound(c)
      /\ NoPart(c)
  BY <1>1, ServedConnection DEF Found, Connection
<1>3. CASE \/ up[c] # <<>> /\ Fault /\ Close(c) /\ UNCHANGED astray
           \/ AtEnd(c) /\ Close(c) /\ UNCHANGED <<faults, astray>>
  <2>1. faults' = faults \/ faults' = faults + 1
    BY <1>3 DEF Fault
  <2>2. Alive(c) => faults' > 0 /\ down[c] = <<>> /\ at[c] # "ask"
    <3>1. Alive(c) => Fault
      BY <1>3 DEF AtEnd, Alive
    <3>2. Fault => faults' > 0
      BY DEF Fault, TypeInv, TypeOK
    <3> QED
      BY <1>2, <3>1, <3>2 DEF Unfound
  <2> QED
    BY <1>1, <1>3, <2>1, <2>2, CloseAgrees
<1>4. ASSUME NEW piece \in Pieces(up[c], KeyRoom),
             skey' = piece, sfile' = <<>>, phase' = "file",
             up' = [up EXCEPT ![c] = Rest(@, piece)],
             Astray(c, Len(piece) < KeyLen),
             UNCHANGED <<serving, sout, backlog, shut, rst, faults>>
      PROVE  StreamsAgree'
  <2>1. /\ up'[c] = Rest(up[c], piece) /\ astray'[c] = (astray[c] \/ Len(piece) < KeyLen)
        /\ \A d \in Clients \ {c} : up'[d] = up[d] /\ astray'[d] = astray[d]
    BY <1>4 DEF Astray, TypeInv, TypeOK
  <2>2. UNCHANGED <<at, key, file, out, got, whole, rounds, left>>
    BY <1>1 DEF clientVars
  <2>3. KeyRoom = KeyLen /\ KeyLen \in Nat
    BY EmptyIsSeq DEF KeyRoom
  <2>4. Alive(c) => Unfound(c)'
    <3> SUFFICES ASSUME Alive(c) PROVE Unfound(c)'
      OBVIOUS
    <3>1. PICK n \in 0 .. Sent(c) : Taken(c, n)
      BY <1>2 DEF Unfound
    <3> DEFINE s == Stream(c)
               k == Len(piece)
    <3>2. /\ k \in 1 .. KeyLen /\ n + k <= Sent(c) /\ piece \in Seq(Symbols)
          /\ n + k \in 0 .. Sent(c)
          /\ piece = SubSeq(s, n + 1, n + k) /\ Rest(up[c], piece) = SubSeq(s, n + k + 1, Sent(c))
      <4>1. up[c] = SubSeq(Stream(c), n + 1, Sent(c))
        BY <3>1 DEF Taken
      <4>2. piece \in Pieces(up[c], KeyLen)
        BY <1>4, <2>3
      <4> QED
        BY <1>2, <2>3, <4>1, <4>2, TakenPiece
    <3>3. /\ s \in Seq(Symbols) /\ Len(s) = 4 + Len(key[c]) + Len(file[c])
          /\ Len(key[c]) \in Nat /\ Len(file[c]) \in Nat
          /\ key[c] \in Seq(Letters) /\ file[c] \in Seq(Letters) /\ s = Round(key[c], file[c])
      BY StreamFacts
    <3>4. Sent(c) \in 2 .. Len(s) /\ (at[c] = "prompt" => Sent(c) = 2)
      BY <1>2, SentFacts
    <3>5. (Stream(c)' = s) /\ Arrived(c)' = Arrived(c)
      BY <2>2 DEF Stream, Arrived
    <3>6. Sent(c)' = Sent(c)
      BY <2>2, <3>5 DEF Sent, Chunks
    <3> HIDE DEF k, s, KeyLen
    <3>7. n \in Nat /\ n + k <= Len(s) /\ k \in 1 .. Len(s) /\ n + k \in n .. Len(s)
      BY <3>2, <3>4
    <3>8. n + k <= Len(s) - 2 => Plain(piece)
      <4>1. IsPart(s, n, k, piece) /\ s = Round(key[c], file[c])
        BY <3>2, <3>3, <3>7 DEF IsPart
      <4>2. key[c] \in Seq(Letters) /\ file[c] \in Seq(Letters)
        BY <3>3
      <4>3. MarkerIn(s, n, k, piece)
        BY <4>1, <4>2, PartOfRound
      <4> QED
        BY <4>3 DEF MarkerIn
    <3>9. Plain(<<>>)
      BY DEF Plain
    <3>10. ASSUME ~astray'[c]
           PROVE  /\ at[c] # "prompt" /\ piece = key[c]
                  /\ n + k = 2 + KeyLen
      <4>1. n = 2
        BY <1>1, <2>1, <3>1, <3>10 DEF Taken
      <4>2. k = KeyLen
        <5>1. ~(k < KeyLen)
          BY <2>1, <3>10 DEF k
        <5>2. k \in 1 .. KeyLen
          BY <3>2
        <5> QED
          BY <2>3, <5>1, <5>2
      <4>3. at[c] # "prompt"
        BY <3>2, <3>4, <4>1
      <4>4. Len(key[c]) = KeyLen
        <5>1. at[c] \in {"upload", "store", "recv", "ask"}
          BY <1>2, <4>3 DEF Alive, Unfound
        <5> QED
          BY <1>2, <5>1, TypedKey
      <4>5. key[c] \in Seq(Symbols)
        BY <3>3, SymbolsFacts, SeqMonotonic
      <4>6. Holds(s, 2, key[c])
        BY StreamFacts DEF s
      <4> DEFINE b == 2
                 x == 2 + KeyLen
                 w == key[c]
      <4>7. /\ s \in Seq(Symbols) /\ w \in Seq(Symbols) /\ b \in Nat /\ x \in b .. Len(s)
            /\ Len(w) = x - b
        <5>1. n + k \in n .. Len(s) /\ n = 2 /\ k = KeyLen /\ Len(s) \in Nat
          BY <3>3, <3>7, <4>1, <4>2, LenProperties
        <5>2. 2 + KeyLen \in 2 .. Len(s)
          BY <5>1
        <5>3. 2 + KeyLen - 2 = KeyLen
          BY <2>3
        <5> QED
          BY <3>3, <4>4, <4>5, <5>2, <5>3
      <4>8. piece = SubSeq(s, b + 1, x) /\ Holds(s, b, w)
        BY <3>2, <4>1, <4>2, <4>6
      <4> HIDE DEF b, x, w
      <4>9. SubSeq(s, b + 1, x) = w
        BY <4>7, <4>8, PartIs
      <4> QED
        BY <4>1, <4>2, <4>3, <4>8, <4>9 DEF w
    <3>11. Len(<<>>) = 0 /\ 0 <= Len(file[c]) /\ SubSeq(file[c], 1, 0) = <<>>
      <4>1. 0 \in 0 .. Len(file[c]) /\ 0 \in Nat
        BY <3>3
      <4>2. SubSeq(file[c], 0 + 1, 0) \in Seq(Letters) /\ Len(SubSeq(file[c], 0 + 1, 0)) = 0 - 0
        BY <3>3, <4>1, PartFacts
      <4> QED
        BY <3>3, <4>2, EmptySeq
    <3>12. ~Queued(c)'
      BY <1>2, <1>4 DEF Queued
    <3>13. Taken(c, n + k)'
      <4>1. up'[c] = SubSeq(s, n + k + 1, Sent(c))
        BY <2>1, <3>2
      <4>2. ~astray'[c] => /\ at'[c] # "prompt" /\ skey' = key'[c]
                           /\ Len(sfile') <= Len(file'[c]) /\ sfile' = SubSeq(file'[c], 1, Len(sfile'))
                           /\ n + k = 2 + KeyLen + Len(sfile')
        BY <1>4, <2>2, <2>3, <3>10, <3>11
      <4>3. n + k <= Len(s) - 2 => Plain(skey') /\ Plain(sfile')
        BY <1>4, <3>8, <3>9
      <4> QED
        BY <1>4, <3>5, <3>6, <3>12, <4>1, <4>2, <4>3 DEF Taken
    <3> QED
      BY <1>1, <1>2, <2>2, <3>2, <3>5, <3>6, <3>13 DEF Unfound
  <2>5. at[c] = "gone" /\ left[c] = "answered" => NoPart(c)'
    <3> SUFFICES ASSUME at[c] = "gone", left[c] = "answered" PROVE NoPart(c)'
      OBVIOUS
    <3>1. up[c] = <<No[2]>> /\ c \notin rst
      BY <1>1, <1>2 DEF NoPart
    <3>2. up'[c] = <<>>
      <4>1. up[c] \in Seq(Symbols) /\ Len(up[c]) = 1
        BY <3>1 DEF TypeInv, TypeOK
      <4>2. /\ Len(piece) \in 1 .. Len(up[c]) /\ Rest(up[c], piece) \in Seq(Symbols)
            /\ Len(Rest(up[c], piece)) = Len(up[c]) - Len(piece)
        <5>1. up[c] \in Seq(Symbols) /\ KeyRoom \in Nat /\ piece \in Pieces(up[c], KeyRoom)
          BY <1>4, <2>3, <4>1
        <5> DEFINE d == up[c]
                   b == KeyRoom
        <5>2. d \in Seq(Symbols) /\ b \in Nat /\ piece \in Pieces(d, b)
          BY <5>1
        <5> HIDE DEF Symbols, d, b
        <5>3. /\ Len(piece) \in 1 .. Len(d) /\ Rest(d, piece) \in Seq(Symbols)
              /\ Len(Rest(d, piece)) = Len(d) - Len(piece)
          BY <5>2, PieceAndRest
        <5> QED
          BY <5>3 DEF d
      <4>3. Len(Rest(up[c], piece)) = 0
        BY <4>1, <4>2
      <4> QED
        BY <2>1, <4>2, <4>3, EmptySeq
    <3> QED
      BY <1>1, <1>4, <2>2, <3>1, <3>2 DEF NoPart
  <2>6. phase # "down" /\ phase' # "down"
    BY <1>1, <1>4
  <2> QED
    BY <1>1, <1>2, <1>4, <2>1, <2>4, <2>5, <2>6, ServedKeeps
<1> QED
  BY <1>3, <1>4 DEF RecvKey

(* n bytes of a round are Yes, its key and l lines of its file.            *)
Reaches(k, l, n) == n = 2 + Len(k) + l

(* s from n to m is f from l to r.                                         *)
Copies(s, n, m, f, l, r) == SubSeq(s, n + 1, m) = SubSeq(f, l + 1, r)

LEMMA FileOfRound ==
  ASSUME NEW k \in Seq(Letters), NEW f \in Seq(Letters),
         NEW l \in Nat, NEW r \in l .. Len(f),
         NEW n, Reaches(k, l, n), NEW m, Reaches(k, r, m)
  PROVE  Copies(Round(k, f), n, m, f, l, r)
<1> DEFINE s == Round(k, f)
<1>1. /\ s \in Seq(Symbols) /\ Len(s) = 4 + Len(k) + Len(f)
      /\ Len(k) \in Nat /\ Len(f) \in Nat
      /\ Holds(s, 2 + Len(k), f)
  BY RoundFacts
<1>2. f \in Seq(Symbols)
  BY SymbolsFacts, SeqMonotonic
<1> HIDE DEF s
<1>a. n = 2 + Len(k) + l /\ m = 2 + Len(k) + r
  BY DEF Reaches
<1>3. n \in Nat /\ m \in n .. Len(s) /\ m - n = r - l
  BY <1>a, <1>1
<1>4. ASSUME NEW i \in 1 .. m - n PROVE s[n + i] = f[l + i]
  <2>1. l + i \in 1 .. Len(f) /\ 2 + Len(k) + (l + i) = n + i
    BY <1>a, <1>1, <1>3
  <2>2. s[2 + Len(k) + (l + i)] = f[l + i]
    BY <1>1, <2>1 DEF Holds
  <2> QED
    BY <2>1, <2>2
<1>5. Alike(s, n, f, l, m - n)
  BY <1>4 DEF Alike
<1>6. s \in Seq(Symbols) /\ n \in Nat /\ m \in n .. Len(s) /\ m - n = r - l
  BY <1>1, <1>3
<1> QED
  BY <1>2, <1>5, <1>6, SameParts DEF s, Copies

LEMMA PlainParts ==
  ASSUME NEW S, NEW s \in Seq(S), NEW t \in Seq(S), Plain(s), Plain(t)
  PROVE  Plain(s \o t)
<1>1. /\ s \o t \in Seq(S) /\ Len(s \o t) = Len(s) + Len(t)
      /\ Len(s) \in Nat /\ Len(t) \in Nat
      /\ \A i \in 1 .. Len(s) : (s \o t)[i] = s[i]
      /\ \A i \in 1 .. Len(t) : (s \o t)[Len(s) + i] = t[i]
  BY TwoParts
<1>2. DOMAIN s = 1 .. Len(s) /\ DOMAIN t = 1 .. Len(t) /\ DOMAIN (s \o t) = 1 .. Len(s) + Len(t)
  BY <1>1, LenProperties
<1> HIDE DEF Marker
<1>3. ASSUME NEW i \in 1 .. Len(s) + Len(t) PROVE (s \o t)[i] \notin {Marker[1], Marker[2]}
  <2>1. CASE i <= Len(s)
    <3>1. i \in 1 .. Len(s)
      BY <1>1, <2>1
    <3> QED
      BY <3>1, <1>1, <1>2 DEF Plain
  <2>2. CASE i > Len(s)
    <3>1. i - Len(s) \in 1 .. Len(t) /\ Len(s) + (i - Len(s)) = i
      BY <1>1, <2>2
    <3>2. (s \o t)[i] = t[i - Len(s)]
      BY <3>1, <1>1
    <3> QED
      BY <3>1, <3>2, <1>2 DEF Plain
  <2> QED
    BY <1>1, <2>1, <2>2
<1> QED
  BY <1>2, <1>3 DEF Plain

(* Of a stream whose marker has been found the file is what came before,   *)
(* and nothing follows.                                                    *)
LEMMA PlainTail ==
  ASSUME NEW k \in Seq(Letters), NEW f \in Seq(Letters), NEW s, s = Round(k, f),
         NEW n \in Nat, n <= Len(s) - 2
  PROVE  /\ SubSeq(s, n + 1, Len(s) - 2) \in Seq(Symbols)
         /\ Plain(SubSeq(s, n + 1, Len(s) - 2))
<1> DEFINE m == Len(s) - 2
           p == SubSeq(s, n + 1, m)
<1>1. s \in Seq(Symbols) /\ Len(s) \in Nat
  BY RoundFacts, SMTT(30)
<1>2. \A i \in 1 .. Len(s) : /\ s[i] = Marker[1] <=> i = Len(s) - 1
                             /\ s[i] = Marker[2] <=> i = Len(s)
  BY RoundMarker
<1>3. m \in n .. Len(s)
  BY <1>1
<1> HIDE DEF Marker
<1>4. p \in Seq(Symbols) /\ Len(p) = m - n /\ \A i \in 1 .. m - n : p[i] = s[n + i]
  BY <1>1, <1>3, PartFacts
<1>5. \A i \in 1 .. m - n : n + i \in 1 .. Len(s) /\ n + i # Len(s) - 1 /\ n + i # Len(s)
  BY <1>1, <1>3
<1>6. DOMAIN p = 1 .. m - n
  BY <1>4, LenProperties
<1>7. Plain(p)
  BY <1>2, <1>4, <1>5, <1>6 DEF Plain
<1> QED
  BY <1>4, <1>7

LEMMA RecvFileAgrees ==
  ASSUME TypeInv, StreamsAgree, NEW c \in Clients, RecvFile(c)
  PROVE  StreamsAgree'
<1>1. /\ phase = "file" /\ serving = c
      /\ UNCHANGED <<clientVars, down, serving, skey, sout, backlog, shut, rst, faults>>
  BY DEF RecvFile
<1>2. /\ Connection(c) /\ TypedPart(c) /\ c \notin shut /\ at[c] # "off" /\ ~Queued(c)
      /\ Alive(c) \/ at[c] = "gone"
      /\ Alive(c) => c \notin rst /\ Unfound(c)
      /\ NoPart(c)
  BY <1>1, ServedConnection DEF Found, Connection
<1>3. CASE AtEnd(c) /\ phase' = "encrypt" /\ UNCHANGED <<sfile, up, astray>>
  <2>1. at[c] = "gone" /\ ~Alive(c)
    BY <1>3 DEF AtEnd, Alive
  <2>2. at[c] = "gone" /\ left[c] = "answered" => NoPart(c)'
    BY <1>1, <1>2, <1>3 DEF NoPart, clientVars
  <2> QED
    BY <1>1, <1>3, <2>1, <2>2, ServedKeeps
<1>4. ASSUME NEW piece \in Pieces(up[c], Buf),
             Keep(piece),
             phase' = IF Ends(piece) THEN "encrypt" ELSE phase,
             up' = [up EXCEPT ![c] = Rest(@, piece)],
             Astray(c, Splits(piece))
      PROVE  StreamsAgree'
  <2>1. /\ up'[c] = Rest(up[c], piece) /\ astray'[c] = (astray[c] \/ Splits(piece))
        /\ \A d \in Clients \ {c} : up'[d] = up[d] /\ astray'[d] = astray[d]
        /\ sfile' = sfile \o Before(piece)
    BY <1>4 DEF Astray, TypeInv, TypeOK, Keep
  <2>2. UNCHANGED <<at, key, file, out, got, whole, rounds, left>>
    BY <1>1 DEF clientVars
  <2>3. Buf \in Nat /\ skey \in Seq(Symbols) /\ sfile \in Seq(Symbols) /\ up[c] \in Seq(Symbols)
    BY EncFileAssumption DEF TypeInv, TypeOK
  <2>4. up[c] # <<>> /\ piece \in Seq(Symbols)
    BY <1>4, <2>3, PieceFacts
  <2>5. at[c] = "gone" /\ left[c] = "answered" => NoPart(c)'
    BY <1>1, <1>2, <2>4 DEF NoPart
  <2>6. Alive(c) => Unfound(c)' \/ Found(c)'
    <3> SUFFICES ASSUME Alive(c) PROVE Unfound(c)' \/ Found(c)'
      OBVIOUS
    <3>1. PICK n \in 0 .. Sent(c) : Taken(c, n)
      BY <1>2 DEF Unfound
    <3> DEFINE s == Stream(c)
               j == Len(piece)
               k == key[c]
               f == file[c]
               l == Len(sfile)
    <3>2. /\ j \in 1 .. Buf /\ n + j <= Sent(c) /\ n + j \in 0 .. Sent(c)
          /\ piece = SubSeq(s, n + 1, n + j) /\ Rest(up[c], piece) = SubSeq(s, n + j + 1, Sent(c))
      <4>1. up[c] = SubSeq(Stream(c), n + 1, Sent(c))
        BY <3>1 DEF Taken
      <4> QED
        BY <1>2, <1>4, <2>3, <4>1, TakenPiece, ZenonT(60)
    <3>3. /\ s \in Seq(Symbols) /\ Len(s) = 4 + Len(k) + Len(f) /\ Len(k) \in Nat /\ Len(f) \in Nat
          /\ k \in Seq(Letters) /\ f \in Seq(Letters) /\ s = Round(k, f)
      BY StreamFacts
    <3>4. /\ Sent(c) \in 2 .. Len(s) /\ (at[c] = "prompt" => Sent(c) = 2)
          /\ at[c] = "upload" => Sent(c) <= Len(s) - 2
      BY <1>2, SentFacts
    <3>5. (Stream(c)' = s) /\ Arrived(c)' = Arrived(c)
      BY <2>2 DEF Stream, Arrived
    <3>6. Sent(c)' = Sent(c)
      BY <2>2, <3>5 DEF Sent, Chunks
    <3>7. ~astray[c] => /\ at[c] # "prompt" /\ skey = k /\ Len(k) = KeyLen
                        /\ l <= Len(f) /\ sfile = SubSeq(f, 1, l) /\ n = 2 + Len(k) + l
      <4> SUFFICES ASSUME ~astray[c]
                   PROVE  /\ at[c] # "prompt" /\ skey = k /\ Len(k) = KeyLen
                          /\ l <= Len(f) /\ sfile = SubSeq(f, 1, l) /\ n = 2 + Len(k) + l
        OBVIOUS
      <4>1. /\ at[c] # "prompt" /\ skey = k /\ l <= Len(f) /\ sfile = SubSeq(f, 1, l)
            /\ n = 2 + KeyLen + l
        BY <1>1, <3>1 DEF Taken
      <4>2. Len(k) = KeyLen
        <5>1. at[c] \in {"upload", "store", "recv", "ask"}
          BY <1>2, <4>1 DEF Alive, Unfound
        <5> QED
          BY <1>2, <5>1, TypedKey
      <4> QED
        BY <4>1, <4>2
    <3>8. n <= Len(s) - 2 => Plain(skey) /\ Plain(sfile)
      BY <1>1, <3>1 DEF Taken
    <3>9. l \in Nat /\ sfile \in Seq(Symbols)
      BY <2>3, LenProperties
    <3>10. down[c] = <<>> /\ Arrived(c) = <<>> /\ at[c] \in {"prompt", "upload", "store", "recv"}
      BY <1>2 DEF Unfound
    <3> HIDE DEF j, s, k, f, l, KeyLen, Symbols, Letters, Marker
    <3>11. n \in Nat /\ n + j <= Len(s) /\ j \in 1 .. Len(s) /\ n + j \in n .. Len(s)
      BY <3>2, <3>4
    <3>12. /\ n + j <= Len(s) - 2 => Plain(piece)
           /\ Splits(piece) <=> n + j = Len(s) - 1
           /\ Ends(piece) <=> n + j = Len(s) /\ j >= 2
           /\ Ends(piece) => Before(piece) = SubSeq(s, n + 1, Len(s) - 2)
      <4>1. s = Round(k, f) /\ k \in Seq(Letters) /\ f \in Seq(Letters)
        BY <3>3
      <4>2. n \in Nat /\ j \in 1 .. Len(s) /\ n + j <= Len(s) /\ piece = SubSeq(s, n + 1, n + j)
        BY <3>2, <3>11
      <4>3. IsPart(s, n, j, piece)
        BY <4>2 DEF IsPart
      <4>4. MarkerIn(s, n, j, piece)
        BY <4>1, <4>3, PartOfRound
      <4> QED
        BY <4>4 DEF MarkerIn
    <3>13. CASE ~Ends(piece)
      <4>1. sfile' = sfile \o piece /\ phase' = "file"
        BY <1>1, <1>4, <2>1, <3>13 DEF Before
      <4>2. n + j <= Len(s) - 2 => Plain(skey') /\ Plain(sfile')
        <5> SUFFICES ASSUME n + j <= Len(s) - 2 PROVE Plain(skey') /\ Plain(sfile')
          OBVIOUS
        <5>1. n <= Len(s) - 2
          BY <3>11, <3>3
        <5>2. Plain(piece) /\ Plain(skey) /\ Plain(sfile)
          BY <5>1, <3>8, <3>12
        <5>3. Plain(sfile \o piece)
          BY <2>4, <3>9, <5>2, PlainParts
        <5> QED
          BY <1>1, <4>1, <5>2, <5>3
      <4>3. ASSUME ~astray'[c]
            PROVE  /\ at[c] # "prompt" /\ skey' = k
                   /\ Len(sfile') <= Len(f) /\ sfile' = SubSeq(f, 1, Len(sfile'))
                   /\ n + j = 2 + KeyLen + Len(sfile')
        <5>1. ~astray[c] /\ ~Splits(piece)
          BY <2>1, <4>3
        <5>2. /\ at[c] # "prompt" /\ skey = k /\ Len(k) = KeyLen
              /\ l <= Len(f) /\ sfile = SubSeq(f, 1, l) /\ n = 2 + Len(k) + l
          BY <3>7, <5>1
        <5>3. n + j # Len(s) - 1 /\ ~(n + j = Len(s) /\ j >= 2)
          BY <3>12, <3>13, <5>1
        <5>4. j \in Nat /\ j >= 1 /\ n + j <= Len(s)
          BY <3>11
        <5>5. l + j \in l .. Len(f) /\ l + j \in Nat
          <6> DEFINE a == Len(k)
                     b == Len(f)
                     m == Len(s)
          <6>1. a \in Nat /\ b \in Nat /\ m = 4 + a + b /\ l \in Nat /\ n = 2 + a + l /\ l <= b
            BY <3>3, <3>9, <5>2
          <6>2. n + j # m - 1 /\ ~(n + j = m /\ j >= 2) /\ j \in Nat /\ j >= 1 /\ n + j <= m
            BY <5>3, <5>4
          <6> HIDE DEF a, b, m
          <6>3. n + j < m - 1 \/ n + j = m
            BY <6>1, <6>2
          <6>4. n + j = m => j = 1 /\ n = m - 1
            BY <6>1, <6>2
          <6>5. n <= m - 2
            BY <6>1
          <6> QED
            BY <6>1, <6>2, <6>3, <6>4, <6>5 DEF b
        <5>6. n + j = 2 + Len(k) + (l + j)
          <6> DEFINE a == Len(k)
          <6>1. a \in Nat /\ l \in Nat /\ j \in Nat /\ n = 2 + a + l
            BY <3>3, <3>9, <5>2, <5>4
          <6> HIDE DEF a
          <6>2. n + j = 2 + a + (l + j)
            BY <6>1
          <6> QED
            BY <6>2 DEF a
        <5>7. piece = SubSeq(f, l + 1, l + j)
          <6> DEFINE m == n + j
                     r == l + j
          <6>1. k \in Seq(Letters) /\ f \in Seq(Letters) /\ s = Round(k, f) /\ l \in Nat
            BY <3>3, <3>9
          <6>2. r \in l .. Len(f) /\ Reaches(k, l, n) /\ Reaches(k, r, m)
            BY <5>2, <5>5, <5>6 DEF Reaches
          <6>3. piece = SubSeq(s, n + 1, m)
            BY <3>2
          <6> HIDE DEF m, r
          <6>4. Copies(Round(k, f), n, m, f, l, r)
            BY <6>1, <6>2, FileOfRound
          <6> QED
            BY <6>1, <6>3, <6>4 DEF Copies, r
        <5>8. SubSeq(f, 0 + 1, l) \o SubSeq(f, l + 1, l + j) = SubSeq(f, 0 + 1, l + j)
          <6>1. 0 \in Nat /\ l \in 0 .. Len(f) /\ l + j \in l .. Len(f)
            BY <3>3, <3>9, <5>2, <5>5
          <6> QED
            BY <3>3, <6>1, AdjacentParts
        <5>9. sfile' = SubSeq(f, 1, l + j)
          <6>1. 0 + 1 = 1
            OBVIOUS
          <6>2. sfile' = SubSeq(f, 1, l) \o SubSeq(f, l + 1, l + j)
            BY <4>1, <5>2, <5>7
          <6> QED
            BY <5>8, <6>1, <6>2
        <5>10. Len(sfile') = l + j
          <6>1. Len(sfile \o piece) = Len(sfile) + Len(piece)
            BY <2>4, <3>9, TwoParts
          <6> QED
            BY <4>1, <6>1 DEF l, j
        <5>11. n + j = 2 + KeyLen + (l + j)
          BY <5>2, <5>6
        <5> QED
          BY <1>1, <5>2, <5>5, <5>9, <5>10, <5>11
      <4>4. ~Queued(c)'
        BY <1>1, <1>2 DEF Queued
      <4>5. up'[c] = SubSeq(s, n + j + 1, Sent(c))
        BY <2>1, <3>2
      <4>6. Taken(c, n + j)'
        BY <2>2, <3>5, <3>6, <4>1, <4>2, <4>3, <4>4, <4>5 DEF Taken, k, f
      <4>7. Unfound(c)'
        BY <1>1, <2>2, <3>2, <3>5, <3>6, <3>10, <4>6 DEF Unfound
      <4> QED
        BY <4>7
    <3>14. CASE Ends(piece)
      <4>1. /\ n + j = Len(s) /\ j >= 2 /\ Sent(c) = Len(s) /\ phase' = "encrypt"
            /\ sfile' = sfile \o SubSeq(s, n + 1, Len(s) - 2)
        <5>1. n + j = Len(s) /\ j >= 2 /\ Before(piece) = SubSeq(s, n + 1, Len(s) - 2)
          BY <3>12, <3>14
        <5>2. Sent(c) = Len(s)
          BY <3>2, <3>4, <5>1
        <5> QED
          BY <1>4, <2>1, <3>14, <5>1, <5>2
      <4>2. n <= Len(s) - 2 /\ Len(s) - 2 \in Nat
        BY <3>3, <3>11, <4>1
      <4>3. up'[c] = <<>>
        <5>1. up'[c] = SubSeq(s, Len(s) + 1, Len(s)) /\ Len(s) \in Nat /\ Len(s) \in Len(s) .. Len(s)
          BY <2>1, <3>2, <3>3, <4>1
        <5>2. up'[c] \in Seq(Symbols) /\ Len(up'[c]) = Len(s) - Len(s)
          BY <3>3, <5>1, PartFacts
        <5>3. Len(up'[c]) = 0
          BY <5>1, <5>2
        <5> QED
          BY <5>2, <5>3, EmptySeq
      <4>4. at[c] \in {"store", "recv"}
        <5> DEFINE m == Len(s)
                   t == Sent(c)
        <5>1. m \in Nat /\ m >= 4 /\ t = m /\ (at[c] = "prompt" => t = 2) /\ (at[c] = "upload" => t <= m - 2)
          BY <3>4, <4>1, StreamFacts DEF s
        <5> HIDE DEF m, t
        <5>2. at[c] # "prompt" /\ at[c] # "upload"
          BY <5>1
        <5> QED
          BY <3>10, <5>2
      <4>5. Plain(skey) /\ Plain(sfile')
        <5>1. Plain(skey) /\ Plain(sfile)
          BY <3>8, <4>2
        <5>2. /\ SubSeq(s, n + 1, Len(s) - 2) \in Seq(Symbols)
              /\ Plain(SubSeq(s, n + 1, Len(s) - 2))
          BY <3>3, <3>11, <4>2, PlainTail
        <5>3. Plain(sfile \o SubSeq(s, n + 1, Len(s) - 2))
          BY <3>9, <5>1, <5>2, PlainParts
        <5> QED
          BY <4>1, <5>1, <5>3
      <4>6. ASSUME ~astray'[c] PROVE skey = k /\ sfile' = f
        <5>1. /\ skey = k /\ l <= Len(f) /\ sfile = SubSeq(f, 1, l) /\ n = 2 + Len(k) + l
          BY <2>1, <3>7, <4>6
        <5>2. Len(s) - 2 = 2 + Len(k) + Len(f) /\ Len(f) \in l .. Len(f) /\ l \in 0 .. Len(f) /\ 0 \in Nat
          BY <3>3, <3>9, <5>1
        <5> DEFINE m == Len(s) - 2
                   r == Len(f)
                   z == 0
        <5>3. /\ k \in Seq(Letters) /\ f \in Seq(Letters) /\ s = Round(k, f) /\ l \in Nat
              /\ r \in l .. Len(f) /\ n = 2 + Len(k) + l /\ m = 2 + Len(k) + r
              /\ z \in Nat /\ l \in z .. Len(f)
          BY <3>3, <3>9, <5>1, <5>2
        <5>a. SubSeq(f, 1, Len(f)) = f
          BY <5>3, SubSeqFull
        <5>4. /\ sfile' = sfile \o SubSeq(s, n + 1, m) /\ sfile = SubSeq(f, z + 1, l)
              /\ SubSeq(f, z + 1, r) = f
          <6>1. z + 1 = 1
            OBVIOUS
          <6> QED
            BY <4>1, <5>a, <5>1, <6>1
        <5> HIDE DEF m, r, z
        <5>5. SubSeq(Round(k, f), n + 1, m) = SubSeq(f, l + 1, r)
          <6>1. /\ k \in Seq(Letters) /\ f \in Seq(Letters) /\ l \in Nat /\ r \in l .. Len(f)
                /\ Reaches(k, l, n) /\ Reaches(k, r, m)
            BY <5>3 DEF Reaches
          <6>2. Copies(Round(k, f), n, m, f, l, r)
            BY <6>1, FileOfRound
          <6> QED
            BY <6>2 DEF Copies
        <5>6. SubSeq(f, z + 1, l) \o SubSeq(f, l + 1, r) = SubSeq(f, z + 1, r)
          BY <5>3, AdjacentParts
        <5> QED
          BY <5>1, <5>3, <5>4, <5>5, <5>6
      <4>7. Found(c)'
        BY <1>1, <2>2, <3>5, <3>10, <4>1, <4>3, <4>4, <4>5, <4>6 DEF Found, k, f
      <4> QED
        BY <4>7
    <3> QED
      BY <3>13, <3>14
  <2>7. phase # "down" /\ phase' # "down"
    BY <1>1, <1>4
  <2> QED
    BY <1>1, <1>2, <2>1, <2>5, <2>6, <2>7, ServedKeeps
<1> QED
  BY <1>3, <1>4 DEF RecvFile

-----------------------------------------------------------------------------
(* What the server makes of the file, and sends back.                      *)
LEMMA EmptyResult ==
  ASSUME skey \in Seq(Symbols), sfile = <<>>
  PROVE  Result = <<Marker>>
<1>1. sfile \in Seq(Symbols) /\ Len(sfile) = 0
  BY EmptySeq
<1>2. Result \in Seq(Seq(Symbols)) /\ Len(Result) = Len(sfile) + 1 /\ Result[Len(sfile) + 1] = Marker
  BY <1>1, ResultFacts
<1>3. Len(sfile) + 1 = 1
  BY <1>1
<1> DEFINE m == <<Marker>>
<1>4. m \in Seq(Seq(Symbols)) /\ Len(m) = 1 /\ m[1] = Marker
  BY SymbolsFacts
<1> HIDE DEF m
<1>5. Len(Result) = 1 /\ Result[1] = Marker
  BY <1>2, <1>3
<1>6. \A i \in 1 .. Len(Result) : Result[i] = m[i]
  BY <1>4, <1>5
<1>7. Result = m
  BY <1>2, <1>4, <1>5, <1>6, SeqEqual
<1> QED
  BY <1>7 DEF m

(* A key as long as the alphabet has a letter for every letter.            *)
LEMMA TrueLetter ==
  ASSUME NEW k \in [1 .. KeyLen -> Letters], NEW x \in Letters
  PROVE  Substitute(k, x) \in Letters
<1> DEFINE j == CHOOSE j \in DOMAIN Alphabet : Alphabet[j] = x
<1>1. j \in DOMAIN Alphabet
  BY DEF Letters
<1>2. DOMAIN Alphabet = 1 .. KeyLen /\ KeyLen \in Nat
  BY EncFileAssumption DEF KeyLen
<1>3. Len(k) = KeyLen
  BY <1>2
<1>4. Substitute(k, x) = IF j <= Len(k) THEN k[j] ELSE Nul
  BY DEF Substitute
<1> HIDE DEF j, KeyLen, Letters
<1>5. j \in 1 .. KeyLen /\ j <= KeyLen
  BY <1>1, <1>2
<1> QED
  BY <1>3, <1>4, <1>5

(* Neither the file nor the key has the marker: nor has what is made of them. *)
LEMMA PlainLetter ==
  ASSUME NEW k \in Seq(Symbols), Plain(k), NEW x \in Symbols, x \notin {Marker[1], Marker[2]}
  PROVE  Substitute(k, x) \notin {Marker[1], Marker[2]}
<1>1. CASE x \notin Letters
  BY <1>1 DEF Substitute
<1>2. CASE x \in Letters
  <2> DEFINE j == CHOOSE j \in DOMAIN Alphabet : Alphabet[j] = x
  <2>1. j \in DOMAIN Alphabet
    BY <1>2 DEF Letters
  <2>2. DOMAIN Alphabet = 1 .. Len(Alphabet) /\ DOMAIN k = 1 .. Len(k)
    BY EncFileAssumption, LenProperties
  <2>3. Substitute(k, x) = IF j <= Len(k) THEN k[j] ELSE Nul
    BY <1>2 DEF Substitute
  <2>4. Nul \notin {Marker[1], Marker[2]}
    BY DEF Nul, Marker
  <2> HIDE DEF j, Marker, Nul
  <2>5. j <= Len(k) => j \in DOMAIN k
    BY <2>1, <2>2
  <2>6. j <= Len(k) => k[j] \notin {Marker[1], Marker[2]}
    BY <2>5 DEF Plain
  <2> QED
    BY <2>3, <2>4, <2>6
<1> QED
  BY <1>1, <1>2

LEMMA EncryptAgrees ==
  ASSUME TypeInv, StreamsAgree, NEW c \in Clients, Encrypt(c)
  PROVE  StreamsAgree'
<1>1. /\ phase = "encrypt" /\ serving = c /\ UNCHANGED <<clientVars, down, astray>>
      /\ UNCHANGED <<at, key, file, out, got, whole, rounds, left>>
  BY DEF Encrypt, clientVars
<1>a. Alive(c) => c \notin rst /\ Found(c)
  BY <1>1, ServedConnection DEF Unfound, Taken
<1>b. NoPart(c) /\ c \notin shut
  BY <1>1, ServedConnection DEF Connection
<1>3. CASE Fault /\ GoDown
  <2>1. faults' = faults \/ faults' = faults + 1
    BY <1>3 DEF Fault
  <2> QED
    BY <1>1, <1>3, <2>1, GoDownAgrees
<1>4. CASE Fault /\ Close(c)
  <2>1. faults' = faults + 1 /\ faults' > 0
    BY <1>4 DEF Fault, TypeInv, TypeOK
  <2>2. Alive(c) => down[c] = <<>> /\ at[c] # "ask"
    BY <1>1, <1>a DEF Found
  <2> QED
    BY <1>1, <1>4, <2>1, <2>2, CloseAgrees
<1>5. CASE /\ sout' = Result
           /\ phase' = "reply"
           /\ UNCHANGED <<serving, skey, sfile, backlog, up, shut, rst, faults>>
  <2>1. skey \in Seq(Symbols) /\ sfile \in Seq(Symbols)
    BY DEF TypeInv, TypeOK
  <2>2. Result \in Seq(Seq(Symbols)) /\ Result' = Result
    BY <1>5, <2>1, ResultFacts DEF Result
  <2>3. at[c] = "gone" /\ left[c] = "answered" => NoPart(c)'
    <3> SUFFICES ASSUME at[c] = "gone", left[c] = "answered" PROVE NoPart(c)'
      OBVIOUS
    <3>1. sfile = <<>> /\ up[c] = <<>> /\ c \notin rst
      BY <1>1, <1>b DEF NoPart
    <3>2. sout' = <<Marker>>
      BY <1>5, <2>1, <3>1, EmptyResult
    <3> QED
      BY <1>1, <1>5, <3>1, <3>2 DEF NoPart
  <2>4. Alive(c) => Found(c)'
    <3> SUFFICES ASSUME Alive(c) PROVE Found(c)'
      OBVIOUS
    <3>1. /\ Found(c) /\ down[c] = <<>> /\ Arrived(c) = <<>> /\ up[c] = <<>>
          /\ at[c] # "ask" /\ Plain(skey) /\ Plain(sfile)
          /\ ~astray[c] => skey = key[c] /\ sfile = file[c]
      BY <1>1, <1>a DEF Found
    <3>2. Arrived(c)' = Arrived(c)
      BY <1>1 DEF Arrived
    <3> DEFINE e == Encryption(key[c], file[c])
               z == 0
               R == Result
               l == Len(R)
    <3>3. e' = e
      BY <1>1
    <3>4. e \in Seq(Symbols \cup {Nul})
      <4>1. key[c] \in Seq(Symbols) /\ file[c] \in Seq(Symbols)
        BY StreamFacts, SymbolsFacts, SeqMonotonic
      <4> QED
        BY <4>1, EncryptionFacts
    <3>5. z + 1 = 1 /\ SubSeq(R, 1, l) = R /\ SubSeq(e, 1, z) = <<>> /\ <<>> \o <<>> = <<>>
      <4>1. SubSeq(R, 1, l) = R
        BY <2>2, SubSeqFull
      <4>2. SubSeq(e, 1, z) = <<>>
        <5> HIDE DEF e
        <5> QED
          BY <3>4, SubSeqProperties, EmptySeq
      <4>3. <<>> \o <<>> = <<>>
        BY EmptySeq, ConcatEmptySeq, SymbolsFacts
      <4> QED
        BY <4>1, <4>2, <4>3
    <3>6. Plain(<<>>)
      BY DEF Plain
    <3>7. Returned(c, z)'
      BY <1>1, <1>5, <2>2, <3>1, <3>2, <3>3, <3>5, <3>6 DEF Returned
    <3>8. z \in 0 .. Len(sfile')
      BY <1>5, <2>1, LenProperties
    <3>9. \E n \in 0 .. Len(sfile') : Returned(c, n)'
      BY <3>7, <3>8
    <3> HIDE DEF e, z, R, l
    <3>10. serving' = c /\ phase' = "reply" /\ at'[c] = at[c] /\ up'[c] = up[c]
           /\ skey' = skey /\ sfile' = sfile /\ key'[c] = key[c] /\ file'[c] = file[c]
           /\ astray'[c] = astray[c]
      BY <1>1, <1>5
    <3>11. at[c] \in {"store", "recv", "ask"}
      BY <3>1 DEF Found
    <3> QED
      BY <3>1, <3>9, <3>10, <3>11 DEF Found
  <2>5. Alive(c) => c \notin rst'
    BY <1>5, <1>a
  <2>6. \A d \in Clients \ {c} : up'[d] = up[d] /\ astray'[d] = astray[d] /\ (d \in rst' <=> d \in rst)
    BY <1>1, <1>5
  <2> QED
    BY <1>1, <1>5, <2>3, <2>4, <2>5, <2>6, ServedKeeps
<1> QED
  BY <1>3, <1>4, <1>5 DEF Encrypt

(* One thing more has been sent: what comes of the encryption so far.      *)
LEMMA OneMore ==
  ASSUME NEW S, NEW s \in Seq(S), NEW n \in Nat, n < Len(s)
  PROVE  SubSeq(s, 1, n) \o <<s[n + 1]>> = SubSeq(s, 1, n + 1)
<1> DEFINE z == 0
           m == n + 1
<1>1. Len(s) \in Nat /\ m \in 1 .. Len(s)
  BY LenProperties
<1>2. z \in Nat /\ n \in z .. Len(s) /\ m \in n .. Len(s) /\ z + 1 = 1
  BY <1>1
<1>3. s[m] \in S
  BY <1>1, ElementOfSeq
<1>4. SubSeq(s, n + 1, m) = <<s[m]>>
  <2>1. /\ SubSeq(s, n + 1, m) \in Seq(S) /\ Len(SubSeq(s, n + 1, m)) = m - n
        /\ \A i \in 1 .. m - n : SubSeq(s, n + 1, m)[i] = s[n + i]
    BY <1>2, PartFacts
  <2>2. m - n = 1
    BY <1>1
  <2> DEFINE p == SubSeq(s, n + 1, m)
             q == <<s[m]>>
  <2>3. q \in Seq(S) /\ Len(q) = 1 /\ q[1] = s[m]
    BY <1>3
  <2> HIDE DEF q
  <2>a. p \in Seq(S) /\ Len(p) = m - n /\ \A i \in 1 .. m - n : p[i] = s[n + i]
    BY <2>1
  <2>b. 1 \in 1 .. m - n
    BY <2>2
  <2> HIDE DEF p
  <2>c. p[1] = s[n + 1]
    BY <2>a, <2>b
  <2>4. p \in Seq(S) /\ Len(p) = 1 /\ p[1] = s[n + 1]
    BY <2>a, <2>c, <2>2
  <2>5. \A i \in 1 .. Len(p) : p[i] = q[i]
    BY <2>3, <2>4
  <2>6. p = q
    BY <2>3, <2>4, <2>5, SeqEqual
  <2> QED
    BY <2>6 DEF p, q
<1> HIDE DEF z, m
<1>5. SubSeq(s, z + 1, n) \o SubSeq(s, n + 1, m) = SubSeq(s, z + 1, m)
  BY <1>2, AdjacentParts
<1> QED
  BY <1>2, <1>4, <1>5 DEF m

(* What comes next of a sequence of which n have gone, and what is left.   *)
LEMMA NextOf ==
  ASSUME NEW S, NEW R \in Seq(S), NEW n \in Nat, n < Len(R)
  PROVE  /\ Head(SubSeq(R, n + 1, Len(R))) = R[n + 1]
         /\ Tail(SubSeq(R, n + 1, Len(R))) = SubSeq(R, (n + 1) + 1, Len(R))
         /\ Tail(SubSeq(R, n + 1, Len(R))) = <<>> <=> Len(R) = n + 1
<1> DEFINE l == Len(R)
           b == n + 1
           o == SubSeq(R, n + 1, l)
           t == SubSeq(R, b + 1, l)
<1>1. l \in Nat /\ l \in n .. Len(R) /\ l - n >= 1 /\ b \in Nat /\ l \in b .. Len(R)
  BY LenProperties
<1>2. /\ o \in Seq(S) /\ Len(o) = l - n
      /\ \A i \in 1 .. l - n : o[i] = R[n + i]
  <2> HIDE DEF l
  <2> QED
    BY <1>1, PartFacts
<1>3. /\ t \in Seq(S) /\ Len(t) = l - b
      /\ \A i \in 1 .. l - b : t[i] = R[b + i]
  <2> HIDE DEF l, b
  <2> QED
    BY <1>1, PartFacts
<1> HIDE DEF o, t, l
<1>4. o # <<>>
  <2>1. Len(o) >= 1
    BY <1>1, <1>2
  <2> QED
    BY <1>2, <2>1, EmptySeq
<1>5. /\ Head(o) = o[1] /\ Tail(o) \in Seq(S)
      /\ Len(Tail(o)) = Len(o) - 1
      /\ \A i \in 1 .. Len(Tail(o)) : Tail(o)[i] = o[i + 1]
  BY <1>2, <1>4, HeadTailProperties
<1>6. Head(o) = R[n + 1]
  BY <1>1, <1>2, <1>5
<1>7. Len(Tail(o)) = Len(t) /\ Len(Tail(o)) = l - b
  BY <1>1, <1>2, <1>3, <1>5
<1>8. ASSUME NEW i \in 1 .. Len(Tail(o)) PROVE Tail(o)[i] = t[i]
  <2>1. i \in 1 .. l - b /\ i + 1 \in 1 .. l - n /\ n + (i + 1) = b + i
    BY <1>1, <1>7
  <2>2. Tail(o)[i] = o[i + 1] /\ o[i + 1] = R[n + (i + 1)] /\ t[i] = R[b + i]
    BY <2>1, <1>2, <1>3, <1>5
  <2> QED
    BY <2>1, <2>2
<1>9. Tail(o) = t
  BY <1>3, <1>5, <1>7, <1>8, SeqEqual
<1>10. Tail(o) = <<>> <=> l = n + 1
  <2> DEFINE h == Len(Tail(o))
  <2>1. h = l - b /\ l \in Nat /\ b \in Nat /\ b = n + 1
    BY <1>1, <1>7
  <2>2. Tail(o) = <<>> <=> h = 0
    BY <1>5, EmptySeq
  <2> HIDE DEF h, b
  <2>3. h = 0 <=> l = n + 1
    BY <2>1
  <2> QED
    BY <2>2, <2>3
<1> QED
  BY <1>6, <1>9, <1>10 DEF o, t, l

(* The marker behind a sequence without one is its last.                   *)
LEMMA MarkedLast ==
  ASSUME NEW d \in Seq(Symbols), Plain(d)
  PROVE  MarkerLast(d \o Marker)
<1> DEFINE m == Marker
           s == d \o m
           b == 2
<1>1. m \in Seq(Symbols) /\ Len(m) = b /\ m[1] # m[2]
  BY SymbolsFacts DEF Marker
<1>2. \A i \in DOMAIN d : d[i] # m[1] /\ d[i] # m[2]
  BY DEF Plain
<1> HIDE DEF m, b, Symbols
<1>a. /\ s \in Seq(Symbols) /\ Len(s) = Len(d) + b /\ Len(d) \in Nat
      /\ Begins(s, d) /\ Holds(s, Len(d), m)
  BY <1>1, Joined
<1>b. b = 2
  BY DEF b
<1>3. /\ s \in Seq(Symbols) /\ Len(s) = Len(d) + 2 /\ Len(d) \in Nat
      /\ \A i \in 1 .. Len(d) : s[i] = d[i]
      /\ s[Len(d) + 1] = m[1] /\ s[Len(d) + 2] = m[2]
  <2> HIDE DEF s
  <2>1. 1 \in 1 .. Len(m) /\ 2 \in 1 .. Len(m)
    BY <1>1, <1>b
  <2>2. s[Len(d) + 1] = m[1] /\ s[Len(d) + 2] = m[2]
    BY <1>a, <2>1 DEF Holds
  <2>3. \A i \in 1 .. Len(d) : s[i] = d[i]
    BY <1>a DEF Begins
  <2> QED
    BY <1>a, <1>b, <2>2, <2>3
<1>4. DOMAIN s = 1 .. Len(s) /\ DOMAIN d = 1 .. Len(d)
  BY <1>3, LenProperties
<1> HIDE DEF s
<1>5. ASSUME NEW i \in 1 .. Len(s)
      PROVE  /\ s[i] = m[1] => i = Len(s) - 1
             /\ s[i] = m[2] => i = Len(s)
  <2>1. i \in 1 .. Len(d) \/ i = Len(d) + 1 \/ i = Len(d) + 2
    BY <1>3
  <2>2. CASE i \in 1 .. Len(d)
    BY <2>2, <1>2, <1>3, <1>4
  <2>3. CASE i = Len(d) + 1
    <3>1. s[i] = m[1] /\ i = Len(s) - 1
      BY <2>3, <1>3
    <3> QED
      BY <3>1, <1>1
  <2>4. CASE i = Len(d) + 2
    <3>1. s[i] = m[2] /\ i = Len(s)
      BY <2>4, <1>3
    <3> QED
      BY <3>1, <1>1
  <2> QED
    BY <2>1, <2>2, <2>3, <2>4
<1> QED
  BY <1>4, <1>5 DEF MarkerLast, m, s

LEMMA SendBackAgrees ==
  ASSUME TypeInv, StreamsAgree, NEW c \in Clients, SendBack(c)
  PROVE  StreamsAgree'
<1>1. /\ phase = "reply" /\ serving = c /\ UNCHANGED <<clientVars, faults, astray>>
      /\ UNCHANGED <<at, key, file, out, got, whole, rounds, left>>
  BY DEF SendBack, clientVars
<1>2. /\ Alive(c) => c \notin rst /\ Found(c)
      /\ Alive(c) \/ at[c] = "gone"
  BY <1>1, ServedConnection DEF Unfound, Taken
<1>3. /\ NoPart(c) /\ TypedPart(c) /\ c \notin shut
      /\ at[c] = "gone" => left[c] \in {"answered", "early"}
  BY <1>1, ServedConnection DEF Connection
<1>4. CASE Breaks(c) /\ GoDown /\ UNCHANGED down
  <2>1. ~Alive(c)
    BY <1>4 DEF Breaks, Alive
  <2> QED
    BY <1>1, <1>4, <2>1, GoDownAgrees
<1>5. CASE /\ IF at[c] = "gone"
              THEN rst' = (IF Head(sout) = <<>> THEN rst ELSE rst \cup {c}) /\ UNCHANGED down
              ELSE down' = [down EXCEPT ![c] = @ \o Head(sout)] /\ UNCHANGED rst
           /\ sout' = Tail(sout)
           /\ IF sout' = <<>> THEN phase' = "more" /\ skey' = <<>> /\ sfile' = <<>>
              ELSE UNCHANGED <<phase, skey, sfile>>
           /\ UNCHANGED <<serving, backlog, up, shut>>
  <2>1. phase' \in {"more", "reply"}
    BY <1>1, <1>5
  <2>2. CASE at[c] = "gone"
    <3>1. UNCHANGED down /\ rst' = (IF Head(sout) = <<>> THEN rst ELSE rst \cup {c})
      BY <1>5, <2>2
    <3>2. left[c] = "answered" => NoPart(c)'
      <4> SUFFICES ASSUME left[c] = "answered" PROVE NoPart(c)'
        OBVIOUS
      <4>1. sout = <<Marker>> /\ up[c] = <<>>
        BY <1>1, <1>3, <2>2 DEF NoPart
      <4>2. sout' = <<>>
        BY <1>5, <4>1
      <4>3. phase' = "more" /\ serving' = c /\ up'[c] = <<>>
        BY <1>1, <1>5, <4>1, <4>2
      <4> QED
        BY <1>1, <4>3 DEF NoPart
    <3>3. ~Alive(c)
      BY <2>2 DEF Alive
    <3>4. \A d \in Clients \ {c} : up'[d] = up[d] /\ astray'[d] = astray[d] /\ (d \in rst' <=> d \in rst)
      BY <1>1, <1>5, <3>1
    <3>5. UNCHANGED <<clientVars, down, serving, backlog, shut>> /\ phase # "down" /\ phase' # "down"
      BY <1>1, <1>5, <2>1, <3>1
    <3> QED
      BY <1>1, <3>2, <3>3, <3>4, <3>5, ServedKeeps
  <2>3. CASE at[c] # "gone"
    <3>1. down' = [down EXCEPT ![c] = @ \o Head(sout)] /\ UNCHANGED rst
      BY <1>5, <2>3
    <3> DEFINE d == down[c]
               h == Head(sout)
               e == Encryption(key[c], file[c])
               a == Arrived(c)
               R == Result
               fl == Len(sfile)
    <3>2. down'[c] = d \o h /\ \A x \in Clients \ {c} : down'[x] = down[x]
      BY <3>1 DEF TypeInv, TypeOK
    <3>3. Alive(c) /\ Found(c) /\ c \notin rst
      BY <1>2, <2>3
    <3>4. PICK n \in 0 .. Len(sfile) : Returned(c, n)
      BY <1>1, <3>3 DEF Found
    <3>5. /\ sout = SubSeq(R, n + 1, Len(R)) /\ Plain(d)
          /\ ~astray[c] => a \o d = SubSeq(e, 1, n)
      BY <3>4 DEF Returned
    <3>6. /\ at[c] \in {"store", "recv"} /\ up[c] = <<>> /\ Plain(skey) /\ Plain(sfile)
          /\ ~astray[c] => skey = key[c] /\ sfile = file[c]
      BY <1>1, <3>3 DEF Found
    <3>7. /\ skey \in Seq(Symbols) /\ sfile \in Seq(Symbols) /\ d \in Seq(Symbols) /\ a \in Seq(Symbols)
          /\ fl \in Nat /\ n \in 0 .. fl
      <4>1. skey \in Seq(Symbols) /\ sfile \in Seq(Symbols) /\ d \in Seq(Symbols)
        BY DEF TypeInv, TypeOK
      <4>2. a \in Seq(Symbols)
        BY SymbolsFacts DEF TypeInv, TypeOK, Arrived
      <4> QED
        BY <4>1, <4>2, LenProperties
    <3>8. /\ R \in Seq(Seq(Symbols)) /\ Len(R) = fl + 1
          /\ \A i \in 1 .. fl : R[i] = Lines(Encryption(skey, sfile))[i]
          /\ R[fl + 1] = Marker
      BY <3>7, ResultFacts
    <3>9. e \in Seq(Symbols \cup {Nul}) /\ Len(e) = Len(file[c])
      <4>1. key[c] \in Seq(Symbols) /\ file[c] \in Seq(Symbols)
        BY StreamFacts, SymbolsFacts, SeqMonotonic
      <4> QED
        BY <4>1, EncryptionFacts
    <3>10. /\ h = R[n + 1] /\ sout' = SubSeq(R, (n + 1) + 1, Len(R))
           /\ sout' = <<>> <=> n = fl
      <4> DEFINE l == Len(R)
                 o == SubSeq(R, n + 1, l)
      <4>1. n \in Nat /\ n < Len(R) /\ l = fl + 1
        BY <3>7, <3>8
      <4>2. sout = o /\ sout' = Tail(sout) /\ h = Head(o)
        BY <1>5, <3>5
      <4>3. Head(o) = R[n + 1] /\ Tail(o) = SubSeq(R, (n + 1) + 1, l) /\ (Tail(o) = <<>> <=> l = n + 1)
        <5> HIDE DEF R
        <5> QED
          BY <3>8, <4>1, NextOf
      <4> HIDE DEF l, o, R, fl, h
      <4>4. l = n + 1 <=> n = fl
        BY <4>1, <3>7
      <4> QED
        BY <4>2, <4>3, <4>4 DEF l
    <3>11. Arrived(c)' = a /\ (Encryption(key[c], file[c]))' = e /\ Alive(c)'
      BY <1>1, <2>3, <3>3 DEF Arrived, Alive
    <3> HIDE DEF d, h, e, a, R, fl
    <3>12. ASSUME n < fl PROVE Found(c)'
      <4>1. phase' = "reply" /\ skey' = skey /\ sfile' = sfile
        <5>1. sout' # <<>>
          BY <3>7, <3>10, <3>12
        <5> QED
          BY <1>1, <1>5, <5>1
      <4>2. n + 1 \in 1 .. fl /\ n + 1 \in 0 .. fl
        BY <3>7, <3>12
      <4> DEFINE x == sfile[n + 1]
                 y == Substitute(skey, x)
      <4>3. h = IF y = Nul THEN <<>> ELSE <<y>>
        <5> DEFINE E == Encryption(skey, sfile)
                   m == n + 1
        <5>1. E \in Seq(Symbols \cup {Nul}) /\ Len(E) = fl /\ m \in 1 .. fl
          BY <3>7, <4>2, EncryptionFacts DEF fl
        <5>2. E[m] = y
          BY <3>7, <4>2, EncryptionFacts DEF fl
        <5>3. h = Lines(E)[m]
          BY <3>8, <3>10, <4>2
        <5> HIDE DEF E, m, y
        <5>4. Lines(E)[m] = IF E[m] = Nul THEN <<>> ELSE <<E[m]>>
          BY <5>1, LinesFacts
        <5> QED
          BY <5>2, <5>3, <5>4
      <4>4. x \in Symbols /\ x \notin {Marker[1], Marker[2]}
        <5>1. DOMAIN sfile = 1 .. fl
          BY <3>7, LenProperties DEF fl
        <5> QED
          BY <3>6, <3>7, <4>2, <5>1, ElementOfSeq DEF Plain, fl
      <4>5. y \notin {Marker[1], Marker[2]}
        BY <3>6, <3>7, <4>4, PlainLetter
      <4>6. y \in Symbols \cup {Nul}
        <5> DEFINE E == Encryption(skey, sfile)
                   m == n + 1
        <5>1. E \in Seq(Symbols \cup {Nul}) /\ Len(E) = fl /\ m \in 1 .. fl /\ E[m] = y
          BY <3>7, <4>2, EncryptionFacts DEF fl
        <5> HIDE DEF E, m, y, Symbols
        <5>2. E[m] \in Symbols \cup {Nul}
          BY <5>1, ElementOfSeq
        <5> QED
          BY <5>1, <5>2
      <4> HIDE DEF x, y
      <4>7. h \in Seq(Symbols) /\ Plain(h)
        <5>1. CASE y = Nul
          <6>1. h = <<>>
            BY <4>3, <5>1
          <6> QED
            BY <6>1, EmptySeq DEF Plain
        <5>2. CASE y # Nul
          <6>1. h = <<y>> /\ y \in Symbols
            BY <4>3, <4>6, <5>2
          <6>2. h \in Seq(Symbols) /\ DOMAIN h = {1} /\ h[1] = y
            BY <6>1
          <6> QED
            BY <4>5, <6>2 DEF Plain
        <5> QED
          BY <5>1, <5>2
      <4>8. Plain(d \o h)
        BY <3>5, <3>7, <4>7, PlainParts
      <4>9. ~astray[c] => a \o (d \o h) = SubSeq(e, 1, n + 1)
        <5> SUFFICES ASSUME ~astray[c] PROVE a \o (d \o h) = SubSeq(e, 1, n + 1)
          OBVIOUS
        <5>1. skey = key[c] /\ sfile = file[c] /\ a \o d = SubSeq(e, 1, n)
          BY <3>5, <3>6
        <5>2. y \in Letters
          <6>1. key[c] \in [1 .. KeyLen -> Letters] /\ file[c] \in Seq(Letters)
            BY <1>3, <3>6 DEF TypedPart
          <6>2. x \in Letters
            BY <4>2, <5>1, <6>1, ElementOfSeq DEF x, fl
          <6> HIDE DEF KeyLen, Letters
          <6> QED
            BY <5>1, <6>1, <6>2, TrueLetter DEF y
        <5>3. h = <<y>>
          BY <4>3, <5>2, MarkerAssumption
        <5>4. e[n + 1] = y /\ n < Len(e) /\ n \in Nat
          <6>1. e[n + 1] = y
            BY <3>7, <4>2, <5>1, EncryptionFacts DEF e, y, x, fl
          <6>2. Len(e) = fl
            BY <3>9, <5>1 DEF fl
          <6> QED
            BY <3>7, <3>12, <6>1, <6>2
        <5>5. SubSeq(e, 1, n) \o <<e[n + 1]>> = SubSeq(e, 1, n + 1)
          BY <3>9, <5>4, OneMore
        <5>6. (a \o d) \o h = a \o (d \o h)
          BY <3>7, <4>7, ConcatAssociative, SMTT(30)
        <5> QED
          BY <5>1, <5>3, <5>4, <5>5, <5>6
      <4>10. Result' = R
        BY <4>1 DEF Result, R
      <4>11. Returned(c, n + 1)'
        BY <1>1, <3>2, <3>10, <3>11, <4>8, <4>9, <4>10 DEF Returned
      <4>12. \E m \in 0 .. Len(sfile') : Returned(c, m)'
        BY <4>1, <4>2, <4>11 DEF fl
      <4>13. /\ serving' = c /\ at'[c] = at[c] /\ up'[c] = up[c] /\ key'[c] = key[c] /\ file'[c] = file[c]
             /\ astray'[c] = astray[c]
        BY <1>1, <1>5
      <4> QED
        BY <3>6, <4>1, <4>12, <4>13 DEF Found
    <3>13. ASSUME n = fl PROVE Found(c)'
      <4>1. h = Marker
        BY <3>8, <3>10, <3>13
      <4>2. phase' = "more"
        <5>1. sout' = <<>>
          BY <3>10, <3>13
        <5> QED
          BY <1>5, <5>1
      <4>3. MarkerLast(d \o h)
        BY <3>5, <3>7, <4>1, MarkedLast
      <4>4. ~astray[c] => Len(a) <= Len(file[c]) /\ a \o (d \o h) = e \o Marker
        <5> SUFFICES ASSUME ~astray[c] PROVE Len(a) <= Len(file[c]) /\ a \o (d \o h) = e \o Marker
          OBVIOUS
        <5>1. Len(e) = fl /\ Len(file[c]) = fl /\ a \o d = SubSeq(e, 1, n)
          BY <3>5, <3>6, <3>9 DEF fl
        <5>2. SubSeq(e, 1, Len(e)) = e
          BY <3>9, SubSeqFull
        <5>3. a \o d = e
          BY <3>13, <5>1, <5>2
        <5>4. Len(a) <= fl
          <6>1. Len(a \o d) = Len(a) + Len(d) /\ Len(a) \in Nat /\ Len(d) \in Nat
            BY <3>7, TwoParts
          <6>2. Len(a) + Len(d) = fl
            BY <5>1, <5>3, <6>1
          <6> QED
            BY <6>1, <6>2, <3>7
        <5>5. (a \o d) \o Marker = a \o (d \o Marker)
          <6>1. Marker \in Seq(Symbols)
            BY SymbolsFacts
          <6> HIDE DEF Marker, Symbols
          <6> QED
            BY <3>7, <6>1, ConcatAssociative, SMTT(30)
        <5> QED
          BY <4>1, <5>1, <5>3, <5>4, <5>5
      <4>5. /\ serving' = c /\ at'[c] = at[c] /\ up'[c] = up[c] /\ key'[c] = key[c] /\ file'[c] = file[c]
            /\ astray'[c] = astray[c]
        BY <1>1, <1>5
      <4>6. down'[c] = d \o h /\ Arrived(c)' = a /\ (Encryption(key[c], file[c]))' = e
        BY <3>2, <3>11
      <4> QED
        BY <3>6, <4>2, <4>3, <4>4, <4>5, <4>6 DEF Found
    <3>14. Found(c)'
      BY <3>7, <3>12, <3>13
    <3>15. Connection(c)'
      <4>1. TypedPart(c)' /\ OffPart(c)' /\ NoPart(c)'
        <5>1. TypedPart(c)'
          <6>1. Chunks(c)' = Chunks(c)
            BY <1>1 DEF Chunks
          <6> QED
            BY <1>1, <1>3, <6>1 DEF TypedPart
        <5> QED
          BY <1>1, <2>3, <3>6, <5>1 DEF OffPart, NoPart
      <4>2. c \notin shut' /\ c \notin rst'
        BY <1>3, <1>5, <3>1, <3>3
      <4> QED
        BY <3>14, <4>1, <4>2 DEF Connection
    <3>16. \A x \in Clients \ {c} : Untouched(x)
      BY <1>1, <1>5, <3>1, <3>2 DEF Untouched
    <3> QED
      BY <1>1, <1>5, <2>1, <3>15, <3>16, OneConnection
  <2> QED
    BY <2>2, <2>3
<1> QED
  BY <1>4, <1>5 DEF SendBack

(* The piece that is taken for the answer begins with the Y of Yes.        *)
LEMMA MoreBegins ==
  ASSUME TypeInv, NEW c \in Clients, TypedPart(c), Alive(c), Taken(c, 0),
         NEW b \in Nat, NEW piece \in Pieces(up[c], b)
  PROVE  piece # No
<1>1. 0 \in Nat /\ Sent(c) \in 2 .. Len(Stream(c)) /\ 0 \in 0 .. Sent(c)
  BY SentFacts
<1> DEFINE s == Stream(c)
           z == 0
           k == Len(piece)
<1>2. up[c] = SubSeq(s, z + 1, Sent(c)) /\ z \in 0 .. Sent(c) /\ z \in Nat
  BY <1>1 DEF Taken
<1> HIDE DEF z
<1>3. k \in 1 .. b /\ z + k <= Sent(c) /\ piece = SubSeq(s, z + 1, z + k)
  BY <1>2, TakenPiece
<1>4. s \in Seq(Symbols) /\ s[1] = Yes[1] /\ Len(s) \in Nat
  BY StreamFacts
<1> DEFINE m == z + k
<1>5. m \in z .. Len(s) /\ m - z >= 1 /\ 1 \in 1 .. m - z
  <2> DEFINE t == Sent(c)
             l == Len(s)
  <2>1. t \in 2 .. l /\ l \in Nat /\ z \in Nat /\ k \in 1 .. b /\ z + k <= t
    BY <1>1, <1>2, <1>3, <1>4
  <2> HIDE DEF t, l, k, s
  <2> QED
    BY <2>1 DEF l
<1>6. piece = SubSeq(s, z + 1, m)
  BY <1>3
<1> HIDE DEF s, k, m
<1>7. piece[1] = s[z + 1]
  BY <1>2, <1>4, <1>5, <1>6, PartFacts
<1>8. z + 1 = 1
  BY DEF z
<1>9. Yes[1] # No[1]
  BY DEF Yes, No
<1> QED
  BY <1>4, <1>7, <1>8, <1>9

(* All that can be taken of a pair but the whole of it is its first.       *)
LEMMA HalfOfPair ==
  ASSUME NEW S, NEW o \in Seq(S),
         NEW b \in Nat, NEW piece \in Pieces(o, b), piece # o
  PROVE  Len(o) = 2 => Rest(o, piece) = <<o[2]>>
<1> DEFINE k == Len(piece)
           q == <<o[2]>>
           r == Rest(o, piece)
<1>1. SubSeq(o, 1, Len(o)) = o
  BY SubSeqFull
<1>2. piece = SubSeq(o, 1, k)
  BY PieceFacts
<1>3. k \in 1 .. Len(o) /\ r \in Seq(S) /\ Len(r) = Len(o) - k /\ Holds(o, k, r)
  BY PieceAndRest
<1> SUFFICES ASSUME Len(o) = 2 PROVE r = q
  OBVIOUS
<1>4. o[2] \in S
  BY ElementOfSeq
<1>5. q \in Seq(S) /\ Len(q) = 1 /\ q[1] = o[2]
  BY <1>4
<1> HIDE DEF r, k, q
<1>6. k # 2
  <2> SUFFICES ASSUME k = 2 PROVE FALSE
    OBVIOUS
  <2>1. k = Len(o)
    OBVIOUS
  <2>2. piece = o
    BY <2>1, <1>1, <1>2
  <2> QED
    BY <2>2
<1>7. k = 1
  BY <1>3, <1>6
<1>8. Len(r) = 1 /\ 1 \in 1 .. Len(r)
  BY <1>3, <1>7
<1>9. o[k + 1] = r[1]
  BY <1>3, <1>8 DEF Holds
<1>10. k + 1 = 2
  BY <1>7
<1>11. r[1] = q[1]
  BY <1>5, <1>9, <1>10
<1>12. \A i \in 1 .. Len(r) : r[i] = q[i]
  BY <1>8, <1>11
<1>13. r = q
  BY <1>5, <1>3, <1>8, <1>12, SeqEqual
<1> QED
  BY <1>13 DEF r, q

(* All that can be taken of No but No itself is its N.                     *)
LEMMA HalfOfNo ==
  ASSUME NEW b \in Nat, NEW piece \in Pieces(No, b), piece # No
  PROVE  Rest(No, piece) = <<No[2]>>
<1>1. No \in Seq(Symbols) /\ Len(No) = 2
  BY SymbolsFacts
<1> HIDE DEF No, Symbols
<1> QED
  BY <1>1, HalfOfPair

LEMMA RecvMoreAgrees ==
  ASSUME TypeInv, StreamsAgree, NEW c \in Clients, RecvMore(c)
  PROVE  StreamsAgree'
<1>1. /\ phase = "more" /\ serving = c /\ UNCHANGED <<clientVars, down, faults>>
      /\ UNCHANGED <<at, key, file, out, got, whole, rounds, left>>
  BY DEF RecvMore, clientVars
<1>2. /\ Alive(c) => c \notin rst /\ (Unfound(c) \/ Found(c))
      /\ Alive(c) \/ at[c] = "gone"
      /\ NoPart(c) /\ TypedPart(c) /\ c \notin shut /\ ~Queued(c)
  BY <1>1, ServedConnection DEF Connection
<1>3. CASE AtEnd(c) /\ Close(c) /\ UNCHANGED astray
  <2>1. ~Alive(c)
    BY <1>3 DEF AtEnd, Alive
  <2> QED
    BY <1>1, <1>3, <2>1, CloseAgrees
<1>4. ASSUME NEW piece \in Pieces(up[c], Buf),
             Astray(c, piece \notin {Yes, No}),
             IF piece = No THEN Close(c)
             ELSE /\ phase' = "key"
                  /\ up' = [up EXCEPT ![c] = Rest(@, piece)]
                  /\ UNCHANGED <<serving, skey, sfile, sout, backlog, shut, rst>>
      PROVE  StreamsAgree'
  <2>1. /\ astray'[c] = (astray[c] \/ piece \notin {Yes, No})
        /\ \A d \in Clients \ {c} : astray'[d] = astray[d]
    BY <1>4 DEF Astray, TypeInv, TypeOK
  <2>2. Buf \in Nat /\ up[c] \in Seq(Symbols)
    BY EncFileAssumption DEF TypeInv, TypeOK
  <2>3. up[c] # <<>> /\ piece \in Seq(Symbols)
    BY <1>4, <2>2, PieceFacts
  <2>4. Alive(c) => Unfound(c) /\ Taken(c, 0)
    <3> SUFFICES ASSUME Alive(c) PROVE Unfound(c) /\ Taken(c, 0)
      OBVIOUS
    <3>1. Unfound(c)
      BY <1>2, <2>3 DEF Found
    <3>2. PICK n \in 0 .. Sent(c) : Taken(c, n)
      BY <3>1 DEF Unfound
    <3>3. n = 0
      BY <1>1, <3>2 DEF Taken
    <3> QED
      BY <3>1, <3>2, <3>3
  <2>5. Alive(c) => piece # No
    BY <1>2, <1>4, <2>2, <2>4, MoreBegins
  <2>6. CASE piece = No
    <3>1. ~Alive(c) /\ Close(c)
      BY <1>4, <2>5, <2>6
    <3> QED
      BY <1>1, <2>1, <3>1, CloseAgrees
  <2>7. CASE piece # No
    <3>1. /\ phase' = "key"
          /\ up' = [up EXCEPT ![c] = Rest(@, piece)]
          /\ UNCHANGED <<serving, skey, sfile, sout, backlog, shut, rst>>
      BY <1>4, <2>7
    <3>2. up'[c] = Rest(up[c], piece) /\ \A d \in Clients \ {c} : up'[d] = up[d]
      BY <3>1 DEF TypeInv, TypeOK
    <3>3. at[c] = "gone" /\ left[c] = "answered" => NoPart(c)'
      <4> SUFFICES ASSUME at[c] = "gone", left[c] = "answered" PROVE NoPart(c)'
        OBVIOUS
      <4>1. up[c] = No /\ c \notin rst
        BY <1>1, <1>2, <2>3 DEF NoPart
      <4>2. up'[c] = <<No[2]>>
        <5>1. piece \in Pieces(No, Buf)
          BY <1>4, <4>1
        <5> QED
          BY <2>2, <2>7, <3>2, <4>1, <5>1, HalfOfNo
      <4> QED
        BY <1>1, <3>1, <4>1, <4>2 DEF NoPart
    <3>4. Alive(c) => Unfound(c)'
      <4> SUFFICES ASSUME Alive(c) PROVE Unfound(c)'
        OBVIOUS
      <4> DEFINE s == Stream(c)
                 k == Len(piece)
                 z == 0
      <4>1. z \in 0 .. Sent(c) /\ up[c] = SubSeq(s, z + 1, Sent(c)) /\ z = 0
        BY <1>2, <2>4, SentFacts DEF Taken
      <4> HIDE DEF z
      <4>2. k \in 1 .. Buf /\ z + k \in 0 .. Sent(c) /\ Rest(up[c], piece) = SubSeq(s, (z + k) + 1, Sent(c))
        BY <1>2, <1>4, <2>2, <4>1, TakenPiece
      <4>3. z + k = k
        BY <4>1, <4>2
      <4>4. k \in 0 .. Sent(c) /\ up'[c] = SubSeq(s, k + 1, Sent(c))
        BY <3>2, <4>2, <4>3
      <4>5. (Stream(c)' = s) /\ Arrived(c)' = Arrived(c)
        BY <1>1 DEF Stream, Arrived
      <4>6. Sent(c)' = Sent(c)
        BY <1>1, <4>5 DEF Sent, Chunks
      <4>7. ~astray'[c] => k = 2
        BY <2>1, <2>7, SymbolsFacts
      <4>8. ~Queued(c)'
        BY <1>2, <3>1 DEF Queued
      <4> HIDE DEF s, k
      <4>9. Taken(c, k)'
        BY <1>1, <3>1, <4>4, <4>5, <4>6, <4>7, <4>8 DEF Taken
      <4> QED
        BY <1>1, <2>4, <4>4, <4>5, <4>6, <4>9 DEF Unfound
    <3>5. \A d \in Clients \ {c} : up'[d] = up[d] /\ astray'[d] = astray[d] /\ (d \in rst' <=> d \in rst)
      BY <2>1, <3>1, <3>2
    <3>6. Alive(c) => c \notin rst'
      BY <1>2, <3>1
    <3> QED
      BY <1>1, <3>1, <3>3, <3>4, <3>5, <3>6, ServedKeeps
  <2> QED
    BY <2>6, <2>7
<1> QED
  BY <1>3, <1>4 DEF RecvMore

-----------------------------------------------------------------------------
(* The invariant.                                                          *)
LEMMA InitAgrees == Init => StreamsAgree
<1> SUFFICES ASSUME Init PROVE StreamsAgree
  OBVIOUS
<1>1. backlog = <<>> /\ DOMAIN backlog = {} /\ serving = None /\ shut = {} /\ rst = {} /\ phase = "accept"
  BY DEF Init
<1>2. /\ None \notin Clients
      /\ \A c \in Clients : /\ at[c] = "off" /\ left[c] = "no" /\ up[c] = <<>> /\ down[c] = <<>>
                            /\ serving # c
  BY EncFileAssumption DEF Init
<1>3. QueuePart
  BY <1>1, <1>2 DEF QueuePart, Queued
<1>4. ASSUME NEW c \in Clients PROVE Connection(c)
  BY <1>1, <1>2 DEF Connection, TypedPart, OffPart, NoPart, Alive
<1> QED
  BY <1>3, <1>4 DEF StreamsAgree

(* Each step of a client or of the server keeps the agreement.             *)
LEMMA NextAgrees == TypeInv /\ StreamsAgree /\ [Next]_vars => StreamsAgree'
<1> SUFFICES ASSUME TypeInv, StreamsAgree, [Next]_vars PROVE StreamsAgree'
  OBVIOUS
<1>1. CASE Accept
  BY <1>1, AcceptAgrees
<1>2. ASSUME NEW c \in Clients, Client(c) PROVE StreamsAgree'
  <2>1. ASSUME Interrupt(c) PROVE StreamsAgree'
    BY <2>1, LeaveEarly DEF Interrupt
  <2>2. ASSUME NEW f \in Files, NEW k \in Keys, Enter(c, f, k) PROVE StreamsAgree'
    BY <2>2, NextTypes, EnterAgrees
  <2>3. ASSUME NEW reply \in {Yes, No}, Answer(c, reply) PROVE StreamsAgree'
    BY <2>3, AnswerAgrees
  <2> QED
    BY <1>2, <2>1, <2>2, <2>3, ConnectAgrees, UploadAgrees, StoreAgrees, ClientRecvAgrees DEF Client
<1>3. ASSUME NEW c \in Clients, Serve(c) PROVE StreamsAgree'
  BY <1>3, RecvKeyAgrees, RecvFileAgrees, EncryptAgrees, SendBackAgrees, RecvMoreAgrees DEF Serve
<1>4. CASE UNCHANGED vars
  <2>1. /\ UNCHANGED <<phase, serving, skey, sfile, sout, backlog, shut, left>>
        /\ UNCHANGED <<at, key, file, out, got, whole, rounds, up, down, rst, faults, astray>>
    BY <1>4 DEF vars, serverVars, clientVars
  <2>2. QueuePart'
    BY <2>1, QueueKept DEF StreamsAgree
  <2>3. ASSUME NEW d \in Clients PROVE Connection(d)'
    <3>1. Untouched(d)
      BY <2>1 DEF Untouched
    <3>2. Apart(d)
      BY <2>1 DEF Apart, Queued
    <3> QED
      BY <3>1, <3>2, ConnectionKept DEF StreamsAgree
  <2> QED
    BY <2>2, <2>3 DEF StreamsAgree
<1> QED
  BY <1>1, <1>2, <1>3, <1>4 DEF Next

(* Each client, its connection and the server agree on how far its key,    *)
(* file and answer have come and what has come back, however the bytes are *)
(* cut up on their way.                                                    *)
THEOREM StreamsCorrect == Spec => []StreamsAgree
<1>1. Init => TypeInv /\ StreamsAgree
  BY InitTypes, InitAgrees
<1>2. TypeInv /\ StreamsAgree /\ [Next]_vars => (TypeInv /\ StreamsAgree)'
  BY NextTypes, NextAgrees
<1> QED
  BY <1>1, <1>2, PTL DEF Spec

(* A client that believes it has its file, and of which no recv missed a   *)
(* boundary, has the encryption of what its user typed; and when it has    *)
(* less, the server has ended or could not open a file.                    *)
THEOREM AskedIsEncrypted == Spec => []EncryptedAsAsked
<1>1. TypeInv /\ StreamsAgree => EncryptedAsAsked
  <2> SUFFICES ASSUME TypeInv, StreamsAgree, NEW c \in Clients, at[c] = "ask", ~astray[c]
               PROVE  IF whole[c] THEN got[c] = Encryption(key[c], file[c])
                                  ELSE phase = "down" \/ faults > 0
    BY DEF EncryptedAsAsked
  <2>1. CASE c \in shut
    BY <2>1 DEF StreamsAgree, Connection, Cut, Alive
  <2>2. CASE c \notin shut
    BY <2>2, AskFacts
  <2> QED
    BY <2>1, <2>2
<1>2. Spec => []TypeInv
  BY InitTypes, NextTypes, PTL DEF Spec
<1> QED
  BY <1>1, <1>2, StreamsCorrect, PTL

(* A fault is counted once, and who has left early has left early.         *)
LEMMA FaultsOnce ==
  ASSUME TypeInv, [Next]_vars
  PROVE  faults' = faults \/ faults' = faults + 1
BY DEF Next, Client, Serve, Accept, Connect, Interrupt, Enter, Upload, Store, ClientRecv, Answer,
       RecvKey, RecvFile, Encrypt, SendBack, RecvMore, Fault, vars

LEMMA EarlyStays ==
  ASSUME TypeInv, [Next]_vars, NEW c \in Clients, left[c] = "early", StreamsAgree
  PROVE  left'[c] = "early"
<1>1. at[c] = "gone"
  BY DEF StreamsAgree, QueuePart
<1>2. ASSUME NEW d \in Clients, NEW how, Leave(d, how), at[d] # "gone" PROVE left'[c] = "early"
  BY <1>1, <1>2 DEF Leave, TypeInv, TypeOK
<1>3. CASE UNCHANGED left
  BY <1>3
<1>4. CASE \E d \in Clients : Client(d)
  <2>1. PICK d \in Clients : Client(d)
    BY <1>4
  <2>2. UNCHANGED left \/ \E how : Leave(d, how) /\ at[d] # "gone"
    BY <2>1 DEF Client, Connect, Interrupt, Enter, Upload, Store, ClientRecv, Answer, Killed
  <2> QED
    BY <1>2, <1>3, <2>2
<1>5. CASE Accept
  BY <1>3, <1>5 DEF Accept, clientVars
<1>6. CASE \E d \in Clients : Serve(d)
  BY <1>3, <1>6 DEF Serve, RecvKey, RecvFile, Encrypt, SendBack, RecvMore, clientVars
<1>7. CASE UNCHANGED vars
  BY <1>3, <1>7 DEF vars, clientVars
<1> QED
  BY <1>4, <1>5, <1>6, <1>7 DEF Next

(* Only these end the server.                                              *)
LEMMA EndsSending ==
  ASSUME TypeInv, [Next]_vars, phase # "down", phase' = "down"
  PROVE  \E c \in Clients : Encrypt(c) \/ SendBack(c)
<1>1. ~Accept /\ ~UNCHANGED vars
  BY DEF Accept, vars, serverVars
<1>2. ASSUME NEW c \in Clients, Client(c) PROVE FALSE
  BY <1>2 DEF Client, Connect, Interrupt, Enter, Upload, Store, ClientRecv, Answer, serverVars
<1>3. PICK c \in Clients : Serve(c)
  BY <1>1, <1>2 DEF Next
<1>4. ~RecvKey(c) /\ ~RecvFile(c) /\ ~RecvMore(c)
  BY DEF RecvKey, RecvFile, RecvMore, Close
<1> QED
  BY <1>3, <1>4 DEF Serve

(* The server is only ended by its own files or a client that left before  *)
(* its answer: whoever has answered No is sent one thing at the most.      *)
THEOREM NoIsHarmless == Spec => []AnsweringIsHarmless
<1> DEFINE IInv == TypeInv /\ StreamsAgree /\ AnsweringIsHarmless
<1>1. Init => IInv
  <2>1. Init => AnsweringIsHarmless
    BY DEF Init, AnsweringIsHarmless
  <2> QED
    BY <2>1, InitTypes, InitAgrees
<1>2. IInv /\ [Next]_vars => IInv'
  <2> SUFFICES ASSUME TypeInv, StreamsAgree, AnsweringIsHarmless, [Next]_vars, phase' = "down"
               PROVE  faults' > 0 \/ \E c \in Clients : left'[c] = "early"
    BY NextTypes, NextAgrees DEF AnsweringIsHarmless
  <2>1. faults' = faults \/ faults' = faults + 1
    BY FaultsOnce
  <2>2. ASSUME NEW c \in Clients, left[c] = "early" PROVE left'[c] = "early"
    BY <2>2, EarlyStays
  <2>3. CASE phase = "down"
    BY <2>1, <2>2, <2>3, FaultsGrow DEF AnsweringIsHarmless
  <2>4. CASE phase # "down"
    <3>1. PICK c \in Clients : Encrypt(c) \/ SendBack(c)
      BY <2>4, EndsSending
    <3>2. CASE Encrypt(c)
      BY <2>4, <3>2 DEF Encrypt, Close, Fault, TypeInv, TypeOK
    <3>3. CASE SendBack(c)
      <4>1. Breaks(c) /\ left' = left
        BY <2>4, <3>3 DEF SendBack, clientVars
      <4>2. left[c] \in {"answered", "early"} /\ NoPart(c) /\ c \notin shut
        BY <3>3, <4>1, ServedConnection DEF SendBack, Breaks, Connection, Alive
      <4>3. left[c] = "early"
        BY <3>3, <4>1, <4>2 DEF SendBack, Breaks, NoPart
      <4> QED
        BY <4>1, <4>3
    <3> QED
      BY <3>1, <3>2, <3>3
  <2> QED
    BY <2>3, <2>4
<1>3. IInv => AnsweringIsHarmless
  OBVIOUS
<1> QED
  BY <1>1, <1>2, <1>3, PTL DEF Spec
=============================================================================
