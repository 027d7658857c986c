----------------------------- MODULE ChunkSizes -----------------------------
(***************************************************************************)
(* Where chunks begin and end: the arithmetic of chunked uploads and       *)
(* downloads (services/chunk_service.rs) and of the browser that cuts a    *)
(* file for uploading (static/js/upload.js).                               *)
(*                                                                         *)
(* Sizes are u64, counts of chunks u32.  The size of a chunk is read from  *)
(* the configuration by every request, not from the session: the server    *)
(* may have been restarted with another one between two requests.          *)
(***************************************************************************)
EXTENDS Integers, TLAPS

CONSTANTS
    U32,   \* 2^32: a count of chunks is less
    U64    \* 2^64: a size is less

Least(a, b) == IF a <= b THEN a ELSE b
saturating_mul(a, b) == Least(a * b, U64 - 1)
saturating_sub(a, b) == IF a <= b THEN 0 ELSE a - b

div_ceil(a, b) == (a + b - 1) \div b

\* "as u32" drops the upper half.
expected_total_chunks(total, chunk) ==
    IF total = 0 THEN 1 ELSE div_ceil(total, chunk) % U32

expected_chunk_len(total, chunk, count, index) ==
    IF index + 1 < count THEN chunk
    ELSE saturating_sub(total, saturating_mul(chunk, saturating_sub(count, 1)))

\* init_upload: the sizes for which a session is opened.
Opens(total, count, chunk, max) ==
    /\ count # 0
    /\ total > chunk /\ total <= max
    /\ count = expected_total_chunks(total, chunk)

\* receive_chunk: the length of a chunk that is stored.
Accepts(total, count, chunk, index, len) ==
    index < count /\ len = expected_chunk_len(total, chunk, count, index)

\* serve_chunk: the first byte of a page and its length.
PageCount(total, chunk) ==
    expected_total_chunks(IF total > 1 THEN total ELSE 1, chunk)
PageStart(chunk, index) == saturating_mul(index, chunk)
PageLength(total, chunk, index) ==
    LET start == PageStart(chunk, index)
    IN  IF start >= total THEN 0 ELSE Least(start + chunk, total) - start

\* The browser: the first byte of a chunk and its length.
CutStart(chunk, index) == index * chunk
CutLength(total, chunk, index) ==
    Least(CutStart(chunk, index) + chunk, total) - CutStart(chunk, index)

-----------------------------------------------------------------------------
\* Sizes that the types hold, of which there are not too many chunks to count.
Fits(total, chunk) ==
    /\ U32 \in Nat \ {0} /\ U64 \in Nat
    /\ chunk \in Nat \ {0} /\ total \in Nat \ {0}
    /\ total + chunk <= U64
    /\ total <= chunk * (U32 - 1)

\* The chunk in which a byte lies is counted, and no chunk is empty.
LEMMA CeilBounds ==
    ASSUME NEW a \in Nat \ {0}, NEW b \in Nat \ {0}
    PROVE  /\ div_ceil(a, b) \in Nat \ {0}
           /\ b * (div_ceil(a, b) - 1) < a
           /\ a <= b * div_ceil(a, b)
<1> DEFINE m == a + b - 1
           q == m \div b
<1>1. m \in Nat /\ m >= b
  OBVIOUS
<1>2. q \in Int /\ b * q <= m /\ m < b * q + b
  BY <1>1, SMT
<1> HIDE DEF q
<1>3. b * (q - 1) = b * q - b
  BY <1>2, SMT
<1>4. q >= 1
  <2>1. SUFFICES ASSUME q <= 0 PROVE FALSE
    BY <1>2
  <2>2. b * q <= 0
    BY <1>2, <2>1, SMT
  <2> QED BY <1>1, <1>2, <2>2
<1>5. div_ceil(a, b) = q
  BY DEF div_ceil, q
<1> QED BY <1>1, <1>2, <1>3, <1>4, <1>5

\* The cast of the count to u32 changes nothing, and there are as many chunks
\* as it takes to hold the file (expected_total_chunks).
THEOREM CountCovers ==
    ASSUME NEW total, NEW chunk, Fits(total, chunk)
    PROVE  LET n == expected_total_chunks(total, chunk)
           IN  /\ n \in 1..U32 - 1
               /\ chunk * (n - 1) < total
               /\ total <= chunk * n
<1> DEFINE q == div_ceil(total, chunk)
<1>1. /\ total \in Nat \ {0} /\ chunk \in Nat \ {0} /\ U32 \in Nat \ {0}
      /\ total <= chunk * (U32 - 1)
  BY DEF Fits
<1>2. q \in Nat \ {0} /\ chunk * (q - 1) < total /\ total <= chunk * q
  BY <1>1, CeilBounds
<1> HIDE DEF q
<1>3. q - 1 < U32 - 1
  <2>1. SUFFICES ASSUME U32 - 1 <= q - 1 PROVE FALSE
    BY <1>1, <1>2
  <2>2. chunk * (U32 - 1) <= chunk * (q - 1)
    BY <1>1, <1>2, <2>1, SMT
  <2> QED BY <1>1, <1>2, <2>2, SMT
<1>4. q % U32 = q
  BY <1>1, <1>2, <1>3, SMT
<1>5. expected_total_chunks(total, chunk) = q
  BY <1>1, <1>4 DEF expected_total_chunks, q
<1> QED BY <1>1, <1>2, <1>3, <1>5

\* Chunks before the last are whole, and the last begins inside the file.
LEMMA Starts ==
    ASSUME NEW total \in Nat, NEW chunk \in Nat \ {0}, NEW n \in Nat \ {0},
           NEW i \in 0..n - 1, chunk * (n - 1) < total
    PROVE  /\ i * chunk \in Nat
           /\ i * chunk < total
           /\ i + 1 < n => i * chunk + chunk < total
           /\ i + 1 = n => i * chunk = chunk * (n - 1)
<1>1. i * chunk \in Nat /\ i * chunk = chunk * i
  BY SMT
<1>2. chunk * i <= chunk * (n - 1)
  BY SMT
<1>3. ASSUME i + 1 < n PROVE i * chunk + chunk < total
  <2>1. chunk * (i + 1) <= chunk * (n - 1)
    BY <1>3, SMT
  <2>2. chunk * (i + 1) = i * chunk + chunk
    BY SMT
  <2>3. chunk * (n - 1) \in Int
    BY SMT
  <2> QED BY <1>1, <2>1, <2>2, <2>3, SMT
<1>4. chunk * (n - 1) \in Int
  BY SMT
<1> QED BY <1>1, <1>2, <1>3, <1>4

\* Products with a positive number grow, and cancel.
LEMMA TimesGrows ==
    ASSUME NEW a \in Nat, NEW b \in Nat, NEW m \in Nat \ {0}, a < b
    PROVE  a * m < b * m
<1>1. (a + 1) * m <= b * m /\ (a + 1) * m = a * m + m
  BY SMT
<1>2. a * m \in Int /\ b * m \in Int
  BY SMT
<1> QED BY <1>1, <1>2

LEMMA TimesCancels ==
    ASSUME NEW a \in Nat, NEW b \in Nat, NEW m \in Nat \ {0}, a * m = b * m
    PROVE  a = b
<1>1. a * m \in Int /\ b * m \in Int
  BY SMT
<1>2. ~(a < b)
  BY <1>1, TimesGrows
<1>3. ~(b < a)
  BY <1>1, TimesGrows
<1> QED BY <1>2, <1>3

\* The client's cuts tile the file: each begins where the one before ends, the
\* first at 0, the last ends with the file, and none is empty.  The server
\* expects exactly these lengths (expected_chunk_len), and serves a download
\* in pages of the same lengths from the same places (serve_chunk).
THEOREM ChunksTile ==
    ASSUME NEW total, NEW chunk, Fits(total, chunk),
           NEW i \in 0..expected_total_chunks(total, chunk) - 1
    PROVE  LET n == expected_total_chunks(total, chunk)
           IN  /\ CutLength(total, chunk, i) > 0
               /\ CutStart(chunk, 0) = 0
               /\ CutStart(chunk, i) + CutLength(total, chunk, i) =
                      IF i + 1 < n THEN CutStart(chunk, i + 1) ELSE total
               /\ expected_chunk_len(total, chunk, n, i) = CutLength(total, chunk, i)
               /\ PageCount(total, chunk) = n
               /\ PageStart(chunk, i) = CutStart(chunk, i)
               /\ PageLength(total, chunk, i) = CutLength(total, chunk, i)
<1> DEFINE n == expected_total_chunks(total, chunk)
           s == i * chunk
<1>1. /\ total \in Nat \ {0} /\ chunk \in Nat \ {0} /\ U64 \in Nat
      /\ total + chunk <= U64 /\ U32 \in Nat \ {0}
  BY DEF Fits
<1>2. n \in 1..U32 - 1 /\ chunk * (n - 1) < total /\ total <= chunk * n
  BY CountCovers
<1>3. PageCount(total, chunk) = n
  BY <1>1 DEF PageCount
<1> HIDE DEF n
<1>4. i \in 0..n - 1 /\ n \in Nat \ {0}
  BY <1>1, <1>2 DEF n
<1>5. /\ s \in Nat /\ s < total
      /\ i + 1 < n => s + chunk < total
      /\ i + 1 = n => s = chunk * (n - 1)
  BY <1>1, <1>2, <1>4, Starts
<1>6. (i + 1) * chunk = s + chunk /\ 0 * chunk = 0
  BY <1>1, <1>4, SMT
<1>7. i + 1 = n => total <= s + chunk
  <2>1. chunk * n = chunk * (n - 1) + chunk /\ chunk * (n - 1) \in Int
    BY <1>1, <1>4, SMT
  <2> QED BY <1>1, <1>2, <1>5, <2>1
<1> HIDE DEF s
<1>8. CutStart(chunk, i) = s /\ CutStart(chunk, 0) = 0 /\ CutStart(chunk, i + 1) = s + chunk
  BY <1>6 DEF CutStart, s
<1>9. CutLength(total, chunk, i) = IF i + 1 < n THEN chunk ELSE total - s
  BY <1>1, <1>4, <1>5, <1>7, <1>8 DEF CutLength, Least
<1>10. PageStart(chunk, i) = s
  BY <1>1, <1>5 DEF PageStart, saturating_mul, Least, s
<1>11. PageLength(total, chunk, i) = IF i + 1 < n THEN chunk ELSE total - s
  BY <1>1, <1>4, <1>5, <1>7, <1>10 DEF PageLength, Least
<1>12. expected_chunk_len(total, chunk, n, i) = IF i + 1 < n THEN chunk ELSE total - s
  <2>1. CASE i + 1 < n
    BY <2>1 DEF expected_chunk_len
  <2>2. CASE ~(i + 1 < n)
    <3>1. i + 1 = n
      BY <1>4, <2>2
    <3>2. saturating_sub(n, 1) = n - 1
      BY <1>4 DEF saturating_sub
    <3>3. saturating_mul(chunk, n - 1) = s
      BY <1>1, <1>5, <3>1 DEF saturating_mul, Least
    <3> QED BY <1>1, <1>5, <2>2, <3>2, <3>3 DEF expected_chunk_len, saturating_sub
  <2> QED BY <2>1, <2>2
<1>13. CutLength(total, chunk, i) > 0
  BY <1>1, <1>5, <1>9
<1>14. s + CutLength(total, chunk, i) = IF i + 1 < n THEN s + chunk ELSE total
  BY <1>1, <1>5, <1>9
<1> QED BY <1>3, <1>8, <1>9, <1>10, <1>11, <1>12, <1>13, <1>14 DEF n

\* A session outlives a restart, the chunk size does not: it is read from the
\* environment at every boot and not stored in the row.  A chunk that was cut
\* by the size c of the session's beginning is refused by a server that has
\* another size d, so the chunks of one session are never of two cuts.
THEOREM OneCut ==
    ASSUME NEW total, NEW c, NEW d \in Nat \ {0}, NEW n, NEW max \in Nat,
           NEW i \in Nat, Fits(total, c), Opens(total, n, c, max),
           Accepts(total, n, d, i, CutLength(total, c, i))
    PROVE  c = d
<1> DEFINE s == i * c
<1>1. /\ total \in Nat \ {0} /\ c \in Nat \ {0} /\ U64 \in Nat /\ total + c <= U64
      /\ U32 \in Nat \ {0}
  BY DEF Fits
<1>2. n = expected_total_chunks(total, c) /\ total > c /\ i < n
  BY DEF Opens, Accepts
<1>3. n \in 1..U32 - 1 /\ c * (n - 1) < total /\ total <= c * n
  BY <1>2, CountCovers
<1>4. n \in Nat \ {0} /\ i \in 0..n - 1
  BY <1>1, <1>2, <1>3
<1>5. /\ s \in Nat /\ s < total
      /\ i + 1 < n => s + c < total
      /\ i + 1 = n => s = c * (n - 1)
  BY <1>1, <1>3, <1>4, Starts
<1>6. CutLength(total, c, i) = expected_chunk_len(total, d, n, i)
  BY DEF Accepts
<1>7. CASE i + 1 < n
  <2>1. CutLength(total, c, i) = c
    BY <1>1, <1>5, <1>7 DEF CutLength, CutStart, Least
  <2>2. expected_chunk_len(total, d, n, i) = d
    BY <1>7 DEF expected_chunk_len
  <2> QED BY <1>6, <2>1, <2>2
<1>8. CASE i + 1 = n
  <2> DEFINE p == d * (n - 1)
  <2>1. n # 1
    <3>1. n = 1 => c * n = c
      BY <1>1, SMT
    <3> QED BY <1>1, <1>2, <1>3, <3>1
  <2>2. p \in Nat /\ saturating_sub(n, 1) = n - 1 /\ n - 1 \in Nat \ {0}
    BY <1>4, <2>1 DEF saturating_sub
  <2>3. total <= s + c
    <3>1. c * n = c * (n - 1) + c /\ c * (n - 1) \in Int
      BY <1>1, <1>4, SMT
    <3> QED BY <1>1, <1>3, <1>5, <1>8, <3>1
  <2>4. CutLength(total, c, i) = total - s
    BY <1>1, <1>5, <2>3 DEF CutLength, CutStart, Least
  <2>5. expected_chunk_len(total, d, n, i) = saturating_sub(total, Least(p, U64 - 1))
    BY <1>4, <1>8, <2>2 DEF expected_chunk_len, saturating_mul
  <2> HIDE DEF p, s
  <2>6. p = s
    <3>1. total \in Nat /\ s \in Nat /\ s < total /\ total <= U64 - 1 /\ p \in Nat
      BY <1>1, <1>5, <2>2
    <3>2. total - s = saturating_sub(total, Least(p, U64 - 1))
      BY <1>6, <2>4, <2>5
    <3>3. CASE p <= U64 - 1
      BY <1>1, <3>1, <3>2, <3>3 DEF saturating_sub, Least
    <3>4. CASE ~(p <= U64 - 1)
      BY <1>1, <3>1, <3>2, <3>4 DEF saturating_sub, Least
    <3> QED BY <3>3, <3>4
  <2>7. d * (n - 1) = c * (n - 1)
    BY <1>5, <1>8, <2>6 DEF p
  <2> QED BY <1>1, <2>2, <2>7, TimesCancels
<1> QED BY <1>4, <1>7, <1>8

=============================================================================
