-------------------------- MODULE SourcePullProofs --------------------------
(***************************************************************************)
(* Theorems about SourcePull, for any source, cut into any parts and       *)
(* pages: what stood still while a pull read its portal is in silver after *)
(* it and is never withdrawn, and replaying the newest pull changes        *)
(* nothing.                                                                *)
(***************************************************************************)
EXTENDS SourcePull, DataLemmas

Revision == [n : Nat, valid : BOOLEAN]
Row == [id : Ids, part : Range(Parts), rev : Revision]
Chunk == [part : Range(Parts), rows : Seq(Row)]

PullState ==
  [at : {"idle", "fetching", "promoted", "reconciled"}, mode : Modes \cup {"off"},
   next : Nat \ {0}, offset : Nat, chunks : Seq(Chunk), absent : SUBSET Ids,
   stood : SUBSET Ids, shrunk : SUBSET Range(Parts), dark : SUBSET Range(Parts)]
OnRecord == [status : {"succeeded", "no_new_data", "blocked"}, chunks : Seq(Chunk)]

Shaped ==
  /\ paged \in BOOLEAN /\ rev \in [Ids -> Revision]
  /\ portal \in [Range(Parts) -> Seq(Ids)] /\ \A p \in Range(Parts) : IsInjective(portal[p])
  /\ pull \in PullState
  /\ bronze \in Seq(OnRecord)
  /\ DOMAIN silver \subseteq Ids /\ silver = [id \in DOMAIN silver |-> silver[id]]
  /\ ~paged => pull.offset = 0

\* What stood still is published, and what was read of it is as published.
StoodIsPublished == \A id \in pull.stood : PartsOf(id) # {}
ReadAsStands ==
  \A r \in Records(pull.chunks) : r.id \in pull.stood => r.rev = rev[r.id] /\ r.part \in PartsOf(r.id)

\* The pull has come by place j of part p...
Passed(p, j) ==
  \E k \in DOMAIN Parts :
    Parts[k] = p /\ (k < pull.next \/ (k = pull.next /\ j =< pull.offset))
\* ...and then holds what stands there, unless a page was lost.
Steady(p) == paged => p \notin pull.shrunk \cup pull.dark
PassedIsRead ==
  pull.at = "fetching" =>
    \A p \in Range(Parts) : \A j \in DOMAIN portal[p] :
      Passed(p, j) /\ Steady(p) /\ portal[p][j] \in pull.stood
        => portal[p][j] \in Seen(pull.chunks)

\* What a pull decided to withdraw could have been missed.
AbsentIsGone == \A id \in pull.absent : ~SureToRead(id)

Standing == StoodIsPublished /\ ReadAsStands /\ PassedIsRead /\ AbsentIsGone /\ StandingRowsKept

\* Silver is as a replay of these chunks would leave it.
Replayable(chunks) == paged => ReadOnce(chunks)
Agrees(chunks) ==
  \A r \in Accepted(chunks, AsFetched(chunks)) :
    r.id \in DOMAIN silver /\ silver[r.id] = [part |-> r.part, rev |-> r.rev]

ReplaySound ==
  /\ pull.at \in {"promoted", "reconciled"} =>
       Agrees(pull.chunks) /\ pull.absent \cap Seen(pull.chunks) = {}
  /\ pull.at \in {"idle", "fetching"} /\ ~orphaned =>
       \A i \in Succeeded : (\A j \in Succeeded : j =< i) /\ Replayable(bronze[i].chunks)
         => Agrees(bronze[i].chunks)

IInv == Shaped /\ Standing /\ ReplaySound
-----------------------------------------------------------------------------
(* What a pull's chunks hold.                                              *)

\* A file of chunks is indexed from one, and so is each chunk.
LEMMA ChunksAre ==
  ASSUME NEW chunks \in Seq(Chunk)
  PROVE  /\ DOMAIN chunks = 1..Len(chunks) /\ Len(chunks) \in Nat
         /\ \A i \in DOMAIN chunks :
              chunks[i].rows \in Seq(Row) /\ DOMAIN chunks[i].rows = 1..Len(chunks[i].rows)
<1>1. DOMAIN chunks = 1..Len(chunks) /\ Len(chunks) \in Nat
  BY LenProperties
<1>2. ASSUME NEW i \in DOMAIN chunks
      PROVE  chunks[i].rows \in Seq(Row) /\ DOMAIN chunks[i].rows = 1..Len(chunks[i].rows)
  <2>1. chunks[i] \in Chunk
    BY <1>1, ElementOfSeq
  <2>2. chunks[i].rows \in Seq(Row)
    BY <2>1 DEF Chunk
  <2> QED BY <2>2, LenProperties
<1> QED BY <1>1, <1>2

\* A place is two positions, and what is there is a row.
LEMMA PlacesAre ==
  ASSUME NEW chunks \in Seq(Chunk)
  PROVE  /\ \A p : p \in Places(chunks) <=>
              \E i \in DOMAIN chunks : \E j \in DOMAIN chunks[i].rows : p = <<i, j>>
         /\ \A p \in Places(chunks) : /\ p = <<p[1], p[2]>> /\ p[1] \in Nat /\ p[2] \in Nat
                                      /\ p[1] \in DOMAIN chunks /\ At(chunks, p) \in Row
         /\ Records(chunks) \subseteq Row
<1>1. \A p : p \in Places(chunks) <=>
        \E i \in DOMAIN chunks : \E j \in DOMAIN chunks[i].rows : p = <<i, j>>
  BY DEF Places
<1>2. ASSUME NEW p \in Places(chunks)
      PROVE  /\ p = <<p[1], p[2]>> /\ p[1] \in Nat /\ p[2] \in Nat
             /\ p[1] \in DOMAIN chunks /\ At(chunks, p) \in Row
  <2>1. PICK i \in DOMAIN chunks : \E j \in DOMAIN chunks[i].rows : p = <<i, j>>
    BY <1>1
  <2>2. PICK j \in DOMAIN chunks[i].rows : p = <<i, j>>
    BY <2>1
  <2>3. i \in Nat /\ j \in Nat /\ chunks[i].rows \in Seq(Row) /\ j \in 1..Len(chunks[i].rows)
    BY ChunksAre
  <2>4. chunks[i].rows[j] \in Row
    BY <2>3, ElementOfSeq
  <2> QED BY <2>2, <2>3, <2>4 DEF At
<1> QED BY <1>1, <1>2 DEF Records

\* The records of chunks are the rows of each.
LEMMA RecordsAre ==
  ASSUME NEW chunks \in Seq(Chunk), NEW x
  PROVE  x \in Records(chunks) <=> \E i \in 1..Len(chunks) : x \in Range(chunks[i].rows)
<1>1. ASSUME NEW i \in 1..Len(chunks), x \in Range(chunks[i].rows) PROVE x \in Records(chunks)
  <2>1. PICK j \in DOMAIN chunks[i].rows : x = chunks[i].rows[j]
    BY <1>1 DEF Range
  <2>2. <<i, j>> \in Places(chunks) /\ At(chunks, <<i, j>>) = x
    BY <2>1, PlacesAre, ChunksAre DEF At
  <2> QED BY <2>2 DEF Records
<1>2. ASSUME x \in Records(chunks) PROVE \E i \in 1..Len(chunks) : x \in Range(chunks[i].rows)
  <2>1. PICK p \in Places(chunks) : x = At(chunks, p)
    BY <1>2 DEF Records
  <2>2. PICK i \in DOMAIN chunks : \E j \in DOMAIN chunks[i].rows : p = <<i, j>>
    BY PlacesAre
  <2>3. x \in Range(chunks[i].rows)
    BY <2>1, <2>2 DEF At, Range
  <2> QED BY <2>3, ChunksAre
<1> QED BY <1>1, <1>2

\* One more chunk is its rows more.
LEMMA RecordsGrow ==
  ASSUME NEW chunks \in Seq(Chunk), NEW c \in Chunk
  PROVE  Records(Append(chunks, c)) = Records(chunks) \cup Range(c.rows)
<1> DEFINE more == Append(chunks, c)
           last == Len(chunks) + 1
<1>1. /\ more \in Seq(Chunk) /\ Len(more) = last /\ Len(chunks) \in Nat /\ more[last] = c
      /\ \A i \in 1..Len(chunks) : more[i] = chunks[i]
  BY AppendProperties
<1> HIDE DEF more
<1>2. 1..last = (1..Len(chunks)) \cup {last}
  BY <1>1
<1> HIDE DEF last
<1>3. ASSUME NEW x PROVE x \in Records(more) <=> x \in Records(chunks) \/ x \in Range(c.rows)
  <2>1. x \in Records(more) <=> \E i \in 1..last : x \in Range(more[i].rows)
    BY <1>1, RecordsAre
  <2>2. x \in Records(chunks) <=> \E i \in 1..Len(chunks) : x \in Range(more[i].rows)
    BY <1>1, RecordsAre
  <2> QED BY <1>1, <1>2, <2>1, <2>2
<1> QED BY <1>3 DEF more

\* A place's chunk was fetched before another's if it is numbered lower.
LEMMA FetchOrder ==
  ASSUME NEW chunks \in Seq(Chunk), NEW p \in Places(chunks), NEW q \in Places(chunks)
  PROVE  <<p[1], q[1]>> \in AsFetched(chunks) <=> p[1] < q[1]
<1>1. p[1] \in DOMAIN chunks /\ q[1] \in DOMAIN chunks
  BY PlacesAre
<1> QED BY <1>1 DEF AsFetched, Pairs

\* Whatever the order, only valid records are accepted.
LEMMA AcceptedAre ==
  ASSUME NEW chunks \in Seq(Chunk)
  PROVE  \A r \in Accepted(chunks, AsFetched(chunks)) : r \in Records(chunks) /\ r.rev.valid
BY DEF Accepted, Records

\* An id with a valid record has an accepted one.
LEMMA SomeAccepted ==
  ASSUME NEW chunks \in Seq(Chunk), NEW r \in Records(chunks), r.rev.valid
  PROVE  \E s \in Accepted(chunks, AsFetched(chunks)) : s.id = r.id
<1> DEFINE P == {p \in Places(chunks) : At(chunks, p).rev.valid /\ At(chunks, p).id = r.id}
           I == {p[1] : p \in P}
<1>1. P # {} /\ I \in SUBSET Nat /\ I # {}
  BY PlacesAre DEF Records
<1>2. PICK i \in I : \A k \in I : i =< k
  BY <1>1, LeastNatural
<1> DEFINE J == {p[2] : p \in {q \in P : q[1] = i}}
<1>3. J \in SUBSET Nat /\ J # {}
  BY <1>2, PlacesAre
<1>4. PICK j \in J : \A k \in J : j =< k
  BY <1>3, LeastNatural
<1>5. PICK p \in P : p[1] = i /\ p[2] = j
  BY <1>4
<1>6. ASSUME NEW q \in P PROVE ~(q[1] < p[1] \/ (p[1] = q[1] /\ q[2] < p[2]))
  <2>1. q[1] \in I /\ i =< q[1] /\ q[1] \in Nat /\ q[2] \in Nat /\ i \in Nat /\ j \in Nat
    BY <1>2, <1>5, PlacesAre
  <2>2. q[1] = i => q[2] \in J /\ j =< q[2]
    BY <1>4
  <2> QED BY <1>5, <2>1, <2>2
<1>7. p \in Places(chunks) /\ At(chunks, p).rev.valid /\ At(chunks, p).id = r.id
  OBVIOUS
<1>8. \A q \in Places(chunks) :
        At(chunks, q).rev.valid /\ At(chunks, q).id = At(chunks, p).id => q \in P
  BY <1>7
<1> HIDE DEF P
<1>9. At(chunks, p) \in Accepted(chunks, AsFetched(chunks))
  BY <1>6, <1>7, <1>8, FetchOrder DEF Accepted
<1> QED BY <1>7, <1>9

\* And no more than one.
LEMMA OneAccepted ==
  ASSUME NEW chunks \in Seq(Chunk), NEW r \in Accepted(chunks, AsFetched(chunks)),
         NEW s \in Accepted(chunks, AsFetched(chunks)), r.id = s.id
  PROVE  r = s
<1>1. PICK p \in Places(chunks) :
        /\ r = At(chunks, p) /\ r.rev.valid
        /\ \A k \in Places(chunks) : At(chunks, k).rev.valid /\ At(chunks, k).id = r.id
             => ~(k[1] < p[1] \/ (k[1] = p[1] /\ k[2] < p[2]))
  BY FetchOrder DEF Accepted
<1>2. PICK q \in Places(chunks) :
        /\ s = At(chunks, q) /\ s.rev.valid
        /\ \A k \in Places(chunks) : At(chunks, k).rev.valid /\ At(chunks, k).id = s.id
             => ~(k[1] < q[1] \/ (k[1] = q[1] /\ k[2] < q[2]))
  BY FetchOrder DEF Accepted
<1>3. /\ ~(q[1] < p[1] \/ (q[1] = p[1] /\ q[2] < p[2]))
      /\ ~(p[1] < q[1] \/ (p[1] = q[1] /\ p[2] < q[2]))
  BY <1>1, <1>2
<1>4. {p[1], p[2], q[1], q[2]} \subseteq Nat /\ p = <<p[1], p[2]>> /\ q = <<q[1], q[2]>>
  BY PlacesAre
<1>5. p[1] = q[1] /\ p[2] = q[2]
  BY <1>3, <1>4
<1> QED BY <1>1, <1>2, <1>4, <1>5

\* A replay accepts what the pull did, if the source is read by months or the
\* pull read every id once.
LEMMA ReplayAccepts ==
  ASSUME NEW chunks \in Seq(Chunk), Replayable(chunks)
  PROVE  Accepted(chunks, AsNamed(chunks)) = Accepted(chunks, AsFetched(chunks))
<1>1. ASSUME NEW p \in Places(chunks), NEW q \in Places(chunks),
             At(chunks, q).id = At(chunks, p).id
      PROVE  <<q[1], p[1]>> \in AsNamed(chunks) <=> <<q[1], p[1]>> \in AsFetched(chunks)
  <2>1. /\ <<q[1], p[1]>> \in Pairs(chunks) /\ p[1] \in Nat /\ q[1] \in Nat
    BY PlacesAre DEF Pairs
  <2>2. paged => p = q
    BY <1>1 DEF Replayable, ReadOnce
  <2> QED BY <2>1, <2>2 DEF AsNamed, AsFetched
<1> QED BY <1>1 DEF Accepted

\* Staged, an id's row is one of those accepted for it.
LEMMA StagedIs ==
  ASSUME NEW rows
  PROVE  /\ \A id : id \in DOMAIN Staged(rows) <=> \E r \in rows : r.id = id
         /\ \A id \in DOMAIN Staged(rows) : \E r \in rows :
              r.id = id /\ Staged(rows)[id] = [part |-> r.part, rev |-> r.rev]
<1>1. \A id : id \in DOMAIN Staged(rows) <=> \E r \in rows : r.id = id
  BY DEF Staged
<1>2. ASSUME NEW id \in DOMAIN Staged(rows)
      PROVE  \E r \in rows :
               r.id = id /\ Staged(rows)[id] = [part |-> r.part, rev |-> r.rev]
  <2> DEFINE one == CHOOSE r \in rows : r.id = id
  <2>1. one \in rows /\ one.id = id
    BY <1>1
  <2>2. Staged(rows)[id] = [part |-> one.part, rev |-> one.rev]
    BY DEF Staged
  <2> HIDE DEF one
  <2> QED BY <2>1, <2>2
<1> QED BY <1>1, <1>2

\* An upsert sets each accepted row's id to it, and leaves the others.
LEMMA UpsertedIs ==
  ASSUME NEW rows
  PROVE  /\ \A id : id \in DOMAIN Upserted(rows) <=>
                      id \in DOMAIN silver \/ \E r \in rows : r.id = id
         /\ Upserted(rows) = [id \in DOMAIN Upserted(rows) |-> Upserted(rows)[id]]
         /\ \A id \in DOMAIN silver :
              (~\E r \in rows : r.id = id) => Upserted(rows)[id] = silver[id]
         /\ \A r \in rows : \E s \in rows :
              s.id = r.id /\ Upserted(rows)[r.id] = [part |-> s.part, rev |-> s.rev]
<1> DEFINE staged == Staged(rows)
<1>1. Upserted(rows) = [id \in DOMAIN staged \cup DOMAIN silver |->
                          IF id \in DOMAIN staged THEN staged[id] ELSE silver[id]]
  BY DEF Upserted
<1>2. /\ \A id : id \in DOMAIN staged <=> \E r \in rows : r.id = id
      /\ \A id \in DOMAIN staged : \E r \in rows :
           r.id = id /\ staged[id] = [part |-> r.part, rev |-> r.rev]
  BY StagedIs
<1> HIDE DEF staged
<1>3. \A id \in DOMAIN staged : Upserted(rows)[id] = staged[id]
  BY <1>1
<1>4. DOMAIN Upserted(rows) = DOMAIN silver \cup DOMAIN staged
      /\ Upserted(rows) = [id \in DOMAIN Upserted(rows) |-> Upserted(rows)[id]]
      /\ \A id \in DOMAIN silver \ DOMAIN staged : Upserted(rows)[id] = silver[id]
  BY <1>1
<1> QED BY <1>2, <1>3, <1>4

\* So after it silver agrees with the chunks that were accepted.
LEMMA UpsertAgrees ==
  ASSUME NEW chunks \in Seq(Chunk), NEW r \in Accepted(chunks, AsFetched(chunks))
  PROVE  LET upserted == Upserted(Accepted(chunks, AsFetched(chunks)))
         IN r.id \in DOMAIN upserted /\ upserted[r.id] = [part |-> r.part, rev |-> r.rev]
<1> DEFINE rows == Accepted(chunks, AsFetched(chunks))
<1>1. r \in rows
  OBVIOUS
<1> HIDE DEF rows
<1>2. PICK s \in rows :
        s.id = r.id /\ Upserted(rows)[r.id] = [part |-> s.part, rev |-> s.rev]
  BY <1>1, UpsertedIs
<1>3. r.id \in DOMAIN Upserted(rows)
  BY <1>1, UpsertedIs
<1>4. s = r
  BY <1>1, <1>2, OneAccepted DEF rows
<1> QED BY <1>2, <1>3, <1>4 DEF rows

\* A record taken out of a part, or not there.
LEMMA WithoutIs ==
  ASSUME NEW seq \in Seq(Ids), IsInjective(seq), NEW id
  PROVE  /\ Without(seq, id) \in Seq(Ids) /\ IsInjective(Without(seq, id))
         /\ Range(Without(seq, id)) = Range(seq) \ {id}
         /\ id \notin Range(seq) => Without(seq, id) = seq
<1>1. DOMAIN seq = 1..Len(seq) /\ Len(seq) \in Nat
  BY LenProperties
<1>2. CASE id \notin Range(seq)
  <2>1. ~\E i \in 1..Len(seq) : seq[i] = id
    BY <1>1, <1>2 DEF Range
  <2> QED BY <1>2, <2>1 DEF Without, RemoveFirst
<1>3. CASE id \in Range(seq)
  <2> DEFINE d == Without(seq, id)
  <2>1. \E i \in 1..Len(seq) : seq[i] = id
    BY <1>1, <1>3 DEF Range
  <2>2. PICK k \in 1..Len(seq) : seq[k] = id /\ d = RemoveAt(seq, k)
    BY <2>1, RemovedFirst DEF Without
  <2> HIDE DEF d
  <2>3. /\ d \in Seq(Ids) /\ Len(d) = Len(seq) - 1
        /\ \A i \in 1..Len(d) : d[i] = IF i < k THEN seq[i] ELSE seq[i + 1]
    BY <2>2, RemovedAt
  <2>4. DOMAIN d = 1..Len(d)
    BY <2>3, LenProperties
  <2>5. IsInjective(d)
    <3> SUFFICES ASSUME NEW i \in 1..Len(d), NEW j \in 1..Len(d), d[i] = d[j] PROVE i = j
      BY <2>4 DEF IsInjective
    <3>1. (IF i < k THEN i ELSE i + 1) = (IF j < k THEN j ELSE j + 1)
      <4>1. /\ (IF i < k THEN i ELSE i + 1) \in 1..Len(seq)
            /\ (IF j < k THEN j ELSE j + 1) \in 1..Len(seq)
        BY <1>1, <2>3
      <4>2. seq[IF i < k THEN i ELSE i + 1] = seq[IF j < k THEN j ELSE j + 1]
        BY <2>3
      <4> QED BY <1>1, <4>1, <4>2 DEF IsInjective
    <3> QED BY <1>1, <2>3, <3>1
  <2>6. Range(d) = Range(seq) \ {id}
    <3>1. ASSUME NEW x \in Range(d) PROVE x \in Range(seq) /\ x # id
      <4>1. PICK i \in 1..Len(d) : d[i] = x
        BY <2>4 DEF Range
      <4> DEFINE m == IF i < k THEN i ELSE i + 1
      <4>2. m \in 1..Len(seq) /\ m # k /\ seq[m] = x
        BY <2>3, <4>1
      <4> HIDE DEF m
      <4> QED BY <1>1, <2>2, <4>2 DEF IsInjective, Range
    <3>2. ASSUME NEW x \in Range(seq), x # id PROVE x \in Range(d)
      <4>1. PICK m \in 1..Len(seq) : seq[m] = x
        BY <1>1 DEF Range
      <4> DEFINE i == IF m < k THEN m ELSE m - 1
      <4>2. m # k
        BY <2>2, <3>2, <4>1
      <4>3. i \in 1..Len(d) /\ d[i] = x
        BY <2>3, <4>1, <4>2
      <4> HIDE DEF i
      <4> QED BY <2>4, <4>3 DEF Range
    <3> QED BY <3>1, <3>2
  <2> QED BY <1>3, <2>3, <2>5, <2>6 DEF d
<1> QED BY <1>2, <1>3
-----------------------------------------------------------------------------
(* The agency.                                                             *)

\* A change to one record costs it its standing, and a part read by pages that
\* loses it its steadiness; all else stays where and as it is.
LEMMA Touching ==
  ASSUME IInv, NEW id \in Ids, NEW S \in SUBSET Range(Parts),
         pull' = [pull EXCEPT !.stood = @ \ {id}, !.shrunk = @ \cup S],
         rev' \in [Ids -> Revision], \A x \in Ids : x # id => rev'[x] = rev[x],
         portal' \in [Range(Parts) -> Seq(Ids)],
         \A p \in Range(Parts) : IsInjective(portal'[p]),
         \A p \in Range(Parts), x \in Ids :
           x # id => (x \in Range(portal'[p]) <=> x \in Range(portal[p])),
         \A p \in Range(Parts) \ S : \A j \in DOMAIN portal'[p] :
           portal'[p][j] # id => j \in DOMAIN portal[p] /\ portal[p][j] = portal'[p][j],
         UNCHANGED <<paged, silver, bronze, orphaned>>
  PROVE  IInv'
<1>1. /\ pull'.stood = pull.stood \ {id} /\ pull'.shrunk = pull.shrunk \cup S
      /\ pull'.at = pull.at /\ pull'.next = pull.next /\ pull'.offset = pull.offset
      /\ pull'.chunks = pull.chunks /\ pull'.absent = pull.absent /\ pull'.dark = pull.dark
  BY DEF IInv, Shaped
<1>2. Shaped'
  BY DEF IInv, Shaped, PullState
<1>3. ASSUME NEW x \in Ids, x # id PROVE PartsOf(x)' = PartsOf(x)
  BY <1>3 DEF IInv, Shaped, PartsOf
<1>4. pull.stood \subseteq Ids /\ pull.absent \subseteq Ids
      /\ \A r \in Records(pull.chunks) : r.id \in Ids
  BY PlacesAre DEF IInv, Shaped, Row, PullState
<1>5. ASSUME NEW x \in Ids, SureToRead(x)' PROVE x # id /\ SureToRead(x)
  BY <1>1, <1>3, <1>5 DEF SureToRead
<1>6. StoodIsPublished'
  BY <1>1, <1>3, <1>4 DEF IInv, Standing, StoodIsPublished
<1>7. ReadAsStands'
  BY <1>1, <1>3, <1>4 DEF IInv, Standing, ReadAsStands
<1>8. PassedIsRead'
  <2> SUFFICES ASSUME pull'.at = "fetching", NEW p \in Range(Parts), NEW j \in DOMAIN portal'[p],
                      Passed(p, j)', Steady(p)', portal'[p][j] \in pull'.stood
               PROVE  portal'[p][j] \in Seen(pull.chunks)
    BY <1>1 DEF PassedIsRead
  <2> DEFINE x == portal'[p][j]
  <2>1. x \in Ids /\ x # id /\ x \in pull.stood /\ x \in Range(portal'[p])
    BY <1>1, <1>4 DEF Range
  <2>2. Passed(p, j) /\ Steady(p)
    BY <1>1 DEF Passed, Steady
  <2>3. CASE p \notin S
    BY <1>1, <2>1, <2>2, <2>3 DEF IInv, Standing, PassedIsRead
  <2>4. CASE p \in S
    <3>1. ~paged /\ pull.offset = 0
      BY <1>1, <2>4 DEF Steady, IInv, Shaped
    <3>2. x \in Range(portal[p])
      BY <2>1
    <3>3. PICK i \in DOMAIN portal[p] : portal[p][i] = x
      BY <3>2 DEF Range
    <3>4. j \in Nat \ {0}
      BY LenProperties
    <3>5. Passed(p, i)
      BY <2>2, <3>1, <3>4 DEF Passed
    <3> QED BY <1>1, <2>1, <2>2, <3>3, <3>5 DEF IInv, Standing, PassedIsRead
  <2> QED BY <2>3, <2>4
<1>9. AbsentIsGone'
  BY <1>1, <1>4, <1>5 DEF IInv, Standing, AbsentIsGone
<1>10. StandingRowsKept'
  BY <1>1, <1>3, <1>5 DEF IInv, Standing, StandingRowsKept
<1>11. ReplaySound'
  BY <1>1 DEF IInv, ReplaySound, Agrees, Replayable, Succeeded
<1> QED BY <1>2, <1>6, <1>7, <1>8, <1>9, <1>10, <1>11 DEF IInv, Standing

\* A part with a record more at its end.
LEMMA Lengthened ==
  ASSUME NEW seq \in Seq(Ids), IsInjective(seq), NEW id \in Ids, id \notin Range(seq)
  PROVE  /\ Append(seq, id) \in Seq(Ids) /\ IsInjective(Append(seq, id))
         /\ Range(Append(seq, id)) = Range(seq) \cup {id}
         /\ \A j \in DOMAIN Append(seq, id) :
              Append(seq, id)[j] # id => j \in DOMAIN seq /\ seq[j] = Append(seq, id)[j]
<1> DEFINE t == Append(seq, id)
           n == Len(seq)
<1>1. /\ t \in Seq(Ids) /\ Len(t) = n + 1 /\ t[n + 1] = id /\ n \in Nat
      /\ \A i \in 1..n : t[i] = seq[i]
  BY AppendProperties, LenProperties
<1>2. DOMAIN t = 1..n + 1 /\ DOMAIN seq = 1..n
  BY <1>1, LenProperties
<1>3. \A i \in 1..n : seq[i] # id
  BY <1>2 DEF Range
<1> HIDE DEF t, n
<1>4. IsInjective(t)
  BY <1>1, <1>2, <1>3 DEF IsInjective
<1>5. Range(t) = Range(seq) \cup {id}
  <2>1. 1..n + 1 = (1..n) \cup {n + 1}
    BY <1>1
  <2> QED BY <1>1, <1>2, <2>1 DEF Range
<1>6. \A j \in DOMAIN t : t[j] # id => j \in DOMAIN seq /\ seq[j] = t[j]
  BY <1>1, <1>2
<1> QED BY <1>1, <1>4, <1>5, <1>6 DEF t

\* The agency's edits keep the invariant.
LEMMA AgencyStep == ASSUME IInv, Agency PROVE IInv'
<1>1. ASSUME NEW id \in Ids, NEW p \in DOMAIN portal, Move(id, p) PROVE IInv'
  <2> DEFINE S == PartsOf(id)
  <2>1. S \in SUBSET Range(Parts) /\ p \notin S /\ p \in Range(Parts) /\ id \notin Range(portal[p])
    BY <1>1 DEF Move, PartsOf, IInv, Shaped
  <2>2. portal' = [q \in Range(Parts) |->
                     IF q = p THEN Append(portal[p], id) ELSE Without(portal[q], id)]
    BY <1>1 DEF Move, IInv, Shaped
  <2>3. /\ pull' = [pull EXCEPT !.stood = @ \ {id}, !.shrunk = @ \cup S]
        /\ rev' \in [Ids -> Revision] /\ \A x \in Ids : x # id => rev'[x] = rev[x]
        /\ UNCHANGED <<paged, silver, bronze, orphaned>>
    <3>1. rev \in [Ids -> Revision] /\ rev[id] \in Revision
      BY DEF IInv, Shaped
    <3>2. [rev[id] EXCEPT !.n = @ + 1] \in Revision
      BY <3>1 DEF Revision
    <3>3. rev' = [rev EXCEPT ![id] = [rev[id] EXCEPT !.n = @ + 1]]
      BY <1>1, <3>1 DEF Move
    <3> HIDE DEF S
    <3>4. rev' \in [Ids -> Revision] /\ \A x \in Ids : x # id => rev'[x] = rev[x]
      BY <3>1, <3>2, <3>3
    <3> QED BY <1>1, <3>4 DEF Move, S
  <2>4. ASSUME NEW q \in Range(Parts)
        PROVE  /\ portal'[q] \in Seq(Ids) /\ IsInjective(portal'[q])
               /\ \A x \in Ids : x # id => (x \in Range(portal'[q]) <=> x \in Range(portal[q]))
               /\ q \notin S => \A j \in DOMAIN portal'[q] :
                    portal'[q][j] # id => j \in DOMAIN portal[q] /\ portal[q][j] = portal'[q][j]
    <3>1. portal[q] \in Seq(Ids) /\ IsInjective(portal[q]) /\ (q \notin S => id \notin Range(portal[q]))
      BY DEF IInv, Shaped, PartsOf
    <3>2. CASE q = p
      BY <2>1, <2>2, <3>1, <3>2, Lengthened
    <3>3. CASE q # p
      <4>1. portal'[q] = Without(portal[q], id)
        BY <2>2, <3>3
      <4> QED BY <3>1, <4>1, WithoutIs
    <3> QED BY <3>2, <3>3
  <2>5. portal' \in [Range(Parts) -> Seq(Ids)]
    BY <2>2, <2>4
  <2>6. /\ \A q \in Range(Parts) : IsInjective(portal'[q])
        /\ \A q \in Range(Parts), x \in Ids :
             x # id => (x \in Range(portal'[q]) <=> x \in Range(portal[q]))
        /\ \A q \in Range(Parts) \ S : \A j \in DOMAIN portal'[q] :
             portal'[q][j] # id => j \in DOMAIN portal[q] /\ portal[q][j] = portal'[q][j]
    BY <2>4
  <2> HIDE DEF S
  <2> QED BY <2>1, <2>3, <2>5, <2>6, Touching
<1>2. ASSUME NEW id \in Ids, Withdraw(id) PROVE IInv'
  <2> DEFINE S == PartsOf(id)
  <2>1. S \in SUBSET Range(Parts)
    BY DEF PartsOf, IInv, Shaped
  <2>2. portal' = [q \in Range(Parts) |-> Without(portal[q], id)]
    BY <1>2 DEF Withdraw, IInv, Shaped
  <2>3. /\ pull' = [pull EXCEPT !.stood = @ \ {id}, !.shrunk = @ \cup S]
        /\ rev' \in [Ids -> Revision] /\ \A x \in Ids : x # id => rev'[x] = rev[x]
        /\ UNCHANGED <<paged, silver, bronze, orphaned>>
    BY <1>2 DEF Withdraw, IInv, Shaped
  <2>4. ASSUME NEW q \in Range(Parts)
        PROVE  /\ portal'[q] \in Seq(Ids) /\ IsInjective(portal'[q])
               /\ \A x \in Ids : x # id => (x \in Range(portal'[q]) <=> x \in Range(portal[q]))
               /\ q \notin S => \A j \in DOMAIN portal'[q] :
                    portal'[q][j] # id => j \in DOMAIN portal[q] /\ portal[q][j] = portal'[q][j]
    <3>1. portal[q] \in Seq(Ids) /\ IsInjective(portal[q]) /\ (q \notin S => id \notin Range(portal[q]))
      BY DEF IInv, Shaped, PartsOf
    <3> QED BY <2>2, <3>1, WithoutIs
  <2>5. portal' \in [Range(Parts) -> Seq(Ids)]
    BY <2>2, <2>4
  <2>6. /\ \A q \in Range(Parts) : IsInjective(portal'[q])
        /\ \A q \in Range(Parts), x \in Ids :
             x # id => (x \in Range(portal'[q]) <=> x \in Range(portal[q]))
        /\ \A q \in Range(Parts) \ S : \A j \in DOMAIN portal'[q] :
             portal'[q][j] # id => j \in DOMAIN portal[q] /\ portal[q][j] = portal'[q][j]
    BY <2>4
  <2> HIDE DEF S
  <2> QED BY <2>1, <2>3, <2>5, <2>6, Touching
<1>3. ASSUME NEW id \in Ids, NEW valid \in BOOLEAN, Revise(id, valid) PROVE IInv'
  <2> DEFINE S == {}
  <2>1. S \in SUBSET Range(Parts)
    OBVIOUS
  <2>2. portal' \in [Range(Parts) -> Seq(Ids)] /\ portal' = portal
    BY <1>3 DEF Revise, IInv, Shaped
  <2>3. /\ pull' = [pull EXCEPT !.stood = @ \ {id}, !.shrunk = @ \cup S]
        /\ UNCHANGED <<paged, silver, bronze, orphaned>>
    BY <1>3 DEF Revise, IInv, Shaped
  <2>4. rev' \in [Ids -> Revision] /\ \A x \in Ids : x # id => rev'[x] = rev[x]
    <3>1. rev \in [Ids -> Revision] /\ [n |-> rev[id].n + 1, valid |-> valid] \in Revision
      BY DEF IInv, Shaped, Revision
    <3>2. rev' = [rev EXCEPT ![id] = [n |-> rev[id].n + 1, valid |-> valid]]
      BY <1>3, <3>1 DEF Revise
    <3> QED BY <3>1, <3>2
  <2>5. /\ \A q \in Range(Parts) : IsInjective(portal'[q])
        /\ \A q \in Range(Parts), x \in Ids :
             x # id => (x \in Range(portal'[q]) <=> x \in Range(portal[q]))
        /\ \A q \in Range(Parts) \ S : \A j \in DOMAIN portal'[q] :
             portal'[q][j] # id => j \in DOMAIN portal[q] /\ portal[q][j] = portal'[q][j]
    BY <2>2 DEF IInv, Shaped
  <2> HIDE DEF S
  <2> QED BY <2>1, <2>2, <2>3, <2>4, <2>5, Touching
<1> QED BY <1>1, <1>2, <1>3 DEF Agency
-----------------------------------------------------------------------------
(* Fetching.                                                               *)

\* What is asked for is a part's rows from the offset on, and what is answered
\* the first of them: all, unless the source is read by pages.
LEMMA AnswersAre ==
  ASSUME IInv, Fetching, NEW features \in Answers
  PROVE  /\ features \in Seq(Ids) /\ Range(features) \subseteq Range(portal[Asked])
         /\ Len(features) =< Len(Left) /\ (Len(features) < Len(Left) => paged)
         /\ \A j \in DOMAIN portal[Asked] :
              /\ pull.offset < j
              /\ Len(features) < Len(Left) => j =< NextOffset(features)
              => portal[Asked][j] \in Range(features)
<1> DEFINE seq == portal[Asked]
           n == Len(seq)
<1>1. Asked \in Range(Parts) /\ pull.offset \in Nat
  BY DEF IInv, Shaped, Fetching, Asked, Range, PullState
<1>2. seq \in Seq(Ids) /\ n \in Nat /\ DOMAIN seq = 1..n
  BY <1>1, LenProperties DEF IInv, Shaped
<1>3. \A i \in pull.offset + 1..n : seq[i] \in Ids
  BY <1>1, <1>2, ElementOfSeq
<1> HIDE DEF seq, n
<1> DEFINE more == SubSeq(seq, pull.offset + 1, n)
<1>4. /\ more \in Seq(Ids) /\ Len(more) = IF pull.offset + 1 =< n THEN n - pull.offset ELSE 0
      /\ \A i \in 1..n - pull.offset : more[i] = seq[pull.offset + i]
  <2>1. pull.offset + 1 \in Int /\ n \in Int /\ n - (pull.offset + 1) + 1 = n - pull.offset
    BY <1>1, <1>2
  <2>2. \A i \in 1..n - pull.offset : pull.offset + 1 + i - 1 = pull.offset + i
    BY <1>1, <1>2
  <2> QED BY <1>3, <2>1, <2>2, SubSeqProperties
<1> HIDE DEF more
<1>5. PICK m \in 0..Len(more) :
        /\ features \in Seq(Ids) /\ Len(features) = m /\ (m < Len(more) => paged)
        /\ \A i \in 1..m : features[i] = more[i]
  <2>1. Left = more
    BY DEF Left, more, seq, n
  <2>2. CASE features = more
    BY <1>1, <1>2, <1>4, <2>2
  <2>3. CASE paged /\ \E m \in 1..Len(more) : features = SubSeq(more, 1, m)
    <3>1. PICK m \in 1..Len(more) : features = SubSeq(more, 1, m)
      BY <2>3
    <3>2. Len(more) \in Nat
      BY <1>1, <1>2, <1>4
    <3>3. \A i \in 1..m : more[i] \in Ids
      BY <1>4, <3>2, ElementOfSeq
    <3>4. features \in Seq(Ids) /\ Len(features) = m /\ \A i \in 1..m : features[i] = more[i]
      BY <3>1, <3>2, <3>3, SubSeqProperties
    <3> QED BY <2>3, <3>2, <3>4
  <2> QED BY <2>1, <2>2, <2>3 DEF Answers
<1>6. Left = more
  BY DEF Left, more, seq, n
<1>7. DOMAIN features = 1..m
  BY <1>5, LenProperties
<1>8. ASSUME NEW i \in 1..m
      PROVE  pull.offset + i \in 1..n /\ features[i] = seq[pull.offset + i]
  <2>1. i \in 1..n - pull.offset /\ i \in 1..Len(more)
    BY <1>1, <1>2, <1>4, <1>5
  <2>2. features[i] = more[i] /\ more[i] = seq[pull.offset + i]
    BY <1>4, <1>5, <2>1
  <2> QED BY <1>1, <1>2, <2>1, <2>2
<1>9. Range(features) \subseteq Range(seq)
  BY <1>2, <1>7, <1>8 DEF Range
<1>10. ASSUME NEW j \in 1..n, pull.offset < j, m < Len(more) => j =< pull.offset + m
       PROVE  seq[j] \in Range(features)
  <2>1. j - pull.offset \in 1..m /\ pull.offset + (j - pull.offset) = j
    BY <1>1, <1>2, <1>4, <1>5, <1>10
  <2> QED BY <1>7, <1>8, <2>1 DEF Range
<1>11. Len(features) =< Len(more)
  BY <1>1, <1>2, <1>4, <1>5
<1> QED BY <1>2, <1>5, <1>6, <1>9, <1>10, <1>11 DEF seq, NextOffset

\* An answer adds its rows to what was read; it may pass over a part only if
\* that part then counts as dark.
LEMMA Reading ==
  ASSUME IInv, Fetching, NEW rows \in Seq(Row), NEW lost \in SUBSET {Asked},
         lost # {} => paged,
         \A r \in Range(rows) : r.part = Asked /\ r.rev = rev[r.id] /\ Asked \in PartsOf(r.id),
         NEW offset \in Nat, NEW next \in {pull.next, pull.next + 1},
         next # pull.next \/ ~paged => offset = 0,
         \A j \in DOMAIN portal[Asked] :
           lost = {} /\ pull.offset < j /\ (next = pull.next => j =< offset)
             => portal[Asked][j] \in {r.id : r \in Range(rows)},
         pull' = [pull EXCEPT !.chunks = Append(@, [part |-> Asked, rows |-> rows]),
                              !.next = next, !.offset = offset, !.dark = @ \cup lost],
         UNCHANGED <<paged, portal, rev, silver, bronze, orphaned>>
  PROVE  IInv'
<1> DEFINE chunk == [part |-> Asked, rows |-> rows]
<1>1. /\ pull'.chunks = Append(pull.chunks, chunk) /\ pull'.at = "fetching"
      /\ pull'.next = next /\ pull'.offset = offset /\ pull'.stood = pull.stood
      /\ pull'.dark = pull.dark \cup lost /\ pull'.absent = pull.absent
      /\ pull'.shrunk = pull.shrunk
  BY DEF IInv, Shaped, Fetching
<1>2. /\ Asked \in Range(Parts) /\ pull.next \in DOMAIN Parts /\ Parts[pull.next] = Asked
      /\ pull.at = "fetching"
  BY DEF Fetching, Asked, Range
<1>3. chunk \in Chunk /\ pull.chunks \in Seq(Chunk) /\ pull.next \in Nat \ {0}
  BY <1>2 DEF Chunk, IInv, Shaped, PullState
<1>4. Append(pull.chunks, chunk) \in Seq(Chunk)
  BY <1>3, AppendProperties
<1>5. Shaped'
  <2>1. next \in Nat \ {0} /\ pull.dark \cup lost \in SUBSET Range(Parts)
    BY <1>2, <1>3 DEF IInv, Shaped, PullState
  <2> HIDE DEF chunk
  <2>2. pull' = [pull EXCEPT !.chunks = Append(pull.chunks, chunk), !.next = next,
                             !.offset = offset, !.dark = pull.dark \cup lost]
    BY DEF chunk
  <2>3. pull' \in PullState
    BY <1>4, <2>1, <2>2 DEF IInv, Shaped, PullState
  <2>4. ~paged' => pull'.offset = 0
    BY <1>1
  <2> QED BY <2>3, <2>4 DEF IInv, Shaped
<1>6. Records(pull'.chunks) = Records(pull.chunks) \cup Range(rows)
  BY <1>1, <1>3, RecordsGrow
<1>7. \A id \in Ids : PartsOf(id)' = PartsOf(id)
  BY DEF PartsOf
<1>8. StoodIsPublished'
  BY <1>1 DEF IInv, Standing, StoodIsPublished, PartsOf
<1>9. ReadAsStands'
  <2> SUFFICES ASSUME NEW r \in Records(pull'.chunks), r.id \in pull.stood
               PROVE  r.rev = rev[r.id] /\ r.part \in PartsOf(r.id)
    BY <1>1 DEF ReadAsStands, PartsOf
  <2> QED BY <1>6 DEF IInv, Standing, ReadAsStands
<1>10. PassedIsRead'
  <2> SUFFICES ASSUME NEW p \in Range(Parts), NEW j \in DOMAIN portal[p], Passed(p, j)',
                      Steady(p)', portal[p][j] \in pull.stood
               PROVE  portal[p][j] \in Seen(pull'.chunks)
    BY <1>1 DEF PassedIsRead
  <2>1. Steady(p) /\ (p = Asked => lost = {})
    BY <1>1 DEF Steady
  <2>2. j \in Nat \ {0} /\ pull.offset \in Nat
    BY LenProperties DEF IInv, Shaped, PullState
  <2>3. PICK k \in DOMAIN Parts :
          Parts[k] = p /\ (k < next \/ (k = next /\ j =< offset))
    BY <1>1 DEF Passed
  <2>4. k \in Nat
    BY SourceAssumption, LenProperties
  <2>5. CASE Passed(p, j)
    BY <1>2, <1>6, <2>1, <2>5 DEF IInv, Standing, PassedIsRead, Seen
  <2>6. CASE ~Passed(p, j)
    <3>1. ~(k < pull.next) /\ ~(k = pull.next /\ j =< pull.offset)
      BY <2>3, <2>6 DEF Passed
    <3>2. k = pull.next /\ pull.offset < j /\ (next = pull.next => j =< offset)
      BY <1>3, <2>2, <2>3, <2>4, <3>1
    <3>3. portal[p][j] \in {r.id : r \in Range(rows)}
      BY <1>2, <2>1, <2>3, <3>2
    <3> QED BY <1>6, <3>3 DEF Seen
  <2> QED BY <2>5, <2>6
<1>11. AbsentIsGone'
  <2>1. \A id \in Ids : SureToRead(id)' => SureToRead(id)
    BY <1>1, <1>7 DEF SureToRead
  <2>2. pull.absent \subseteq Ids
    BY DEF IInv, Shaped, PullState
  <2> QED BY <1>1, <2>1, <2>2 DEF IInv, Standing, AbsentIsGone
<1>12. StandingRowsKept'
  BY <1>1 DEF StandingRowsKept
<1>13. ReplaySound'
  BY <1>1, <1>2 DEF IInv, ReplaySound, Agrees, Replayable, Succeeded
<1> QED BY <1>5, <1>8, <1>9, <1>10, <1>11, <1>12, <1>13 DEF IInv, Standing

\* A page received keeps it: the walk goes on behind what it wrote.
LEMMA FetchStep == ASSUME IInv, Fetch PROVE IInv'
<1>1. PICK features \in Answers : Receive(features, Len(features) < Len(Left))
  BY DEF Fetch
<1> DEFINE rows == Written(features)
           more == Len(features) < Len(Left)
           next == IF more THEN pull.next ELSE pull.next + 1
           offset == IF more THEN NextOffset(features) ELSE 0
<1>2. /\ features \in Seq(Ids) /\ Range(features) \subseteq Range(portal[Asked])
      /\ (more => paged) /\ Asked \in Range(Parts) /\ pull.next \in Nat
      /\ \A j \in DOMAIN portal[Asked] :
           pull.offset < j /\ (more => j =< NextOffset(features))
             => portal[Asked][j] \in Range(features)
  BY AnswersAre DEF Fetch, Fetching, Asked, Range, IInv, Shaped, PullState
<1>3. DOMAIN features = 1..Len(features) /\ Len(features) \in Nat /\ pull.offset \in Nat
  BY <1>2, LenProperties DEF IInv, Shaped, PullState
<1>4. offset \in Nat /\ next \in {pull.next, pull.next + 1}
      /\ (next # pull.next \/ ~paged => offset = 0) /\ (next = pull.next <=> more)
  BY <1>2, <1>3 DEF NextOffset
<1>5. \A i \in 1..Len(features) :
        rows[i] = [id |-> features[i], part |-> Asked, rev |-> rev[features[i]]]
        /\ features[i] \in Ids /\ features[i] \in Range(portal[Asked])
  BY <1>2, <1>3, ElementOfSeq DEF Written, Range
<1>6. DOMAIN rows = 1..Len(features)
  BY <1>3 DEF Written
<1>7. ASSUME NEW i \in 1..Len(features) PROVE rows[i] \in Row
  <2>1. features[i] \in Ids /\ rev[features[i]] \in Revision
    BY <1>5 DEF IInv, Shaped
  <2>2. rows[i] = [id |-> features[i], part |-> Asked, rev |-> rev[features[i]]]
    BY <1>5
  <2> HIDE DEF rows
  <2> QED BY <1>2, <2>1, <2>2 DEF Row
<1>8. rows \in Seq(Row)
  <2>1. rows = [i \in 1..Len(features) |-> rows[i]]
    BY <1>3 DEF Written
  <2> HIDE DEF rows
  <2>2. [i \in 1..Len(features) |-> rows[i]] \in Seq(Row)
    BY <1>3, <1>7, IsASeq
  <2> QED BY <2>1, <2>2
<1>9. \A r \in Range(rows) : r.part = Asked /\ r.rev = rev[r.id] /\ Asked \in PartsOf(r.id)
  <2>1. Asked \in DOMAIN portal
    BY <1>2 DEF IInv, Shaped
  <2> HIDE DEF rows
  <2> QED BY <1>5, <1>6, <2>1 DEF PartsOf, Range
<1>10. \A x \in Range(features) : x \in {r.id : r \in Range(rows)}
  <2> HIDE DEF rows
  <2> QED BY <1>3, <1>5, <1>6 DEF Range
<1>11. pull' = [pull EXCEPT !.chunks = Append(@, [part |-> Asked, rows |-> rows]),
                            !.next = next, !.offset = offset, !.dark = @ \cup {}]
  BY <1>1 DEF Receive, IInv, Shaped
<1>12. Fetching /\ UNCHANGED <<paged, portal, rev, silver, bronze, orphaned>>
  BY DEF Fetch
<1> HIDE DEF rows, next, offset
<1>13. \A j \in DOMAIN portal[Asked] :
         pull.offset < j /\ (next = pull.next => j =< offset)
           => portal[Asked][j] \in {r.id : r \in Range(rows)}
  <2>1. more => offset = NextOffset(features)
    BY DEF offset
  <2> SUFFICES ASSUME NEW j \in DOMAIN portal[Asked], pull.offset < j,
                      next = pull.next => j =< offset
               PROVE  portal[Asked][j] \in {r.id : r \in Range(rows)}
    OBVIOUS
  <2> HIDE DEF more
  <2>2. more => j =< NextOffset(features)
    BY <2>1, <1>4
  <2>3. portal[Asked][j] \in Range(features)
    BY <1>2, <2>2
  <2> QED BY <1>10, <2>3
<1> QED BY <1>4, <1>8, <1>9, <1>11, <1>12, <1>13, Reading

\* A fetch that brings nothing keeps it.
LEMMA FetchNothingStep == ASSUME IInv, FetchNothing PROVE IInv'
<1> DEFINE rows == << >>
           next == pull.next + 1
<1>1. rows \in Seq(Row) /\ Range(rows) = {}
  BY DEF Range
<1>2. /\ Fetching /\ paged /\ UNCHANGED <<paged, portal, rev, silver, bronze, orphaned>>
      /\ pull' = [pull EXCEPT !.chunks = Append(@, [part |-> Asked, rows |-> rows]),
                              !.next = next, !.offset = 0, !.dark = @ \cup {Asked}]
  BY DEF FetchNothing
<1>3. next \in {pull.next, pull.next + 1} /\ next # pull.next
  BY DEF IInv, Shaped, PullState
<1> HIDE DEF rows, next
<1> QED BY <1>1, <1>2, <1>3, Reading
-----------------------------------------------------------------------------
(* The end of a pull.                                                      *)

\* One more pull on record.
LEMMA OneMore ==
  ASSUME IInv, NEW status \in {"succeeded", "no_new_data", "blocked"}, NEW chunks \in Seq(Chunk),
         bronze' = Append(bronze, [status |-> status, chunks |-> chunks])
  PROVE  /\ bronze' \in Seq(OnRecord)
         /\ \A i \in Succeeded' : (\A j \in Succeeded' : j =< i) =>
              \/ status = "succeeded" /\ bronze'[i].chunks = chunks
              \/ /\ status # "succeeded" /\ i \in Succeeded /\ bronze'[i] = bronze[i]
                 /\ \A j \in Succeeded : j =< i
<1> DEFINE P == OnRecord
           new == [status |-> status, chunks |-> chunks]
           n == Len(bronze)
<1>1. new \in P /\ bronze \in Seq(P)
  BY DEF IInv, Shaped, OnRecord
<1>2. n \in Nat /\ DOMAIN bronze = 1..n
  BY <1>1, LenProperties
<1> HIDE DEF P, new
<1>3. /\ bronze' \in Seq(P) /\ Len(bronze') = n + 1 /\ bronze'[n + 1] = new
      /\ \A i \in 1..n : bronze'[i] = bronze[i]
  BY <1>1, AppendProperties DEF new
<1>4. DOMAIN bronze' = 1..n + 1
  BY <1>3, LenProperties
<1> HIDE DEF n
<1>5. new.status = status /\ new.chunks = chunks
  BY DEF new
<1>6. CASE status = "succeeded"
  <2>1. n + 1 \in Succeeded'
    BY <1>2, <1>3, <1>4, <1>5, <1>6 DEF Succeeded
  <2>2. \A i \in Succeeded' : i \in 1..n + 1
    BY <1>4 DEF Succeeded
  <2>3. \A i \in Succeeded' : n + 1 =< i => i = n + 1
    BY <1>2, <2>2
  <2> QED BY <1>3, <1>5, <1>6, <2>1, <2>3 DEF P
<1>7. CASE status # "succeeded"
  <2>1. ASSUME NEW i \in Succeeded' PROVE i \in 1..n
    BY <1>2, <1>3, <1>4, <1>5, <1>7 DEF Succeeded
  <2>2. Succeeded' = Succeeded
    BY <1>2, <1>3, <1>4, <2>1 DEF Succeeded
  <2> QED BY <1>3, <1>7, <2>1, <2>2 DEF P
<1> QED BY <1>6, <1>7

\* Between pulls only the replay promise is left to keep.
LEMMA BetweenPulls ==
  ASSUME IInv, pull' = NoPull, UNCHANGED <<paged, portal, rev, silver>>,
         bronze' \in Seq(OnRecord), ReplaySound'
  PROVE  IInv'
<1>1. NoPull.at = "idle" /\ NoPull.stood = {} /\ NoPull.absent = {} /\ NoPull.offset = 0
  BY DEF NoPull
<1>2. NoPull \in PullState
  BY DEF NoPull, PullState
<1>3. Shaped'
  BY <1>1, <1>2 DEF IInv, Shaped
<1>4. Standing'
  BY <1>1 DEF Standing, StoodIsPublished, ReadAsStands, PassedIsRead, AbsentIsGone,
              StandingRowsKept
<1> QED BY <1>3, <1>4 DEF IInv

\* A failed pull keeps it.
LEMMA FailStep == ASSUME IInv, Fail PROVE IInv'
<1>1. /\ pull' = NoPull /\ UNCHANGED <<paged, portal, rev, silver, bronze>>
      /\ pull.at # "idle" /\ orphaned' = (orphaned \/ pull.at \in {"promoted", "reconciled"})
  BY DEF Fail
<1>2. pull'.at = "idle"
  BY <1>1 DEF NoPull
<1>3. pull.at \in {"fetching", "promoted", "reconciled"}
  BY <1>1 DEF IInv, Shaped, PullState
<1>4. ReplaySound'
  BY <1>1, <1>2, <1>3 DEF IInv, ReplaySound, Agrees, Replayable, Succeeded
<1>5. bronze' \in Seq(OnRecord)
  BY <1>1 DEF IInv, Shaped
<1> QED BY <1>1, <1>4, <1>5, BetweenPulls

\* A pull that promoted nothing leaves the newest that succeeded what it was.
LEMMA EndedStep ==
  ASSUME IInv, pull.at = "fetching", NEW status \in {"no_new_data", "blocked"}, Ended(status),
         UNCHANGED <<paged, portal, rev, silver, orphaned>>
  PROVE  IInv'
<1>1. /\ pull' = NoPull /\ pull.chunks \in Seq(Chunk)
      /\ bronze' = Append(bronze, [status |-> status, chunks |-> pull.chunks])
  BY DEF Ended, Recorded, IInv, Shaped, PullState
<1>2. pull'.at = "idle"
  BY <1>1 DEF NoPull
<1>3. ReplaySound'
  <2> SUFFICES ASSUME ~orphaned, NEW i \in Succeeded', \A j \in Succeeded' : j =< i,
                      Replayable(bronze'[i].chunks)
               PROVE  Agrees(bronze'[i].chunks)
    BY <1>2 DEF ReplaySound, Replayable, Agrees
  <2>1. i \in Succeeded /\ bronze'[i] = bronze[i] /\ \A j \in Succeeded : j =< i
    BY <1>1, OneMore
  <2> QED BY <2>1 DEF IInv, ReplaySound
<1>4. bronze' \in Seq(OnRecord)
  BY <1>1, OneMore
<1> QED BY <1>1, <1>3, <1>4, BetweenPulls

\* One that did is now the newest, and silver agrees with it.
LEMMA FinishStep == ASSUME IInv, Finish PROVE IInv'
<1>1. /\ pull' = NoPull /\ pull.chunks \in Seq(Chunk)
      /\ bronze' = Append(bronze, [status |-> "succeeded", chunks |-> pull.chunks])
      /\ UNCHANGED <<paged, portal, rev, silver>> /\ pull.at = "reconciled"
  BY DEF Finish, Ended, Recorded, IInv, Shaped, PullState
<1>2. pull'.at = "idle"
  BY <1>1 DEF NoPull
<1>3. Agrees(pull.chunks)
  BY <1>1 DEF IInv, ReplaySound
<1>4. ReplaySound'
  <2> SUFFICES ASSUME NEW i \in Succeeded', \A j \in Succeeded' : j =< i
               PROVE  Agrees(bronze'[i].chunks)
    BY <1>1, <1>2 DEF ReplaySound, Agrees
  <2>1. bronze'[i].chunks = pull.chunks
    BY <1>1, OneMore
  <2> QED BY <1>3, <2>1
<1>5. bronze' \in Seq(OnRecord)
  BY <1>1, OneMore
<1> QED BY <1>1, <1>4, <1>5, BetweenPulls
-----------------------------------------------------------------------------
(* A pull's other steps.                                                   *)

\* Opening a pull keeps it.
LEMMA OpenStep == ASSUME IInv, NEW mode \in Modes, Open(mode) PROVE IInv'
<1> DEFINE stood == UNION {Range(portal[p]) : p \in DOMAIN portal}
<1>1. pull' = [at |-> "fetching", mode |-> mode, next |-> 1, offset |-> 0, chunks |-> << >>,
               absent |-> {}, stood |-> stood, shrunk |-> {}, dark |-> {}]
      /\ pull.at = "idle" /\ UNCHANGED <<paged, portal, rev, silver, bronze, orphaned>>
  BY DEF Open, NoPull
<1>2. /\ portal \in [Range(Parts) -> Seq(Ids)]
      /\ \A id : id \in stood <=> \E p \in Range(Parts) : id \in Range(portal[p])
  BY DEF IInv, Shaped
<1> HIDE DEF stood
<1>3. stood \subseteq Ids
  BY <1>2, RangeOfSeq
<1>4. Shaped'
  BY <1>1, <1>3 DEF IInv, Shaped, PullState
<1>5. StoodIsPublished'
  BY <1>1, <1>2 DEF StoodIsPublished, PartsOf
<1>6. ReadAsStands'
  BY <1>1 DEF ReadAsStands, Records, Places
<1>7. PassedIsRead'
  <2> SUFFICES ASSUME NEW p \in Range(Parts), NEW j \in DOMAIN portal[p], Passed(p, j)'
               PROVE  FALSE
    BY <1>1 DEF PassedIsRead
  <2>1. PICK k \in DOMAIN Parts : k < 1 \/ (k = 1 /\ j =< 0)
    BY <1>1 DEF Passed
  <2>2. k \in 1..Len(Parts) /\ j \in 1..Len(portal[p])
    BY <1>2, SourceAssumption, LenProperties
  <2> QED BY <2>1, <2>2
<1>8. AbsentIsGone' /\ StandingRowsKept'
  BY <1>1 DEF AbsentIsGone, StandingRowsKept
<1>9. ReplaySound'
  BY <1>1 DEF IInv, ReplaySound, Agrees, Replayable, Succeeded
<1> QED BY <1>4, <1>5, <1>6, <1>7, <1>8, <1>9 DEF IInv, Standing

\* A pull that has been through every part has come by all that stood.
LEMMA SureIsSeen ==
  ASSUME IInv, pull.at = "fetching", pull.next \notin DOMAIN Parts,
         NEW id \in Ids, SureToRead(id)
  PROVE  id \in Seen(pull.chunks)
<1>1. PICK p \in Range(Parts) : id \in Range(portal[p]) /\ p \in PartsOf(id)
  BY DEF IInv, Shaped, Standing, StoodIsPublished, SureToRead, PartsOf
<1>2. PICK j \in DOMAIN portal[p] : portal[p][j] = id
  BY <1>1 DEF Range
<1>3. PICK k \in DOMAIN Parts : Parts[k] = p
  BY DEF Range
<1>4. k < pull.next
  <2>1. DOMAIN Parts = 1..Len(Parts) /\ Len(Parts) \in Nat
    BY SourceAssumption, LenProperties
  <2>2. pull.next \in Nat \ {0}
    BY DEF IInv, Shaped, PullState
  <2> QED BY <2>1, <2>2
<1>5. Passed(p, j) /\ Steady(p)
  BY <1>1, <1>3, <1>4 DEF Passed, Steady, SureToRead
<1> QED BY <1>2, <1>5 DEF IInv, Standing, PassedIsRead, SureToRead

\* Promotion keeps it: every row that stood still is now in silver.
LEMMA PromoteStep == ASSUME IInv, Promote PROVE IInv'
<1> DEFINE chunks == pull.chunks
           rows   == Accepted(chunks, AsFetched(chunks))
           absent == Decided(Absent(Seen(chunks)))
<1>1. /\ pull.at = "fetching" /\ pull.next \notin DOMAIN Parts
      /\ UNCHANGED <<paged, portal, rev, orphaned, spent>>
  BY DEF Promote
<1>2. ASSUME NEW status \in {"no_new_data", "blocked"}, Ended(status), UNCHANGED silver PROVE IInv'
  BY <1>1, <1>2, EndedStep
<1>3. ASSUME silver' = Upserted(rows), pull' = [pull EXCEPT !.at = "promoted", !.absent = absent],
             UNCHANGED bronze
      PROVE  IInv'
  <2>1. /\ pull'.at = "promoted" /\ pull'.absent = absent /\ pull'.stood = pull.stood
        /\ pull'.shrunk = pull.shrunk /\ pull'.dark = pull.dark /\ pull'.chunks = chunks
    BY <1>3 DEF IInv, Shaped
  <2>2. chunks \in Seq(Chunk) /\ Records(chunks) \subseteq Row
    BY PlacesAre DEF IInv, Shaped, PullState
  <2>3. absent \subseteq DOMAIN silver \ Seen(chunks) /\ DOMAIN silver \subseteq Ids
    BY DEF Decided, Absent, IInv, Shaped
  <2>4. \A r \in rows : r \in Records(chunks) /\ r.id \in Ids
    BY <2>2, AcceptedAre DEF Row
  <2>5. DOMAIN silver' \subseteq Ids /\ silver' = [id \in DOMAIN silver' |-> silver'[id]]
    <3> HIDE DEF rows
    <3> QED BY <1>3, <2>3, <2>4, UpsertedIs
  <2>6. \A id \in Ids : SureToRead(id)' <=> SureToRead(id)
    BY <1>1, <2>1 DEF SureToRead, PartsOf
  <2> HIDE DEF absent
  <2>7. Shaped'
    BY <1>1, <1>3, <2>3, <2>5 DEF IInv, Shaped, PullState
  <2>8. StoodIsPublished'
    BY <1>1, <2>1 DEF IInv, Standing, StoodIsPublished, PartsOf
  <2>9. ReadAsStands'
    BY <1>1, <2>1 DEF IInv, Standing, ReadAsStands, PartsOf
  <2>10. PassedIsRead'
    BY <2>1 DEF PassedIsRead
  <2>11. AbsentIsGone'
    <3>1. \A id \in absent : ~SureToRead(id) /\ id \in Ids
      BY <1>1, <2>3, SureIsSeen
    <3> QED BY <2>1, <2>6, <3>1 DEF AbsentIsGone
  <2>12. StandingRowsKept'
    <3> SUFFICES ASSUME NEW id \in Ids, SureToRead(id), rev[id].valid
                 PROVE  /\ id \in DOMAIN silver'
                        /\ \E p \in PartsOf(id) : silver'[id] = [part |-> p, rev |-> rev[id]]
      BY <1>1, <2>6 DEF StandingRowsKept, PartsOf
    <3>1. PICK r \in Records(chunks) : r.id = id
      BY <1>1, SureIsSeen DEF Seen
    <3>2. \A q \in Records(chunks) : q.id = id => q.rev = rev[id] /\ q.part \in PartsOf(id)
      BY DEF IInv, Standing, ReadAsStands, SureToRead
    <3>3. PICK s \in rows : s.id = id
      BY <2>2, <3>1, <3>2, SomeAccepted
    <3>4. id \in DOMAIN silver' /\ silver'[id] = [part |-> s.part, rev |-> s.rev]
      BY <1>3, <2>2, <3>3, UpsertAgrees
    <3> QED BY <2>4, <3>2, <3>3, <3>4
  <2>13. ReplaySound'
    <3>1. \A r \in rows : r.id \in DOMAIN silver' /\ silver'[r.id] = [part |-> r.part, rev |-> r.rev]
      BY <1>3, <2>2, UpsertAgrees
    <3>2. absent \cap Seen(chunks) = {}
      BY <2>3
    <3> QED BY <2>1, <3>1, <3>2 DEF ReplaySound, Agrees
  <2> QED BY <2>7, <2>8, <2>9, <2>10, <2>11, <2>12, <2>13 DEF IInv, Standing
<1> QED BY <1>2, <1>3 DEF Promote

\* What is withdrawn was neither read nor sure to be.
LEMMA ReconcileStep == ASSUME IInv, Reconcile PROVE IInv'
<1>1. /\ pull.at = "promoted" /\ pull'.at = "reconciled"
      /\ UNCHANGED <<paged, portal, rev, bronze, orphaned>>
      /\ pull'.absent = pull.absent /\ pull'.stood = pull.stood /\ pull'.shrunk = pull.shrunk
      /\ pull'.dark = pull.dark /\ pull'.chunks = pull.chunks
  BY DEF Reconcile, IInv, Shaped
<1>2. /\ DOMAIN silver' \subseteq DOMAIN silver
      /\ silver' = [id \in DOMAIN silver' |-> silver'[id]]
      /\ \A id \in DOMAIN silver \ pull.absent : id \in DOMAIN silver' /\ silver'[id] = silver[id]
  <2>1. CASE silver' = Restrict(silver, DOMAIN silver \ pull.absent)
    BY <2>1 DEF Restrict
  <2>2. CASE UNCHANGED silver
    BY <2>2 DEF IInv, Shaped
  <2> QED BY <2>1, <2>2 DEF Reconcile
<1>3. Shaped'
  <2>1. pull' \in PullState /\ (~paged => pull'.offset = 0)
    BY DEF IInv, Shaped, Reconcile, PullState
  <2>2. DOMAIN silver' \subseteq Ids
    BY <1>2 DEF IInv, Shaped
  <2> QED BY <1>1, <1>2, <2>1, <2>2 DEF IInv, Shaped
<1>4. \A id : PartsOf(id)' = PartsOf(id) /\ (SureToRead(id)' <=> SureToRead(id))
  BY <1>1 DEF SureToRead, PartsOf
<1>5. StoodIsPublished' /\ ReadAsStands' /\ PassedIsRead' /\ AbsentIsGone'
  BY <1>1, <1>4 DEF IInv, Standing, StoodIsPublished, ReadAsStands, PassedIsRead, AbsentIsGone
<1>6. StandingRowsKept'
  <2> SUFFICES ASSUME NEW id \in Ids, SureToRead(id), rev[id].valid
               PROVE  /\ id \in DOMAIN silver'
                      /\ \E p \in PartsOf(id) : silver'[id] = [part |-> p, rev |-> rev[id]]
    BY <1>1, <1>4 DEF StandingRowsKept
  <2>1. id \notin pull.absent
    BY DEF IInv, Standing, AbsentIsGone
  <2> QED BY <1>1, <1>2, <2>1 DEF IInv, Standing, StandingRowsKept
<1>7. ReplaySound'
  <2>1. \A r \in Accepted(pull.chunks, AsFetched(pull.chunks)) : r.id \in Seen(pull.chunks)
    BY AcceptedAre DEF Seen, IInv, Shaped, PullState
  <2>2. Agrees(pull.chunks) /\ pull.absent \cap Seen(pull.chunks) = {}
    BY <1>1 DEF IInv, ReplaySound
  <2>3. \A r \in Accepted(pull.chunks, AsFetched(pull.chunks)) :
          r.id \in DOMAIN silver' /\ silver'[r.id] = [part |-> r.part, rev |-> r.rev]
    BY <1>2, <2>1, <2>2 DEF Agrees
  <2> QED BY <1>1, <2>2, <2>3 DEF ReplaySound, Agrees
<1> QED BY <1>3, <1>5, <1>6, <1>7 DEF IInv, Standing

\* A replay of the newest that succeeded is the newest itself, and silver agrees
\* with it if it accepts what the pull did.
LEMMA ReprocessStep == ASSUME IInv, NEW i \in DOMAIN bronze, Reprocess(i) PROVE IInv'
<1> DEFINE chunks == bronze[i].chunks
           rows   == Accepted(chunks, AsNamed(chunks))
<1>1. /\ silver' = Upserted(rows) /\ UNCHANGED <<paged, portal, rev, pull, orphaned>>
      /\ pull.at = "idle" /\ bronze' = Append(bronze, [bronze[i] EXCEPT !.status = "succeeded"])
  BY DEF Reprocess
<1>2. bronze[i] \in OnRecord
  <2>1. bronze \in Seq(OnRecord)
    BY DEF IInv, Shaped
  <2>2. i \in 1..Len(bronze)
    BY <2>1, LenProperties
  <2> QED BY <2>1, <2>2, ElementOfSeq
<1>3. /\ chunks \in Seq(Chunk)
      /\ bronze' = Append(bronze, [status |-> "succeeded", chunks |-> chunks])
  <2>1. [bronze[i] EXCEPT !.status = "succeeded"] = [status |-> "succeeded", chunks |-> chunks]
    BY <1>2 DEF OnRecord
  <2> QED BY <1>1, <1>2, <2>1 DEF OnRecord
<1>4. \A r \in rows : r.id \in Ids
  <2>1. \A r \in rows : r \in Records(chunks)
    BY DEF Accepted, Records
  <2> HIDE DEF rows, chunks
  <2> QED BY <1>3, <2>1, PlacesAre DEF Row
<1> HIDE DEF rows, chunks
<1>5. DOMAIN silver' \subseteq Ids /\ silver' = [id \in DOMAIN silver' |-> silver'[id]]
  BY <1>1, <1>4, UpsertedIs DEF IInv, Shaped
<1>6. bronze' \in Seq(OnRecord)
  BY <1>3, OneMore
<1>7. Shaped'
  BY <1>1, <1>5, <1>6 DEF IInv, Shaped
<1>8. Standing'
  BY <1>1 DEF IInv, Standing, StoodIsPublished, ReadAsStands, PassedIsRead, AbsentIsGone,
              StandingRowsKept, SureToRead, PartsOf, Passed, Steady
<1>9. ReplaySound'
  <2> SUFFICES ASSUME NEW m \in Succeeded', \A j \in Succeeded' : j =< m,
                      Replayable(bronze'[m].chunks),
                      NEW r \in Accepted(bronze'[m].chunks, AsFetched(bronze'[m].chunks))
               PROVE  r.id \in DOMAIN silver' /\ silver'[r.id] = [part |-> r.part, rev |-> r.rev]
    BY <1>1 DEF ReplaySound, Replayable, Agrees
  <2>1. bronze'[m].chunks = chunks
    BY <1>3, OneMore
  <2>2. rows = Accepted(chunks, AsFetched(chunks))
    BY <1>3, <2>1, ReplayAccepts DEF rows
  <2> QED BY <1>1, <1>3, <2>1, <2>2, UpsertAgrees
<1> QED BY <1>7, <1>8, <1>9 DEF IInv
-----------------------------------------------------------------------------
(* The invariant.                                                          *)

\* A source not yet pulled satisfies the invariant.
LEMMA InitHolds == Init => IInv
<1> SUFFICES ASSUME Init PROVE IInv
  OBVIOUS
<1>1. NewRow \in Revision
  BY DEF NewRow, Revision
<1>2. DOMAIN Parts = 1..Len(Parts) /\ Len(Parts) \in Nat
  BY SourceAssumption, LenProperties
<1>3. ASSUME NEW k \in DOMAIN Parts PROVE Backfill[k] \in Chunk
  <2> DEFINE ids == FirstPublished[Parts[k]]
             row(j) == [id |-> ids[j], part |-> Parts[k], rev |-> NewRow]
  <2>1. Parts[k] \in Range(Parts) /\ ids \in Seq(Ids)
    BY SourceAssumption DEF Range
  <2>2. DOMAIN ids = 1..Len(ids) /\ Len(ids) \in Nat
    BY <2>1, LenProperties
  <2> HIDE DEF ids
  <2>3. \A j \in 1..Len(ids) : row(j) \in Row
    BY <1>1, <2>1, <2>2, ElementOfSeq DEF Row
  <2>4. [j \in 1..Len(ids) |-> row(j)] \in Seq(Row)
    BY <2>2, <2>3, IsASeq
  <2>5. Backfill[k] = [part |-> Parts[k], rows |-> [j \in 1..Len(ids) |-> row(j)]]
    BY <2>2 DEF Backfill, ids
  <2> QED BY <2>1, <2>4, <2>5 DEF Chunk
<1>4. Backfill \in Seq(Chunk)
  <2>1. Backfill = [k \in 1..Len(Parts) |-> Backfill[k]]
    BY <1>2 DEF Backfill
  <2>2. [k \in 1..Len(Parts) |-> Backfill[k]] \in Seq(Chunk)
    BY <1>2, <1>3, IsASeq
  <2> QED BY <2>1, <2>2
<1>5. pull = NoPull /\ pull.at = "idle"
  BY DEF Init, NoPull
<1> DEFINE rows == Accepted(Backfill, AsFetched(Backfill))
<1>6. /\ bronze \in Seq(OnRecord)
      /\ DOMAIN silver \subseteq Ids /\ silver = [id \in DOMAIN silver |-> silver[id]]
      /\ \A i \in Succeeded : Agrees(bronze[i].chunks)
  <2>1. CASE silver = << >> /\ bronze = << >>
    BY <2>1 DEF Succeeded
  <2>2. CASE silver = Backfilled /\ bronze = <<[status |-> "succeeded", chunks |-> Backfill]>>
    <3>1. bronze \in Seq(OnRecord)
      BY <1>4, <2>2 DEF OnRecord
    <3>2. \A r \in rows : r.id \in Ids
      BY <1>4, AcceptedAre, PlacesAre DEF Row
    <3>3. silver = Staged(rows)
      BY <2>2 DEF Backfilled
    <3>4. silver = [id \in DOMAIN silver |-> silver[id]]
      BY <3>3 DEF Staged
    <3>5. ASSUME NEW r \in rows
          PROVE  r.id \in DOMAIN silver /\ silver[r.id] = [part |-> r.part, rev |-> r.rev]
      <4>1. r \in rows
        OBVIOUS
      <4> HIDE DEF rows
      <4>2. r.id \in DOMAIN Staged(rows)
        BY <4>1, StagedIs
      <4>3. PICK s \in rows :
              s.id = r.id /\ Staged(rows)[r.id] = [part |-> s.part, rev |-> s.rev]
        BY <4>2, StagedIs
      <4>4. s = r
        BY <1>4, <4>1, <4>3, OneAccepted DEF rows
      <4> QED BY <3>3, <4>2, <4>3, <4>4
    <3>6. \A i \in Succeeded : bronze[i].chunks = Backfill
      BY <2>2 DEF Succeeded
    <3> HIDE DEF rows
    <3>7. DOMAIN silver \subseteq Ids
      BY <3>2, <3>3, StagedIs
    <3> QED BY <3>1, <3>4, <3>5, <3>6, <3>7 DEF rows, Agrees
  <2> QED BY <2>1, <2>2 DEF Init
<1>7. Shaped
  <2>1. pull \in PullState /\ pull.offset = 0
    BY <1>5 DEF NoPull, PullState
  <2>2. /\ paged \in BOOLEAN /\ rev \in [Ids -> Revision] /\ portal \in [Range(Parts) -> Seq(Ids)]
        /\ \A p \in Range(Parts) : IsInjective(portal[p])
    BY <1>1, SourceAssumption DEF Init
  <2> QED BY <1>6, <2>1, <2>2 DEF Shaped
<1>8. Standing
  BY <1>5 DEF Standing, StoodIsPublished, ReadAsStands, PassedIsRead, AbsentIsGone,
              StandingRowsKept, NoPull
<1>9. ReplaySound
  BY <1>5, <1>6 DEF ReplaySound
<1> QED BY <1>7, <1>8, <1>9 DEF IInv

\* Every step keeps the invariant.
LEMMA StepKeeps == IInv /\ [Next]_vars => IInv'
<1> SUFFICES ASSUME IInv, [Next]_vars PROVE IInv'
  OBVIOUS
<1>1. CASE Agency
  BY <1>1, AgencyStep
<1>2. CASE Work
  BY <1>2, OpenStep, FetchStep, FetchNothingStep, FailStep, PromoteStep, ReconcileStep,
     FinishStep, ReprocessStep DEF Work
<1>3. CASE UNCHANGED vars
  <2>1. Shaped'
    BY <1>3 DEF vars, IInv, Shaped
  <2>2. StoodIsPublished' /\ ReadAsStands' /\ PassedIsRead'
    BY <1>3 DEF vars, IInv, Standing, StoodIsPublished, ReadAsStands, PassedIsRead, PartsOf,
                Passed, Steady
  <2>3. AbsentIsGone' /\ StandingRowsKept'
    BY <1>3 DEF vars, IInv, Standing, AbsentIsGone, StandingRowsKept, SureToRead, PartsOf
  <2>4. ReplaySound'
    BY <1>3 DEF vars, IInv, ReplaySound, Agrees, Replayable, Succeeded
  <2> QED BY <2>1, <2>2, <2>3, <2>4 DEF IInv, Standing
<1> QED BY <1>1, <1>2, <1>3 DEF Next

\* The inductive invariant holds in every reachable state.
LEMMA Invariant == Spec => []IInv
BY InitHolds, StepKeeps, PTL DEF Spec

\* Every row that stood still while a pull read its portal is in silver as it
\* is published once the pull has promoted, and while it reconciles.
THEOREM StandingKept == Spec => []StandingRowsKept
BY Invariant, PTL DEF IInv, Standing

\* No pull withdraws a row it was sure to come by.
THEOREM WithdrawalsAreGone == Spec => WithdrawsOnlyGone
<1>1. ASSUME IInv, [Next]_vars, NEW id \in DOMAIN silver \ DOMAIN silver' PROVE ~SureToRead(id)
  <2>1. \A rows : DOMAIN silver \subseteq DOMAIN Upserted(rows)
    BY UpsertedIs
  <2>2. CASE Reconcile
    <3>1. silver' = Restrict(silver, DOMAIN silver \ pull.absent)
      BY <2>2 DEF Reconcile
    <3>2. id \in pull.absent
      BY <3>1 DEF Restrict
    <3> QED BY <1>1, <3>2 DEF IInv, Standing, AbsentIsGone
  <2>3. CASE Promote
    BY <2>1, <2>3 DEF Promote
  <2>4. CASE \E i \in DOMAIN bronze : Reprocess(i)
    BY <2>1, <2>4 DEF Reprocess
  <2>5. CASE UNCHANGED silver
    BY <2>5
  <2>6. Next => Reconcile \/ Promote \/ (\E i \in DOMAIN bronze : Reprocess(i)) \/ UNCHANGED silver
    BY DEF Next, Agency, Work, Move, Withdraw, Revise, Open, Fetch, FetchNothing, Fail, Finish
  <2> QED BY <1>1, <2>2, <2>3, <2>4, <2>5, <2>6 DEF vars
<1>2. IInv /\ [Next]_vars => [\A id \in DOMAIN silver \ DOMAIN silver' : ~SureToRead(id)]_vars
  BY <1>1
<1> QED BY <1>2, Invariant, PTL DEF Spec, WithdrawsOnlyGone

\* A replay of the newest pull that succeeded leaves silver alone, unless one
\* that died after promoting has been there since, or pages were read twice.
THEOREM ReplayIsIdle == Spec => ReplayChangesNothing
<1>1. ASSUME IInv, Next, pull.at = "idle", bronze' # bronze, Succeeded # {}, ~orphaned,
             Last(bronze').chunks = bronze[Max(Succeeded)].chunks,
             paged => ReadOnce(Last(bronze').chunks)
      PROVE  silver' = silver
  <2> DEFINE m == Max(Succeeded)
  <2>1. PICK i \in DOMAIN bronze : Reprocess(i)
    BY <1>1 DEF Next, Agency, Work, Move, Withdraw, Revise, Open, Fetch, FetchNothing, Fetching,
                Fail, Promote, Reconcile, Finish
  <2>2. /\ bronze \in Seq(OnRecord)
        /\ DOMAIN bronze = 1..Len(bronze) /\ Len(bronze) \in Nat
    BY <1>1, LenProperties DEF IInv, Shaped
  <2>3. m \in Succeeded /\ \A j \in Succeeded : j =< m
    <3> DEFINE n == Len(bronze)
    <3>1. /\ Succeeded \in SUBSET Int /\ Succeeded # {} /\ n \in Int
          /\ \A j \in Succeeded : j =< n
      BY <1>1, <2>2 DEF Succeeded
    <3> HIDE DEF n
    <3>2. Max(Succeeded) \in Succeeded /\ \A j \in Succeeded : j =< Max(Succeeded)
      BY <3>1, MaxIsGreatest
    <3> QED BY <3>2
  <2>4. bronze[m] \in OnRecord
        /\ bronze[i] \in OnRecord
    BY <2>2, <2>3, ElementOfSeq DEF Succeeded
  <2>5. Last(bronze').chunks = bronze[i].chunks
    <3> DEFINE P == OnRecord
               new == [bronze[i] EXCEPT !.status = "succeeded"]
    <3>1. new \in P /\ new.chunks = bronze[i].chunks
      BY <2>4 DEF OnRecord
    <3>2. bronze' = Append(bronze, new)
      BY <2>1 DEF Reprocess
    <3> HIDE DEF P, new
    <3>3. Len(bronze') = Len(bronze) + 1 /\ bronze'[Len(bronze) + 1] = new
      BY <2>2, <3>1, <3>2, AppendProperties DEF P
    <3> QED BY <3>1, <3>3 DEF Last
  <2> DEFINE chunks == bronze[i].chunks
             rows == Accepted(chunks, AsFetched(chunks))
  <2>6. bronze[m].chunks = chunks /\ Replayable(chunks) /\ chunks \in Seq(Chunk)
    BY <1>1, <2>4, <2>5 DEF Replayable, OnRecord
  <2>7. silver' = Upserted(rows)
    <3>1. silver' = Upserted(Accepted(chunks, AsNamed(chunks)))
      BY <2>1 DEF Reprocess
    <3>2. Accepted(chunks, AsNamed(chunks)) = rows
      BY <2>6, ReplayAccepts
    <3> QED BY <3>1, <3>2
  <2>8. Agrees(chunks)
    <3>1. Agrees(bronze[m].chunks)
      BY <1>1, <2>3, <2>6 DEF IInv, ReplaySound
    <3> QED BY <2>6, <3>1
  <2>9. \A r \in rows : r.id \in DOMAIN silver /\ silver[r.id] = [part |-> r.part, rev |-> r.rev]
    BY <2>8 DEF Agrees
  <2> HIDE DEF rows
  <2>10. DOMAIN Upserted(rows) = DOMAIN silver
    <3>1. \A id : id \in DOMAIN Upserted(rows) <=>
                  id \in DOMAIN silver \/ \E r \in rows : r.id = id
      BY UpsertedIs
    <3>2. \A id : id \in DOMAIN Upserted(rows) <=> id \in DOMAIN silver
      BY <2>9, <3>1
    <3> QED BY <3>2
  <2>11. ASSUME NEW id \in DOMAIN silver PROVE Upserted(rows)[id] = silver[id]
    <3>1. CASE ~\E r \in rows : r.id = id
      BY <3>1, UpsertedIs
    <3>2. ASSUME NEW r \in rows, r.id = id PROVE Upserted(rows)[id] = silver[id]
      <4>1. PICK s \in rows : s.id = id /\ Upserted(rows)[id] = [part |-> s.part, rev |-> s.rev]
        BY <3>2, UpsertedIs
      <4> QED BY <2>9, <4>1
    <3> QED BY <3>1, <3>2
  <2>12. Upserted(rows) = [id \in DOMAIN Upserted(rows) |-> Upserted(rows)[id]]
    BY UpsertedIs
  <2>13. silver = [id \in DOMAIN silver |-> silver[id]]
    BY <1>1 DEF IInv, Shaped
  <2> QED BY <2>7, <2>10, <2>11, <2>12, <2>13
<1>2. IInv /\ [Next]_vars =>
        [pull.at = "idle" /\ bronze' # bronze /\ Succeeded # {} /\ ~orphaned
           /\ Last(bronze').chunks = bronze[Max(Succeeded)].chunks
           /\ (paged => ReadOnce(Last(bronze').chunks))
         => silver' = silver]_vars
  BY <1>1
<1> QED BY <1>2, Invariant, PTL DEF Spec, ReplayChangesNothing
=============================================================================
