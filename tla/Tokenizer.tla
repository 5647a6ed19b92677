------------------------------- MODULE Tokenizer -------------------------------
(***************************************************************************)
(* The tokenizer (src/src/tokenizer.cpp): what a tokenizer.json must say to *)
(* be accepted, the encoding of one or two texts by added tokens and        *)
(* byte-pair merges, and decoding.                                          *)
(*                                                                          *)
(* A text is a sequence of units.  A unit stands for one byte, except "_",  *)
(* which stands for the three bytes of the word boundary U+2581; "u" and    *)
(* "v" are the two bytes of a scalar value outside the vocabulary.  A piece *)
(* is a sequence of units; the piece of a byte is one unit of its own.      *)
(* Every logic_error the code throws for a broken table is the state        *)
(* "broken".                                                                *)
(***************************************************************************)
EXTENDS Integers, Sequences, FiniteSets, SequencesExt, FiniteSetsExt

CONSTANTS
    Jobs,           \* set of [file, texts, special, more, skip]: what to encode, with or
                    \* without special tokens; ids decoded behind the encoded ones, as a
                    \* session's generated tokens are; skip_special_tokens
    Bytes,          \* the bytes in order of their value
    BytePiece,      \* byte -> the unit its piece consists of
    VocabularySize

None == 0
kUnkId == 0
kBosId == 1
kEosId == 2
kFirstByteId == 3
AddedContent == << <<"<", "k">>, <<"<", "s">>, <<"<", "/", "s">> >>

VARIABLES
    job, pc,
    tables,     \* ParsedState, once the file is accepted
    rest,       \* the text not yet scanned, of the sequence being encoded
    added,      \* the added token that ends the span, {} at the text's end
    nodes, heap, pushes,    \* of apply_encode_bpe
    ids,        \* the ids of each sequence so far
    result, decoded

vars == <<job, pc, tables, rest, added, nodes, heap, pushes, ids, result, decoded>>

--------------------------------------------------------------------------------
(* Loading.  A section other than vocabulary and merges has one accepted    *)
(* value each, which the tables then carry.                                 *)
validate_added_tokens(f) ==
    f.added = [i \in 1 .. 3 |-> [id |-> i - 1, content |-> AddedContent[i]]]
validate_normalizer(f) ==
    f.normalizer = [prepend |-> "_", pattern |-> " ", content |-> "_"]
validate_post_processor(f) ==
    /\ f.single = <<"<s>", "A">> /\ f.pair = <<"<s>", "A", "<s>", "B">>
    /\ f.specialIds = <<kBosId>>
validate_decoder(f) ==
    f.decoder = [pattern |-> "_", content |-> " ", start |-> 1, stop |-> 0]

(* vocab is a function from pieces to ids: JSON keys are unique. *)
Pieces(f) == DOMAIN f.vocab
IdsContiguous(f) ==
    /\ Cardinality(Pieces(f)) = VocabularySize
    /\ \A p \in Pieces(f) : p # <<>> /\ f.vocab[p] < VocabularySize
    /\ \A p, q \in Pieces(f) : p # q => f.vocab[p] # f.vocab[q]
PieceAt(f, p, id) == p \in Pieces(f) /\ f.vocab[p] = id
SpecialsAndBytesInPlace(f) ==
    /\ \A i \in 1 .. 3 : PieceAt(f, AddedContent[i], i - 1)
    /\ \A i \in DOMAIN Bytes : PieceAt(f, <<BytePiece[Bytes[i]]>>, kFirstByteId + i - 1)

(* Seeded fault: a merge need not have a result in the vocabulary. *)
MutOperandsOnly(f) ==
    /\ \A i \in DOMAIN f.merges :
           f.merges[i][1] \in Pieces(f) /\ f.merges[i][2] \in Pieces(f)
    /\ \A i, j \in DOMAIN f.merges : i # j => f.merges[i] # f.merges[j]

MergesClosed(f) ==
    /\ \A i \in DOMAIN f.merges :
           {f.merges[i][1], f.merges[i][2], f.merges[i][1] \o f.merges[i][2]}
               \subseteq Pieces(f)
    /\ \A i, j \in DOMAIN f.merges : i # j => f.merges[i] # f.merges[j]

parse_tokenizer(f) ==
    /\ validate_added_tokens(f) /\ validate_normalizer(f)
    /\ validate_post_processor(f) /\ validate_decoder(f)
    /\ IdsContiguous(f) /\ SpecialsAndBytesInPlace(f) /\ MergesClosed(f)

(* The accepted file, with merges as pairs of ids and pieces by id. *)
Loaded(f) ==
    LET pairs == [i \in DOMAIN f.merges |->
                      <<f.vocab[f.merges[i][1]], f.vocab[f.merges[i][2]]>>]
        joined == [i \in DOMAIN f.merges |-> f.merges[i][1] \o f.merges[i][2]]
        found == {i \in DOMAIN joined : joined[i] \in Pieces(f)}
    IN  [vocab |-> f.vocab,
         byId |-> [id \in 0 .. VocabularySize - 1 |->
                       CHOOSE p \in Pieces(f) : f.vocab[p] = id],
         rank |-> [p \in ToSet(pairs) |-> CHOOSE i \in DOMAIN pairs : pairs[i] = p],
         merged |-> [p \in {pairs[i] : i \in found} |->
                        f.vocab[joined[CHOOSE i \in found : pairs[i] = p]]],
         normalizer |-> f.normalizer, decoder |-> f.decoder, added |-> f.added,
         single |-> f.single, pair |-> f.pair, specialIds |-> f.specialIds]

--------------------------------------------------------------------------------
(* validate_encode_utf8: "u" leads a scalar that "v" continues. *)
validate_encode_utf8(text) ==
    \A i \in DOMAIN text :
        /\ text[i] = "u" => i < Len(text) /\ text[i + 1] = "v"
        /\ text[i] = "v" => i > 1 /\ text[i - 1] = "u"

encode_utf8_scalar_length(lead) == IF lead = "u" THEN 2 ELSE 1

(* Added tokens whose content starts at an offset, and the longest of them. *)
MatchesAt(text, i) ==
    {t \in ToSet(tables.added) : IsPrefix(t.content, SubSeq(text, i, Len(text)))}
Longest(M) == CHOOSE t \in M : \A u \in M : Len(u.content) <= Len(t.content)

normalize_encode_span(plain) ==
    <<tables.normalizer.prepend>> \o
        [i \in DOMAIN plain |-> IF plain[i] = tables.normalizer.pattern
                                THEN tables.normalizer.content ELSE plain[i]]

(* The ids of a normalized span before any merge: a scalar's own id, or the *)
(* ids of its bytes.                                                        *)
RECURSIVE InitialIds(_)
InitialIds(text) ==
    IF text = <<>> THEN <<>>
    ELSE LET n == encode_utf8_scalar_length(Head(text))
             scalar == SubSeq(text, 1, n)
         IN  (IF scalar \in DOMAIN tables.vocab
              THEN <<tables.vocab[scalar]>>
              ELSE [i \in 1 .. n |-> tables.vocab[<<BytePiece[scalar[i]]>>]])
             \o InitialIds(SubSeq(text, n + 1, Len(text)))

append_encode_initial_symbols(plain) ==
    LET s == InitialIds(normalize_encode_span(plain))
    IN  [i \in DOMAIN s |->
            [id |-> s[i], previous |-> i - 1, next |-> IF i < Len(s) THEN i + 1 ELSE None,
             generation |-> 0, alive |-> TRUE]]

(* queue_pair: the heap entry for two neighbours, if they merge at all. *)
QueuePair(ns, left, right) ==
    IF \/ left = None \/ right = None
       \/ ~ns[left].alive \/ ~ns[right].alive
       \/ ns[left].next # right \/ ns[right].previous # left
       \/ <<ns[left].id, ns[right].id>> \notin DOMAIN tables.rank
    THEN {}
    ELSE {[rank |-> tables.rank[<<ns[left].id, ns[right].id>>],
           left |-> left, right |-> right,
           generations |-> <<ns[left].generation, ns[right].generation>>,
           ids |-> <<ns[left].id, ns[right].id>>]}

(* BpeHeapCompare: lowest rank first, then leftmost. *)
Before(a, b) ==
    \/ a.rank < b.rank
    \/ a.rank = b.rank /\ (a.left < b.left \/ (a.left = b.left /\ a.right <= b.right))

(* Seeded fault: an entry is taken as long as both its nodes are alive. *)
MutAliveIsCurrent(e) == nodes[e.left].alive /\ nodes[e.right].alive

Current(e) ==
    /\ nodes[e.left].alive /\ nodes[e.right].alive
    /\ nodes[e.left].next = e.right /\ nodes[e.right].previous = e.left
    /\ e.generations = <<nodes[e.left].generation, nodes[e.right].generation>>
    /\ e.ids = <<nodes[e.left].id, nodes[e.right].id>>

(* The right node of an entry is folded into the left one. *)
Fold(e) ==
    LET next == nodes[e.right].next
    IN  [i \in DOMAIN nodes |->
            CASE i = e.left -> [nodes[i] EXCEPT !.id = tables.merged[e.ids], !.next = next,
                                                !.generation = @ + 1]
              [] i = e.right -> [nodes[i] EXCEPT !.alive = FALSE, !.previous = None,
                                                 !.next = None]
              [] i = next -> [nodes[i] EXCEPT !.previous = e.left]
              [] OTHER -> nodes[i]]

heap_push_limit == 3 * Len(nodes)

(* The ids met when the list is followed from its first node. *)
Broken == -1
RECURSIVE Traversal(_, _)
Traversal(i, visited) ==
    IF i = None THEN <<>>
    ELSE IF ~nodes[i].alive \/ visited >= Len(nodes) THEN <<Broken>>
    ELSE <<nodes[i].id>> \o Traversal(nodes[i].next, visited + 1)

--------------------------------------------------------------------------------
Init ==
    /\ job \in Jobs
    /\ pc = "load"
    /\ tables = <<>> /\ rest = <<>> /\ added = {}
    /\ nodes = <<>> /\ heap = {} /\ pushes = 0
    /\ ids = <<>> /\ result = <<>> /\ decoded = <<>>

bpeVars == <<nodes, heap, pushes>>

(* load_tokenizer *)
Load ==
    /\ pc = "load"
    /\ IF parse_tokenizer(job.file)
       THEN pc' = "begin" /\ tables' = Loaded(job.file)
       ELSE pc' = "rejected" /\ UNCHANGED tables
    /\ UNCHANGED <<job, rest, added, bpeVars, ids, result, decoded>>

(* encode and encode_pair check every text before they touch one. *)
Begin ==
    /\ pc = "begin"
    /\ IF \A i \in DOMAIN job.texts : validate_encode_utf8(job.texts[i])
       THEN pc' = "span" /\ ids' = << <<>> >> /\ rest' = job.texts[1]
       ELSE pc' = "invalid" /\ UNCHANGED <<ids, rest>>
    /\ UNCHANGED <<job, tables, added, bpeVars, result, decoded>>

(* Scan to the next added token or the end of the text, and prepare the     *)
(* plain span before it.                                                    *)
Span ==
    LET hits == {i \in DOMAIN rest : MatchesAt(rest, i) # {}}
        plain == IF hits = {} THEN rest ELSE SubSeq(rest, 1, Min(hits) - 1)
        token == IF hits = {} THEN {} ELSE {Longest(MatchesAt(rest, Min(hits)))}
        symbols == IF plain = <<>> THEN <<>> ELSE append_encode_initial_symbols(plain)
        entries == UNION {QueuePair(symbols, i, symbols[i].next) : i \in DOMAIN symbols}
    IN  /\ pc = "span"
        /\ added' = token
        /\ rest' = IF token = {} THEN <<>>
                   ELSE SubSeq(rest, Min(hits) + Len(Longest(token).content), Len(rest))
        /\ nodes' = symbols /\ heap' = entries /\ pushes' = Cardinality(entries)
        /\ pc' = "merge"
        /\ UNCHANGED <<job, tables, ids, result, decoded>>

(* One round of the merge loop: an entry that is no longer current is only  *)
(* dropped.                                                                 *)
Merge ==
    LET e == CHOOSE x \in heap : \A y \in heap : Before(x, y)
        ns == Fold(e)
        queued == QueuePair(ns, nodes[e.left].previous, e.left)
                    \cup QueuePair(ns, e.left, nodes[e.right].next)
    IN  /\ pc = "merge" /\ heap # {}
        /\ IF ~Current(e)
           THEN heap' = heap \ {e} /\ UNCHANGED <<pc, nodes, pushes>>
           ELSE IF e.ids \notin DOMAIN tables.merged
                   \/ pushes + Cardinality(queued) > heap_push_limit
           THEN pc' = "broken" /\ UNCHANGED bpeVars
           ELSE /\ nodes' = ns
                /\ heap' = (heap \ {e}) \cup queued
                /\ pushes' = pushes + Cardinality(queued)
                /\ UNCHANGED pc
        /\ UNCHANGED <<job, tables, rest, added, ids, result, decoded>>

(* The merged span and the token behind it are appended; the scan goes on,  *)
(* turns to the second text, or ends.                                       *)
Emit ==
    LET span == IF nodes = <<>> THEN <<>> ELSE Traversal(1, 0)
        last == Len(ids)
        sofar == [ids EXCEPT ![last] = @ \o span \o (IF added = {} THEN <<>>
                                                     ELSE <<Longest(added).id>>)]
    IN  /\ pc = "merge" /\ heap = {}
        /\ IF Broken \in ToSet(span)
           THEN pc' = "broken" /\ UNCHANGED <<ids, rest>>
           ELSE IF added # {} THEN pc' = "span" /\ ids' = sofar /\ UNCHANGED rest
           ELSE IF last < Len(job.texts)
           THEN pc' = "span" /\ ids' = Append(sofar, <<>>) /\ rest' = job.texts[last + 1]
           ELSE pc' = "assemble" /\ ids' = sofar /\ UNCHANGED rest
        /\ UNCHANGED <<job, tables, added, bpeVars, result, decoded>>

(* The template of one or of two sequences, or their plain concatenation. *)
Item(x) ==
    CASE x = "<s>" -> tables.specialIds [] x = "A" -> ids[1] [] x = "B" -> ids[2]
Assemble ==
    LET items == IF Len(ids) = 1 THEN tables.single ELSE tables.pair
    IN  /\ pc = "assemble"
        /\ result' = IF job.special
                     THEN FlattenSeq([i \in DOMAIN items |-> Item(items[i])])
                     ELSE FlattenSeq(ids)
        /\ pc' = "decode"
        /\ UNCHANGED <<job, tables, rest, added, bpeVars, ids, decoded>>

IsByte(piece) == \E b \in DOMAIN BytePiece : piece = <<BytePiece[b]>>
append_decoded_piece(piece) ==
    IF IsByte(piece) THEN <<CHOOSE b \in DOMAIN BytePiece : piece = <<BytePiece[b]>> >>
    ELSE [i \in DOMAIN piece |-> IF piece[i] = tables.decoder.pattern
                                 THEN tables.decoder.content ELSE piece[i]]
is_skipped_special_id(id) == id \in {kUnkId, kBosId, kEosId}

(* Seeded fault: every leading space is stripped. *)
RECURSIVE MutStripAll(_)
MutStripAll(text) ==
    IF text # <<>> /\ Head(text) = " " THEN MutStripAll(Tail(text)) ELSE text

strip_start(text) == IF text # <<>> /\ Head(text) = " " THEN Tail(text) ELSE text

(* decode of the encoded ids and the further ones; an id without a piece    *)
(* fails the whole call.                                                    *)
Decode ==
    LET all == result \o job.more
        kept == SelectSeq(all, LAMBDA id : ~(job.skip /\ is_skipped_special_id(id)))
        pieces == [i \in DOMAIN kept |-> append_decoded_piece(tables.byId[kept[i]])]
    IN  /\ pc = "decode"
        /\ IF \E id \in ToSet(all) : id \notin DOMAIN tables.byId
           THEN pc' = "outOfRange" /\ UNCHANGED decoded
           ELSE pc' = "done" /\ decoded' = strip_start(FlattenSeq(pieces))
        /\ UNCHANGED <<job, tables, rest, added, bpeVars, ids, result>>

Next == Load \/ Begin \/ Span \/ Merge \/ Emit \/ Assemble \/ Decode

Spec == Init /\ [][Next]_vars

--------------------------------------------------------------------------------
(* Properties. *)

(* Byte-pair encoding as it is defined: merge the leftmost of the pairs of  *)
(* lowest rank until no pair merges.                                        *)
RECURSIVE Bpe(_)
Bpe(s) ==
    LET at == {i \in 1 .. Len(s) - 1 : <<s[i], s[i + 1]>> \in DOMAIN tables.rank}
        rank(i) == tables.rank[<<s[i], s[i + 1]>>]
        i == CHOOSE i \in at : \A j \in at :
                rank(i) < rank(j) \/ (rank(i) = rank(j) /\ i <= j)
    IN  IF at = {} THEN s
        ELSE Bpe(SubSeq(s, 1, i - 1) \o <<tables.merged[<<s[i], s[i + 1]>>]>>
                   \o SubSeq(s, i + 2, Len(s)))

(* The ids of a text: added tokens are cut out from left to right, every    *)
(* plain span between them is normalized and merged on its own.             *)
RECURSIVE Reference(_)
Reference(text) ==
    LET hits == {i \in DOMAIN text : MatchesAt(text, i) # {}}
        span(s) == IF s = <<>> THEN <<>> ELSE Bpe(InitialIds(normalize_encode_span(s)))
        t == Longest(MatchesAt(text, Min(hits)))
    IN  IF hits = {} THEN span(text)
        ELSE span(SubSeq(text, 1, Min(hits) - 1)) \o <<t.id>>
               \o Reference(SubSeq(text, Min(hits) + Len(t.content), Len(text)))

(* The heap of possibly outdated entries computes byte-pair encoding: what  *)
(* encode() returns is the reference result, for every accepted table.      *)
EncodesByRank == pc = "decode" => \A i \in DOMAIN ids : ids[i] = Reference(job.texts[i])

(* While merging, every pair of neighbours that can merge has an entry that *)
(* is current, so an empty heap means that nothing is left to merge.        *)
NoPairForgotten ==
    pc = "merge" => \A i \in DOMAIN nodes :
        nodes[i].alive => QueuePair(nodes, i, nodes[i].next) \subseteq heap

(* An accepted file never reaches one of encode()'s internal errors: no     *)
(* missing merge result, no full heap, no broken list.                      *)
AcceptedNeverBreaks == pc # "broken"

(* Encoding loses nothing: without special tokens in it, a text decodes to  *)
(* itself, leading spaces and bytes outside the vocabulary included.  When  *)
(* special tokens are decoded too they appear around it, and a text behind  *)
(* one keeps the blank the normalizer put before it (strip_start looks at   *)
(* the output's first byte only).                                           *)
RoundTrip ==
    pc = "done" /\ Len(job.texts) = 1 /\ <<"_">> \in DOMAIN tables.vocab =>
        LET text == job.texts[1]
            shown(id) == IF job.skip THEN <<>> ELSE AddedContent[id + 1]
            behind == IF job.more = <<>> THEN <<>> ELSE shown(kEosId)
            plain == \A i \in DOMAIN text : text[i] # "_" /\ MatchesAt(text, i) = {}
        IN  plain /\ job.more \in {<<>>, <<kEosId>>} =>
                decoded = IF job.skip \/ ~job.special THEN text \o behind
                          ELSE shown(kBosId) \o (IF text = <<>> THEN <<>> ELSE <<" ">>)
                                 \o text \o behind

(* The four promises of the tokenizer. *)
TokenizerCorrect == EncodesByRank /\ NoPairForgotten /\ AcceptedNeverBreaks /\ RoundTrip
================================================================================
