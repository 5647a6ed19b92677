------------------------------- MODULE MCContent -------------------------------
(***************************************************************************)
(* The content of a model directory on its way into the session and back    *)
(* out: tokenizer, chat format, weights and the choice of the next token.   *)
(* The four share no state; a behaviour exercises one of them.              *)
(***************************************************************************)
EXTENDS TokenSelection, SequencesExt

VARIABLES
    part,
    job, tokPc, tables, rest, added, nodes, heap, pushes, ids, result, decoded,
    request, chatPc, compiled, output,
    load, loadPc, payloads, owners, content, workspace, index

tokVars == <<job, tokPc, tables, rest, added, nodes, heap, pushes, ids, result, decoded>>
chatVars == <<request, chatPc, compiled, output>>
loadVars == <<load, loadPc, payloads, owners, content, workspace, index>>
contentVars == <<part, tokVars, chatVars, loadVars, vars>>

--------------------------------------------------------------------------------
(* The tokenizer: every order of three of eight overlapping merges on three *)
(* texts; one table on every text of up to three units, with added tokens,  *)
(* blanks and bytes outside the vocabulary, and on four longer ones; short  *)
(* and longer texts decoded with and without special tokens, followed by an *)
(* end of sequence or by an id without a piece; two texts; defective files. *)
Added == << <<"<", "k">>, <<"<", "s">>, <<"<", "/", "s">> >>
Bytes == <<"a", "b", " ", "_", "u", "v", "<", "s", "/", "k">>
BytePiece == [b \in ToSet(Bytes) |-> "0x" \o b]
Words == << <<"_">>, <<"a">>, <<"b">>, <<"<">>, <<"_", "a">>, <<"a", "a">>, <<"a", "b">>,
            <<"_", "a", "a">>, <<"a", "a", "b">>, <<"b", "a">> >>
AllPieces == Added \o [i \in DOMAIN Bytes |-> <<BytePiece[Bytes[i]]>>] \o Words
Vocabulary == [p \in ToSet(AllPieces) |-> (CHOOSE i \in DOMAIN AllPieces : AllPieces[i] = p) - 1]

File(vocab, merges) ==
    [added |-> [i \in 1 .. 3 |-> [id |-> i - 1, content |-> Added[i]]],
     normalizer |-> [prepend |-> "_", pattern |-> " ", content |-> "_"],
     single |-> <<"<s>", "A">>, pair |-> <<"<s>", "A", "<s>", "B">>, specialIds |-> <<1>>,
     decoder |-> [pattern |-> "_", content |-> " ", start |-> 1, stop |-> 0],
     vocab |-> vocab, merges |-> merges]
Pair(a, b) == <<a, b>>
Pairs == { Pair(<<"a">>, <<"a">>), Pair(<<"_">>, <<"a">>), Pair(<<"a">>, <<"b">>),
           Pair(<<"a", "a">>, <<"b">>), Pair(<<"a">>, <<"a", "b">>),
           Pair(<<"_", "a">>, <<"a">>), Pair(<<"_">>, <<"a", "a">>), Pair(<<"b">>, <<"a">>) }
Orders == {l \in [1 .. 3 -> Pairs] : \A i, j \in 1 .. 3 : i # j => l[i] # l[j]}
Plain == { <<"a", "a", "b", "a", "a">>, <<" ", "a", "a", "a">>, <<"a", "b", "a", "b">> }
Rich == UNION {[1 .. n -> {"a", "<", "s", "u", "v", " "}] : n \in 0 .. 3}
          \cup { <<"a", "<", "/", "s", " ", "a">>, <<"<", "<", "s", "<", "s", "a">>,
                 <<" ", " ", "u", "v", "a">>, <<"a", "u", "v", "b", "_">> }
Table == <<Pair(<<"a">>, <<"a">>), Pair(<<"_">>, <<"a">>), Pair(<<"_", "a">>, <<"a">>)>>
Good == File(Vocabulary, Table)
Defective ==
    { [Good EXCEPT !.merges = Append(@, Pair(<<"b">>, <<"b">>))],
      [Good EXCEPT !.merges = Append(@, @[1])],
      [Good EXCEPT !.merges = <<Pair(<<"c">>, <<"a">>)>>],
      [Good EXCEPT !.vocab = [@ EXCEPT ![<<"a">>] = 0]],
      [Good EXCEPT !.vocab = [@ EXCEPT ![<<"<", "s">>] = 2, ![<<"<", "/", "s">>] = 1]],
      [Good EXCEPT !.vocab = [@ EXCEPT ![<<"_">>] = 3, ![<<BytePiece["a"]>>] = 13]],
      [Good EXCEPT !.normalizer.prepend = " "], [Good EXCEPT !.decoder.start = 0],
      [Good EXCEPT !.single = <<"A">>], [Good EXCEPT !.added = Tail(@)] }
Encode(f, ts, sp) == [file |-> f, texts |-> ts, special |-> sp, more |-> <<>>, skip |-> TRUE]
TokenizerJobs ==
    {Encode(File(Vocabulary, l), <<t>>, TRUE) : l \in Orders, t \in Plain}
      \cup {Encode(Good, <<t>>, TRUE) : t \in Rich}
      \cup {Encode(Good, <<t, u>>, sp) : t, u \in Plain, sp \in BOOLEAN}
      \cup {[Encode(Good, <<t>>, sp) EXCEPT !.more = m, !.skip = sk] :
                t \in Plain \cup {r \in Rich : Len(r) # 3}, sp \in BOOLEAN,
                m \in { <<>>, <<2>>, <<23>> }, sk \in BOOLEAN}
      \cup {Encode(f, << <<"b", "b", "a">> >>, FALSE) : f \in Defective}

(* Chat templates: two of ten places hold blanks, newlines or other text,   *)
(* with the generation prompt inside the loop, behind it or nowhere; and    *)
(* templates the compiler must refuse.                                      *)
Char(c) == [c |-> c, block |-> "", cond |-> "", terms |-> <<>>]
Block(b, cond) == [c |-> "{%", block |-> b, cond |-> cond, terms |-> <<>>]
Output(terms) == [c |-> "{{", block |-> "", cond |-> "", terms |-> terms]
Says(r) == Output(<< <<"literal", <<r, "n">> >>, <<"content", <<>> >>,
                     <<"literal", <<"n">> >>, <<"eos", <<>> >>, <<"literal", <<"n">> >> >>)
Prompts == Output(<< <<"literal", <<"g">> >>, <<"literal", <<"n">> >> >>)
Chars(s) == [i \in DOMAIN s |-> Char(s[i])]
Prompt(s) == <<Block("if", "generation")>> \o Chars(s[6]) \o <<Prompts>> \o Chars(s[7])
               \o <<Block("endif", "")>>
Template(s, where, says, last) ==
    Chars(s[1]) \o <<Block("for", "")>> \o Chars(s[2])
      \o <<Block("if", "user")>> \o Chars(s[3]) \o <<says>> \o Chars(s[4])
      \o <<Block("elif", "system"), Says("S"), Block("elif", last), Says("A"),
           Block("endif", "")>>
      \o Chars(s[5]) \o (IF where = "inside" THEN Prompt(s) ELSE <<>>)
      \o Chars(s[8]) \o <<Block("endfor", "")>>
      \o Chars(s[9]) \o (IF where = "behind" THEN Prompt(s) ELSE <<>>) \o Chars(s[10])
Gaps == { <<"n">>, <<"s">>, <<"n", "s">>, <<"s", "n", "n", "s">>, <<"x">> }
Filled == {[i \in 1 .. 10 |-> IF i = p[1] THEN p[2] ELSE IF i = q[1] THEN q[2] ELSE <<>>] :
             p \in (1 .. 10) \X Gaps, q \in (1 .. 10) \X { <<"n">>, <<"n", "s">> }}
Empty == [i \in 1 .. 10 |-> <<>>]
Term(k) == <<k, <<>> >>
Refused ==
    {Template(Empty, "inside", Output(ts), "assistant") :
        ts \in { <<>>, <<Term("content")>>, <<Term("eos"), Term("content")>>,
                 <<Term("content"), Term("content"), Term("eos")>>, <<Term("other")>> }}
      \cup {Template(Empty, "inside", Block("if", "user"), "assistant"),
            Template(Empty, "inside", Says("U"), "user"),
            Template(Empty, "nowhere", Says("U"), "other"),
            Template([Empty EXCEPT ![2] = <<"bad">>], "nowhere", Says("U"), "assistant")}
Config(t) == [metadata |-> TRUE, template |-> "string", source |-> t]
Say(r, c) == [role |-> r, content |-> <<c>>]
Dialogues == { <<Say("user", "c")>>, <<Say("user", "c"), Say("assistant", "d")>> }
Ask(config, override, ms, p) ==
    [config |-> config, override |-> override, messages |-> ms, prompt |-> p]
Standard == Template(Empty, "inside", Says("U"), "assistant")
ChatRequests ==
    {Ask(Config(Template(s, w, Says("U"), "assistant")), {}, ms, TRUE) :
        s \in Filled, w \in {"inside", "behind", "nowhere"}, ms \in Dialogues}
      \cup {Ask(Config(t), {}, CHOOSE d \in Dialogues : TRUE, FALSE) : t \in Refused}
      \cup {Ask([Config(<<>>) EXCEPT !.template = t, !.metadata = m], o, ms, FALSE) :
              t \in {"string", "other", "missing"}, m \in BOOLEAN, o \in {{}, {Standard}},
              ms \in { <<>>, <<Say("system", "c")>>, <<Say("tool", "c")>>,
                       <<Say("user", "bad")>> }}

(* Checkpoints of one and two layers in one or two shards, their tensors    *)
(* in canonical or reversed physical order, whole or with one defect.       *)
Loading == INSTANCE ModelLoading WITH Jobs <- {}, job <- load, pc <- loadPc
Small == [fields |-> TRUE, layers |-> 1, hidden |-> 4, inner |-> 3, heads |-> 2, groups |-> 1,
          vocab |-> 3]
Entry(w, at, dtype) ==
    [name |-> w.name, shape |-> w.shape, dtype |-> dtype, fields |-> TRUE, begin |-> at,
     end |-> at + Loading!Elements(w.shape) * Loading!Width(dtype)]
RECURSIVE Laid(_, _)
Laid(ws, at) == IF ws = <<>> THEN {}
                ELSE LET e == Entry(Head(ws), at, "BF16") IN {e} \cup Laid(Tail(ws), e.end)
Shard(ws) ==
    LET es == Laid(ws, 0)
    IN  [mapped |-> TRUE, headerFits |-> TRUE, entries |-> es,
         dataSize |-> IF es = {} THEN 0 ELSE CHOOSE n \in {e.end : e \in es} :
                                                 \A e \in es : e.end <= n]
Split(ws, k) == <<Shard(SubSeq(ws, 1, k)), Shard(Reverse(SubSeq(ws, k + 1, Len(ws))))>>
Whole(c) == Loading!build_weight_plan(c)
Checkpoint(c, shards) ==
    [config |-> c, shards |-> shards, binding |-> {}, scratch |-> "needed"]
TwoLayers == [Small EXCEPT !.layers = 2]
One == Split(Whole(Small), 5)
Defects ==
    LET s == One[1]
        e == CHOOSE x \in s.entries : x.begin = 12 \* final_norm, [12, 16)
        without == s.entries \ {e}
        put(x) == [One EXCEPT ![1].entries = without \cup {x}]
    IN  { put([e EXCEPT !.dtype = "F32"]), put([e EXCEPT !.shape = <<3>>, !.end = 15]),
          put([e EXCEPT !.fields = FALSE]), put([e EXCEPT !.name = <<"other", 0>>]),
          put([e EXCEPT !.begin = 8, !.end = 12]), [One EXCEPT ![1].entries = without],
          [One EXCEPT ![1].dataSize = @ + 1], [One EXCEPT ![2].headerFits = FALSE],
          [One EXCEPT ![2].mapped = FALSE], Append(One, Shard(<<Whole(Small)[2]>>)),
          [One EXCEPT ![1].entries = @ \cup {[e EXCEPT !.name = <<"more", 0>>]}], <<>>,
          put([e EXCEPT !.shape = <<1, 4>>]) }
Odd == {[Small EXCEPT !.hidden = 6], [Small EXCEPT !.heads = 3], [Small EXCEPT !.groups = 4],
        [Small EXCEPT !.vocab = 2], [Small EXCEPT !.fields = FALSE], [Small EXCEPT !.layers = 0]}
Identity == [i \in 1 .. 12 |-> i]
Bindings == { Identity, Tail(Identity), [Identity EXCEPT ![4] = 5], [Identity EXCEPT ![4] = 5, ![5] = 4],
              [Identity EXCEPT ![6] = 9], [Identity EXCEPT ![12] = 0], [Identity EXCEPT ![1] = -1],
              [Identity EXCEPT ![6] = 7] }
LoadJobs ==
    {Checkpoint(Small, Split(Whole(Small), k)) : k \in 0 .. 12}
      \cup {[Checkpoint(TwoLayers, Split(Whole(TwoLayers), k)) EXCEPT !.scratch = "none"] :
              k \in {4, 13}}
      \cup {Checkpoint(Small, d) : d \in Defects} \cup {Checkpoint(c, One) : c \in Odd}
      \cup {[Checkpoint(Small, One) EXCEPT !.binding = {b}, !.scratch = w] :
              b \in Bindings, w \in {"none", "needed"}}

(* Four logits of either sign, with ties, both zeros and one nonfinite. *)
SmallLogits == [negative : BOOLEAN, magnitude : {0, 1, 2}]
                    \cup {[negative |-> FALSE, magnitude |-> 9]}
SmallRows == [1 .. 3 -> SmallLogits]
View == [bf16 |-> TRUE, row |-> TRUE, width |-> 3, owned |-> TRUE, onDevice |-> TRUE,
         staged |-> TRUE]
Room == [size |-> 6, allocated |-> TRUE, overlaps |-> FALSE]
Select(v, n, p, h, s) ==
    [view |-> v, vocabulary |-> n, producer |-> p, host |-> h, scratch |-> s]
SelectCalls ==
    { Select(View, 3, TRUE, Room, TRUE), Select([View EXCEPT !.staged = FALSE], 3, TRUE, Room, FALSE),
      Select(View, 3, TRUE, Room, FALSE), Select(View, 2, TRUE, Room, TRUE),
      Select([View EXCEPT !.onDevice = FALSE], 3, TRUE, Room, TRUE),
      Select(View, 3, FALSE, Room, TRUE), Select(View, 3, TRUE, [Room EXCEPT !.size = 5], TRUE),
      Select(View, 3, TRUE, [Room EXCEPT !.overlaps = TRUE], TRUE) }

--------------------------------------------------------------------------------
T == INSTANCE Tokenizer WITH Jobs <- TokenizerJobs, VocabularySize <- 23, pc <- tokPc
C == INSTANCE ChatFormat WITH Requests <- ChatRequests, pc <- chatPc
L == INSTANCE ModelLoading WITH Jobs <- LoadJobs, job <- load, pc <- loadPc

TokUnused ==
    /\ job = <<>> /\ tokPc = <<>> /\ tables = <<>> /\ rest = <<>> /\ added = <<>>
    /\ nodes = <<>> /\ heap = <<>> /\ pushes = <<>> /\ ids = <<>> /\ result = <<>>
    /\ decoded = <<>>
ChatUnused ==
    /\ request = <<>> /\ chatPc = <<>> /\ compiled = <<>> /\ output = <<>>
LoadUnused ==
    /\ load = <<>> /\ loadPc = <<>> /\ payloads = <<>> /\ owners = <<>> /\ content = <<>>
    /\ workspace = <<>> /\ index = <<>>
SelectionUnused ==
    /\ call = <<>> /\ pc = "unused" /\ writing = 0 /\ logits = <<>> /\ stored = <<>>
    /\ host = <<>> /\ winner = 0

ContentInit ==
    \/ part = "tokenizer" /\ T!Init /\ ChatUnused /\ LoadUnused /\ SelectionUnused
    \/ part = "chat" /\ C!Init /\ TokUnused /\ LoadUnused /\ SelectionUnused
    \/ part = "loading" /\ L!Init /\ TokUnused /\ ChatUnused /\ SelectionUnused
    \/ part = "selection" /\ Init /\ TokUnused /\ ChatUnused /\ LoadUnused

ContentNext ==
    \/ part = "tokenizer" /\ T!Next /\ UNCHANGED <<part, chatVars, loadVars, vars>>
    \/ part = "chat" /\ C!Next /\ UNCHANGED <<part, tokVars, loadVars, vars>>
    \/ part = "loading" /\ L!Next /\ UNCHANGED <<part, tokVars, chatVars, vars>>
    \/ part = "selection" /\ Next /\ UNCHANGED <<part, tokVars, chatVars, loadVars>>

ContentSpec == ContentInit /\ [][ContentNext]_contentVars

(* The heap of the tokenizer computes byte-pair encoding for every table it *)
(* accepts, and no accepted table leads it into an internal error.          *)
EncodesByRank == part = "tokenizer" => T!EncodesByRank /\ T!NoPairForgotten /\ T!AcceptedNeverBreaks

(* A text without special tokens decodes to itself. *)
RoundTrip == part = "tokenizer" => T!RoundTrip

(* Formatting with the compiled affixes is running the template. *)
FormatRunsTheTemplate == part = "chat" => C!FormatRunsTheTemplate

(* A model holds its own weights, all of them, or does not exist. *)
LoadsTheCheckpoint == part = "loading" => L!LoadsTheCheckpoint
================================================================================
