------------------------------- MODULE ChatFormat -------------------------------
(***************************************************************************)
(* The chat formatter (src/src/chat_format.cpp): the tokenizer_config.json  *)
(* it accepts, the compilation of a chat template to affixes, and format(). *)
(*                                                                          *)
(* A template is a sequence of elements, each a character or a whole tag:   *)
(* "n" is a newline, "s" a blank, any other character element is opaque; a  *)
(* tag is an output "{{" with its terms or a block "{%" with its keyword    *)
(* and condition.  What the expression parser reads out of a tag's text is  *)
(* the tag's record; a tag it would throw on has an "other" part.           *)
(***************************************************************************)
EXTENDS Integers, Sequences, FiniteSets, SequencesExt, FiniteSetsExt

CONSTANT Requests   \* set of [config, override, messages, prompt]

Roles == {"system", "user", "assistant"}
Char(c) == [c |-> c, block |-> "", cond |-> "", terms |-> <<>>]
Block(b, cond) == [c |-> "{%", block |-> b, cond |-> cond, terms |-> <<>>]
Output(terms) == [c |-> "{{", block |-> "", cond |-> "", terms |-> terms]
Eos == "</s>"

VARIABLES request, pc, compiled, output
vars == <<request, pc, compiled, output>>

--------------------------------------------------------------------------------
(* validate_metadata: every field but the template has one accepted value;  *)
(* the template need only be a string when no override replaces it.         *)
validate_metadata(config, override) ==
    /\ config.metadata
    /\ config.template # "missing"
    /\ override = {} => config.template = "string"
selected_template(config, override) ==
    IF override = {} THEN config.source ELSE CHOOSE t \in override : TRUE

(* tokenize_template: a run of characters is one text token, a tag one of   *)
(* its own.  Comments, whitespace-control delimiters, unmatched tags, bytes *)
(* that are not UTF-8 and carriage returns are the element "bad".           *)
RECURSIVE Tokens(_, _)
Tokens(source, offset) ==
    LET tags == {i \in DOMAIN source : source[i].c \in {"{{", "{%"}}
        n == IF tags = {} THEN Len(source) ELSE Min(tags) - 1
    IN  IF source = <<>> THEN <<>>
        ELSE IF n > 0
        THEN <<[kind |-> "text", offset |-> offset, tag |-> Char(""),
                text |-> [i \in 1 .. n |-> source[i].c]]>>
               \o Tokens(SubSeq(source, n + 1, Len(source)), offset + n)
        ELSE <<[kind |-> IF Head(source).c = "{{" THEN "output" ELSE "block",
                offset |-> offset, tag |-> Head(source), text |-> <<>>]>>
               \o Tokens(Tail(source), offset + 1)

(* The text before a block loses the blanks of a line the block leads. *)
LeadsLine(token) ==
    LET breaks == {i \in DOMAIN token.text : token.text[i] = "n"}
        start == IF breaks = {} THEN 1 ELSE Max(breaks) + 1
    IN  /\ breaks # {} \/ token.offset = 0
        /\ \A i \in start .. Len(token.text) : token.text[i] = "s"
RECURSIVE DropBlanks(_)
DropBlanks(text) ==
    IF text # <<>> /\ Last(text) = "s" THEN DropBlanks(Front(text)) ELSE text
LeftStripped(ts) ==
    [i \in DOMAIN ts |->
        IF /\ ts[i].kind = "text" /\ i < Len(ts) /\ ts[i + 1].kind = "block"
           /\ LeadsLine(ts[i])
        THEN [ts[i] EXCEPT !.text = DropBlanks(@)] ELSE ts[i]]
(* The text behind a block loses one newline. *)
BlocksTrimmed(ts) ==
    [i \in DOMAIN ts |->
        IF /\ ts[i].kind = "text" /\ i > 1 /\ ts[i - 1].kind = "block"
           /\ ts[i].text # <<>> /\ Head(ts[i].text) = "n"
        THEN [ts[i] EXCEPT !.text = Tail(@)] ELSE ts[i]]
tokenize_template(source) == BlocksTrimmed(LeftStripped(Tokens(source, 0)))

--------------------------------------------------------------------------------
(* TemplateCompiler::compile.  Positions are tokens; one past the last is   *)
(* the end.                                                                 *)
first_non_text(ts, i) ==
    Min({j \in i .. Len(ts) + 1 : j = Len(ts) + 1 \/ ts[j].kind # "text"})
next_block(ts, i) ==
    Min({j \in i .. Len(ts) + 1 : j = Len(ts) + 1 \/ ts[j].kind = "block"})
IsBlock(ts, i, b) == i <= Len(ts) /\ ts[i].kind = "block" /\ ts[i].tag.block = b
is_generation_condition(ts, i) == IsBlock(ts, i, "if") /\ ts[i].tag.cond = "generation"

(* append_text_range and require_whitespace_text *)
Blank(ts, i, j) ==
    \A k \in i .. j - 1 : ts[k].kind = "text" /\ ToSet(ts[k].text) \subseteq {"n", "s"}
Text(ts, i, j) == FlattenSeq([k \in 1 .. j - i |-> ts[i + k - 1].text])

Of(t, kind) == t[1] = kind
Literals(terms) == FlattenSeq([i \in DOMAIN terms |-> IF Of(terms[i], "literal")
                                                      THEN terms[i][2] ELSE <<>>])

(* The one output tag of a branch, with blanks around it. *)
OneOutput(ts, i, j) ==
    /\ Cardinality({k \in i .. j - 1 : ts[k].kind # "text"}) = 1
    /\ ts[first_non_text(ts, i)].kind = "output"
    /\ LET o == first_non_text(ts, i) IN Blank(ts, i, o) /\ Blank(ts, o + 1, j)

(* compile_role_branch: one content term, one eos_token after it. *)
RoleBranchValid(ts, i, j) ==
    /\ OneOutput(ts, i, j)
    /\ LET terms == ts[first_non_text(ts, i)].tag.terms
           at(kind) == {k \in DOMAIN terms : Of(terms[k], kind)}
       IN  /\ terms # <<>> /\ at("other") = {}
           /\ Cardinality(at("content")) = 1 /\ Cardinality(at("eos")) = 1
           /\ Max(at("content")) < Min(at("eos"))

(* Seeded fault: text behind the output is kept with the text before it. *)
MutRoleBranch(ts, i, j) ==
    LET o == first_non_text(ts, i)
        terms == ts[o].tag.terms
        c == CHOOSE k \in DOMAIN terms : Of(terms[k], "content")
        e == CHOOSE k \in DOMAIN terms : Of(terms[k], "eos")
    IN  [before |-> Text(ts, i, o) \o Text(ts, o + 1, j)
                      \o Literals(SubSeq(terms, 1, c - 1)),
         after |-> Literals(SubSeq(terms, c, e)) \o <<Eos>>
                     \o Literals(SubSeq(terms, e, Len(terms)))]

compile_role_branch(ts, i, j) ==
    LET o == first_non_text(ts, i)
        terms == ts[o].tag.terms
        c == CHOOSE k \in DOMAIN terms : Of(terms[k], "content")
        e == CHOOSE k \in DOMAIN terms : Of(terms[k], "eos")
    IN  [before |-> Text(ts, i, o) \o Literals(SubSeq(terms, 1, c - 1)),
         after |-> Literals(SubSeq(terms, c, e)) \o <<Eos>>
                     \o Literals(SubSeq(terms, e, Len(terms))) \o Text(ts, o + 1, j)]

GenerationBranchValid(ts, i, j) ==
    /\ OneOutput(ts, i, j)
    /\ LET terms == ts[first_non_text(ts, i)].tag.terms
       IN  terms # <<>> /\ \A k \in DOMAIN terms : Of(terms[k], "literal")
compile_generation_branch(ts, i, j) ==
    LET o == first_non_text(ts, i)
    IN  Text(ts, i, o) \o Literals(ts[o].tag.terms) \o Text(ts, o + 1, j)

(* The branches of the role switch that starts at r: where each begins.     *)
Branches(ts, r) ==
    LET b2 == next_block(ts, r + 1)
        b3 == next_block(ts, b2 + 1)
        end == next_block(ts, b3 + 1)
    IN  <<r, b2, b3, end>>
RoleSwitchValid(ts, r) ==
    LET b == Branches(ts, r)
    IN  /\ IsBlock(ts, r, "if")
        /\ RoleBranchValid(ts, r + 1, b[2]) /\ IsBlock(ts, b[2], "elif")
        /\ RoleBranchValid(ts, b[2] + 1, b[3]) /\ IsBlock(ts, b[3], "elif")
        /\ RoleBranchValid(ts, b[3] + 1, b[4]) /\ IsBlock(ts, b[4], "endif")
        /\ {ts[b[k]].tag.cond : k \in 1 .. 3} = Roles
compile_roles(ts, r, loopPrefix) ==
    LET b == Branches(ts, r)
        slot(role) == CHOOSE k \in 1 .. 3 : ts[b[k]].tag.cond = role
        affix(k) == compile_role_branch(ts, b[k] + 1, b[k + 1])
    IN  [role \in Roles |-> [affix(slot(role)) EXCEPT !.before = loopPrefix \o @]]

(* An if block on the generation prompt at g, up to its endif. *)
GenerationValid(ts, g) ==
    /\ GenerationBranchValid(ts, g + 1, next_block(ts, g + 1))
    /\ IsBlock(ts, next_block(ts, g + 1), "endif")

Rejected == [ok |-> FALSE]
compile(ts) ==
    LET for == first_non_text(ts, 1)
        role == first_non_text(ts, for + 1)
        behind == Branches(ts, role)[4] + 1
        gen == first_non_text(ts, behind)
        inside == is_generation_condition(ts, gen)
        tail == IF inside THEN next_block(ts, gen + 1) + 1 ELSE behind
        endfor == first_non_text(ts, tail)
        last == first_non_text(ts, endfor + 1)
        outside == ~inside /\ last <= Len(ts)
        rest == IF outside THEN next_block(ts, last + 1) + 1 ELSE endfor + 1
    IN  IF /\ IsBlock(ts, for, "for") /\ Blank(ts, 1, for)
           /\ IsBlock(ts, role, "if") /\ ~is_generation_condition(ts, role)
           /\ Blank(ts, for + 1, role) /\ RoleSwitchValid(ts, role)
           /\ inside => Blank(ts, behind, gen) /\ GenerationValid(ts, gen)
           /\ IsBlock(ts, endfor, "endfor") /\ Blank(ts, tail, endfor)
           /\ outside => /\ is_generation_condition(ts, last)
                         /\ Blank(ts, endfor + 1, last) /\ GenerationValid(ts, last)
           /\ Blank(ts, rest, Len(ts) + 1)
        THEN [ok |-> TRUE,
              prefix |-> Text(ts, 1, for),
              roles |-> compile_roles(ts, role, Text(ts, for + 1, role)),
              inside |-> inside,
              generation |-> IF ~inside /\ ~outside THEN <<>>
                             ELSE LET g == IF inside THEN gen ELSE last
                                  IN  compile_generation_branch(ts, g + 1, next_block(ts, g + 1)),
              tail |-> IF inside THEN Text(ts, behind, gen) ELSE Text(ts, behind, endfor),
              tailAfter |-> IF inside THEN Text(ts, tail, endfor) ELSE <<>>,
              postLoop |-> IF outside THEN Text(ts, endfor + 1, last) ELSE <<>>,
              suffix |-> Text(ts, rest, Len(ts) + 1)]
        ELSE Rejected

--------------------------------------------------------------------------------
Init == request \in Requests /\ pc = "load" /\ compiled = Rejected /\ output = <<>>

(* load_chat_formatter *)
Load ==
    LET source == selected_template(request.config, request.override)
        c == IF \E i \in DOMAIN source : source[i].c = "bad" THEN Rejected
             ELSE compile(tokenize_template(source))
    IN  /\ pc = "load"
        /\ IF validate_metadata(request.config, request.override) /\ c.ok
           THEN pc' = "format" /\ compiled' = c
           ELSE pc' = "rejected" /\ UNCHANGED compiled
        /\ UNCHANGED <<request, output>>

(* What one message contributes. *)
Iteration(i) ==
    LET m == request.messages[i]
        affix == compiled.roles[m.role]
    IN  affix.before \o m.content \o affix.after \o compiled.tail
          \o (IF compiled.inside /\ request.prompt /\ i = Len(request.messages)
              THEN compiled.generation ELSE <<>>)
          \o compiled.tailAfter

(* format(): roles are checked while the size is summed, contents before    *)
(* anything is written.                                                     *)
Format ==
    LET ms == request.messages
    IN  /\ pc = "format"
        /\ IF \E i \in DOMAIN ms : ms[i].role \notin Roles \/ "bad" \in ToSet(ms[i].content)
           THEN pc' = "refused" /\ UNCHANGED output
           ELSE /\ pc' = "done"
                /\ output' =
                     IF ms = <<>> THEN <<>>
                     ELSE compiled.prefix
                            \o FlattenSeq([i \in DOMAIN ms |-> Iteration(i)])
                            \o compiled.postLoop
                            \o (IF request.prompt /\ ~compiled.inside
                                THEN compiled.generation ELSE <<>>)
                            \o compiled.suffix
        /\ UNCHANGED <<request, compiled>>

Next == Load \/ Format
Spec == Init /\ [][Next]_vars

--------------------------------------------------------------------------------
(* Properties. *)

(* The same template read as the template contract of the repository says   *)
(* and its tests say (docs/BACKEND_CONTRACT/tokenizer-and-prompt-           *)
(* boundary.md, test_chat_format.cpp), not as Jinja itself would: which     *)
(* characters stay, and what every tag then does.  One newline behind a     *)
(* block and the blanks of a line before one go, everything else stays, the *)
(* newline at the end included; behind the loop loop.last is true.          *)
IsTag(e) == e.c \in {"{{", "{%"}
BlankBefore(src, i) ==   \* from the start of its line to i only blanks
    \E j \in 0 .. i - 1 : /\ j = 0 \/ src[j].c = "n"
                          /\ \A k \in j + 1 .. i - 1 : src[k].c = "s"
Stripped(src, i) ==
    \/ /\ src[i].c = "s" /\ BlankBefore(src, i)
       /\ \E b \in i + 1 .. Len(src) : /\ src[b].c = "{%"
                                       /\ \A k \in i + 1 .. b - 1 : src[k].c = "s"
    \/ src[i].c = "n" /\ i > 1 /\ src[i - 1].c = "{%"
Kept(src) == SelectSeq([i \in DOMAIN src |-> [e |-> src[i], at |-> i]],
                       LAMBDA x : ~Stripped(src, x.at))

(* The tag that closes or continues the if at i, loops and ifs do not nest  *)
(* deeper in an accepted template.                                          *)
NextTag(es, i) == Min({j \in i + 1 .. Len(es) : es[j].e.c = "{%"})
RECURSIVE Closing(_, _)
Closing(es, i) == LET j == NextTag(es, i)
                  IN  IF es[j].e.block = "endif" THEN j ELSE Closing(es, j)
Holds(cond, m, last) ==
    IF cond = "generation" THEN last /\ request.prompt ELSE m.role = cond
Evaluated(terms, m) ==
    FlattenSeq([i \in DOMAIN terms |->
        CASE Of(terms[i], "literal") -> terms[i][2]
          [] Of(terms[i], "content") -> m.content
          [] Of(terms[i], "eos") -> <<Eos>>])

(* The output of the elements from i up to j. *)
RECURSIVE Interpret(_, _, _, _, _)
Interpret(es, i, j, m, last) ==
    IF i >= j THEN <<>>
    ELSE LET e == es[i].e
             n == NextTag(es, i)
         IN  CASE e.c = "{{" -> Evaluated(e.terms, m) \o Interpret(es, i + 1, j, m, last)
               [] e.c # "{{" /\ e.c # "{%" -> <<e.c>> \o Interpret(es, i + 1, j, m, last)
               [] e.c = "{%" /\ e.block = "endif" -> Interpret(es, i + 1, j, m, last)
               [] e.c = "{%" /\ e.block # "endif" ->
                    IF Holds(e.cond, m, last)
                    THEN Interpret(es, i + 1, n, m, last)
                           \o Interpret(es, Closing(es, i) + 1, j, m, last)
                    ELSE Interpret(es, n, j, m, last)

Interpretation(src) ==
    LET es == Kept(src)
        for == CHOOSE i \in DOMAIN es : es[i].e.block = "for"
        endfor == CHOOSE i \in DOMAIN es : es[i].e.block = "endfor"
        ms == request.messages
        none == [role |-> "", content |-> <<>>]
    IN  Interpret(es, 1, for, none, FALSE)
          \o FlattenSeq([i \in DOMAIN ms |->
                 Interpret(es, for + 1, endfor, ms[i], i = Len(ms))])
          \o Interpret(es, endfor + 1, Len(es) + 1, none, TRUE)

(* Compiling a template to affixes and formatting with them is running the  *)
(* template: for every accepted template and every list of messages.        *)
FormatRunsTheTemplate ==
    pc = "done" /\ request.messages # <<>> =>
        output = Interpretation(selected_template(request.config, request.override))
================================================================================
