------------------------------ MODULE ModelLoading ------------------------------
(***************************************************************************)
(* Loading the model: the SafeTensors container                             *)
(* (src/src/safetensors.cpp, src/src/mmap.cpp), the configuration, the      *)
(* weight schema and the upload (src/src/model.cpp).                        *)
(*                                                                          *)
(* A shard is a record of its mapping and its header: entries name a tensor *)
(* by role and layer and give its shape, dtype and data range.  Sizes are   *)
(* counted in BF16 elements, so an F32 element counts two.  What a weight   *)
(* holds is the range of the shard it was copied from.                      *)
(***************************************************************************)
EXTENDS Integers, Sequences, FiniteSets, SequencesExt, FiniteSetsExt, Functions

CONSTANT Jobs   \* set of [config, shards, binding, scratch]

VARIABLES
    job, pc,
    payloads,   \* ModelSource: the mapped span of every published entry
    owners,     \* the destination of every entry, in inventory order
    content,    \* owner -> the span copied into it
    workspace,  \* whether the transfer workspace exists
    index       \* the entry the current loop has reached
vars == <<job, pc, payloads, owners, content, workspace, index>>

None == [shard |-> 0, begin |-> 0, end |-> 0]

--------------------------------------------------------------------------------
(* load_tinyllama_config: the fields with one accepted value, then the head *)
(* plan, which is derived and not read.                                     *)
load_tinyllama_config(c) ==
    /\ c.fields
    /\ \A f \in {"layers", "hidden", "inner", "heads", "groups", "vocab"} : c[f] > 0
    /\ c.vocab > 2      \* bos_token_id = 1 and eos_token_id = 2 are below it
    /\ c.hidden % c.heads = 0 /\ c.heads % c.groups = 0
    /\ (c.hidden \div c.heads) % 2 = 0
KvWidth(c) == c.groups * (c.hidden \div c.heads)

(* build_weight_plan: roles and the shapes the checkpoint must declare. *)
Globals(c) == << <<"token_embedding", <<c.vocab, c.hidden>> >>,
                 <<"final_norm", <<c.hidden>> >>, <<"lm_head", <<c.vocab, c.hidden>> >> >>
LayerRoles(c) ==
    << <<"input_norm", <<c.hidden>> >>, <<"post_attention_norm", <<c.hidden>> >>,
       <<"query", <<c.hidden, c.hidden>> >>,
       <<"key", <<KvWidth(c), c.hidden>> >>, <<"value", <<KvWidth(c), c.hidden>> >>,
       <<"attention_output", <<c.hidden, c.hidden>> >>,
       <<"mlp_gate", <<c.inner, c.hidden>> >>, <<"mlp_up", <<c.inner, c.hidden>> >>,
       <<"mlp_down", <<c.hidden, c.inner>> >> >>

checked_required_count(c) == 3 + 9 * c.layers

(* Seeded fault: the roles of all layers follow each other role by role. *)
MutRoleMajor(c) ==
    [i \in 1 .. checked_required_count(c) |->
        IF i <= 3 THEN [name |-> <<Globals(c)[i][1], 0>>, shape |-> Globals(c)[i][2]]
        ELSE LET r == LayerRoles(c)[1 + ((i - 4) \div c.layers)]
             IN  [name |-> <<r[1], 1 + ((i - 4) % c.layers)>>, shape |-> r[2]]]

(* The inventory: the globals, then nine roles per layer.  Layer 0 is none. *)
build_weight_plan(c) ==
    [i \in 1 .. checked_required_count(c) |->
        IF i <= 3 THEN [name |-> <<Globals(c)[i][1], 0>>, shape |-> Globals(c)[i][2]]
        ELSE LET r == LayerRoles(c)[1 + ((i - 4) % 9)]
             IN  [name |-> <<r[1], 1 + ((i - 4) \div 9)>>, shape |-> r[2]]]

(* Destinations are at least rank two: a vector becomes one row. *)
adapted_logical_shape(s) == IF Len(s) = 1 THEN <<1>> \o s ELSE s
Elements(s) == FoldLeft(LAMBDA a, b : a * b, 1, s)

--------------------------------------------------------------------------------
(* SafeTensorsFile: the entries of a header, checked one by one, then all   *)
(* of them against the data in physical order.                              *)
Width(dtype) == IF dtype = "F32" THEN 2 ELSE 1
EntryValid(e, dataSize) ==
    /\ e.fields
    /\ e.begin <= e.end /\ e.end <= dataSize
    /\ e.end - e.begin = Elements(e.shape) * Width(e.dtype)

Earlier(a, b) == a.begin < b.begin \/ (a.begin = b.begin /\ a.end < b.end)

(* Seeded fault: a range that starts before the cursor is not refused. *)
RECURSIVE MutCursor(_, _)
MutCursor(entries, cursor) ==
    IF entries = {} THEN {cursor}
    ELSE LET e == CHOOSE x \in entries : \A y \in entries : ~Earlier(y, x)
         IN  IF e.begin > cursor THEN {} ELSE MutCursor(entries \ {e}, e.end)

(* Where the ranges taken in order end, or nothing if one does not begin    *)
(* where the one before it ended.                                           *)
RECURSIVE Cursor(_, _)
Cursor(entries, cursor) ==
    IF entries = {} THEN {cursor}
    ELSE LET e == CHOOSE x \in entries : \A y \in entries : ~Earlier(y, x)
         IN  IF e.begin # cursor THEN {} ELSE Cursor(entries \ {e}, e.end)

SafeTensorsFile(shard) ==
    /\ shard.mapped /\ shard.headerFits
    /\ \A e \in shard.entries : EntryValid(e, shard.dataSize)
    /\ Cursor(shard.entries, 0) = {shard.dataSize}

(* SafeTensorsDir: every shard is valid and no key is in two of them. *)
Names(shard) == {e.name : e \in shard.entries}
SafeTensorsDir(shards) ==
    /\ \A s \in DOMAIN shards : SafeTensorsFile(shards[s])
    /\ \A s, t \in DOMAIN shards : s # t => Names(shards[s]) \cap Names(shards[t]) = {}

Stored(shards) == UNION {Names(shards[s]) : s \in DOMAIN shards}
ShardOf(shards, name) == CHOOSE s \in DOMAIN shards : name \in Names(shards[s])
View(shards, name) ==
    CHOOSE e \in shards[ShardOf(shards, name)].entries : e.name = name

--------------------------------------------------------------------------------
Plan == build_weight_plan(job.config)
Foreign == -1   \* an owner created by another Device instance
Null == 0

Init ==
    /\ job \in Jobs /\ pc = "source"
    /\ payloads = <<>> /\ owners = <<>> /\ content = <<>>
    /\ workspace = FALSE /\ index = 1

(* load_tinyllama_safetensors up to the plan; an empty store is incomplete. *)
OpenSource ==
    /\ pc = "source"
    /\ pc' = IF /\ load_tinyllama_config(job.config)
                /\ SafeTensorsDir(job.shards)
                /\ Cardinality(Stored(job.shards)) >= checked_required_count(job.config)
             THEN "select" ELSE "rejected"
    /\ UNCHANGED <<job, payloads, owners, content, workspace, index>>

(* append_selected for the next role of the plan. *)
AppendSelected ==
    LET want == Plan[index]
        e == View(job.shards, want.name)
    IN  /\ pc = "select" /\ index <= Len(Plan)
        /\ IF want.name \in Stored(job.shards) /\ e.shape = want.shape /\ e.dtype = "BF16"
           THEN /\ payloads' = Append(payloads, [shard |-> ShardOf(job.shards, want.name),
                                                 begin |-> e.begin, end |-> e.end])
                /\ index' = index + 1 /\ UNCHANGED pc
           ELSE pc' = "rejected" /\ UNCHANGED <<payloads, index>>
        /\ UNCHANGED <<job, owners, content, workspace>>

(* The source is published.  A caller of upload_weights brings destinations *)
(* of its own; load_tinyllama_model creates them.                           *)
Sourced ==
    /\ pc = "select" /\ index > Len(Plan)
    /\ IF job.binding = {} THEN pc' = "create" /\ UNCHANGED <<owners, content>>
       ELSE /\ owners' = CHOOSE b \in job.binding : TRUE
            /\ content' = [o \in {owners'[i] : i \in DOMAIN owners'} |-> None]
            /\ pc' = "bind"
    /\ index' = 1
    /\ UNCHANGED <<job, payloads, workspace>>

(* create_tensor for the next entry; a tensor is its entry's number, and    *)
(* with it the specification it was created from.                           *)
CreateOwner(ok) ==
    /\ pc = "create" /\ index <= Len(Plan)
    /\ IF ok
       THEN /\ owners' = Append(owners, index)
            /\ content' = [o \in 1 .. index |-> None]
            /\ index' = index + 1 /\ UNCHANGED pc
       ELSE pc' = "unwind" /\ UNCHANGED <<owners, content, index>>
    /\ UNCHANGED <<job, payloads, workspace>>

Created ==
    /\ pc = "create" /\ index > Len(Plan)
    /\ pc' = "bind"
    /\ UNCHANGED <<job, payloads, owners, content, workspace, index>>

SpecOf(i) == adapted_logical_shape(Plan[i].shape)

(* Seeded fault: a repeated owner is accepted. *)
MutAnyOwners ==
    /\ Len(owners) = Len(Plan)
    /\ \A i \in DOMAIN owners : owners[i] \notin {Null, Foreign} /\ SpecOf(owners[i]) = SpecOf(i)

(* Owners are compared with the published entries one by one, then checked  *)
(* to be all different.                                                     *)
validate_destination_binding ==
    /\ Len(owners) = Len(Plan)
    /\ \A i \in DOMAIN owners : owners[i] \notin {Null, Foreign} /\ SpecOf(owners[i]) = SpecOf(i)
    /\ \A i, j \in DOMAIN owners : i # j => owners[i] # owners[j]

(* The preflight; the workspace exists only behind it, and only when the    *)
(* device stages its copies.  A caller brings a workspace, valid or not.    *)
Bind(ok) ==
    /\ pc = "bind"
    /\ IF ~validate_destination_binding THEN pc' = "unwind" /\ UNCHANGED workspace
       ELSE IF job.scratch = "none" THEN pc' = "upload" /\ UNCHANGED workspace
       ELSE IF job.scratch = "needed" /\ ok
       THEN pc' = "upload" /\ workspace' = (job.binding = {})
       ELSE pc' = "unwind" /\ UNCHANGED workspace
    /\ index' = 1
    /\ UNCHANGED <<job, payloads, owners, content>>

(* One synchronous copy_from_host. *)
CopyWeight(ok) ==
    /\ pc = "upload" /\ index <= Len(owners)
    /\ IF ok
       THEN /\ content' = [content EXCEPT ![owners[index]] = payloads[index]]
            /\ index' = index + 1 /\ UNCHANGED pc
       ELSE pc' = "unwind" /\ UNCHANGED <<content, index>>
    /\ UNCHANGED <<job, payloads, owners, workspace>>

(* The only publication: the workspace goes, the owners and the source are  *)
(* retained.                                                                *)
Publish ==
    /\ pc = "upload" /\ index > Len(owners)
    /\ pc' = "published" /\ workspace' = FALSE
    /\ UNCHANGED <<job, payloads, owners, content, index>>

(* A failure: what load_tinyllama_model created is destroyed; a caller      *)
(* keeps its destinations with whatever they received.                      *)
Unwind ==
    /\ pc = "unwind" /\ pc' = "failed" /\ workspace' = FALSE
    /\ IF job.binding = {} THEN owners' = <<>> /\ content' = <<>>
       ELSE UNCHANGED <<owners, content>>
    /\ UNCHANGED <<job, payloads, index>>

Next ==
    \/ OpenSource \/ AppendSelected \/ Sourced \/ Created \/ Publish \/ Unwind
    \/ \E ok \in BOOLEAN : CreateOwner(ok) \/ Bind(ok) \/ CopyWeight(ok)

--------------------------------------------------------------------------------
(* Properties. *)

(* Every cell of a shard's data belongs to one entry of its header. *)
CellsOwnedOnce(shard) ==
    \A cell \in 0 .. shard.dataSize - 1 :
        Cardinality({e \in shard.entries : e.begin <= cell /\ cell < e.end}) = 1

(* The weight the session asks for under an index (src/src/session.cpp,     *)
(* layer_weight_index): three globals, then nine per layer.                 *)
SessionRole(c, i) ==
    IF i <= 3 THEN <<Globals(c)[i][1], 0>>
    ELSE <<LayerRoles(c)[1 + ((i - 4) % 9)][1], 1 + ((i - 4) \div 9)>>

Received(i) == i \in DOMAIN owners /\ content[owners[i]] # None

(* A destination only ever holds the bytes its name was given by the one    *)
(* header that declares it, no other weight holds any of them, and it is    *)
(* the weight the session will look for under that index.                   *)
WeightsAreTheirOwn ==
    pc \in {"upload", "published", "failed"} =>
        \A i \in DOMAIN owners : owners[i] # Null /\ Received(i) =>
            LET at == content[owners[i]]
            IN  /\ at.begin = View(job.shards, SessionRole(job.config, i)).begin
                /\ at.shard = ShardOf(job.shards, SessionRole(job.config, i))
                /\ at.end - at.begin = Elements(SpecOf(i))
                /\ CellsOwnedOnce(job.shards[at.shard])

(* A published model is complete and keeps no scratch; a failed load leaves *)
(* neither owners nor scratch behind; a refused binding is untouched.       *)
NothingHalfLoaded ==
    /\ pc = "published" => \A i \in DOMAIN Plan : Received(i)
    /\ pc \in {"published", "failed", "rejected"} => ~workspace
    /\ pc = "failed" /\ job.binding = {} => owners = <<>>
    /\ pc = "bind" => \A o \in DOMAIN content : content[o] = None

(* Both halves of what loading promises. *)
LoadsTheCheckpoint == WeightsAreTheirOwn /\ NothingHalfLoaded
================================================================================
