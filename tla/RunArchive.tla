----------------------------- MODULE RunArchive -----------------------------
(***************************************************************************)
(* The archive document of a finished run, written and read back           *)
(* (cognitivetree/persistence/archive.py, the to_dict/from_dict pair of    *)
(* node.py and tree.py).  A document is a value; the file it travels in is *)
(* ServerHost's.                                                           *)
(***************************************************************************)
EXTENDS RunMetrics

(***************************************************************************)
(* round(x, 6): the nearest millionth of a number held as v / scale.       *)
(***************************************************************************)
Micro == 1000000

Millionths(v, scale) ==
  Micro * (v \div scale) + ((v % scale) * Micro + scale \div 2) \div scale

(***************************************************************************)
(* to_dict(include_metadata=True): children are nested in their parent,    *)
(* parents are not stored.                                                 *)
(***************************************************************************)
NoMetadata == [critique |-> NoCritique, attempts |-> 0, notes |-> {}]

\* Mutant: the archive is written like a UI snapshot, without metadata.
BarePayload(tree, n, below) ==
  [id |-> n, content |-> tree[n].content, status |-> tree[n].status,
   depth |-> tree[n].depth, visits |-> tree[n].visits,
   score |-> Millionths(tree[n].score, ScoreScale),
   value_sum |-> Millionths(tree[n].value_sum, ValueScale), metadata |-> NoMetadata,
   children |-> below]

NodePayload(tree, n, below) ==
  [id |-> n, content |-> tree[n].content, status |-> tree[n].status,
   depth |-> tree[n].depth, visits |-> tree[n].visits,
   score |-> Millionths(tree[n].score, ScoreScale),
   value_sum |-> Millionths(tree[n].value_sum, ValueScale), metadata |-> tree[n].metadata,
   children |-> below]

NodeDict(tree) ==
  LET payload[n \in DOMAIN tree] ==
        NodePayload(tree, n, [i \in DOMAIN tree[n].children |->
                                payload[tree[n].children[i]]])
  IN  payload[Root]

to_dict(tree) == [size |-> Cardinality(DOMAIN tree), root |-> NodeDict(tree)]

ARCHIVE_FORMAT == <<"cognitivetree-run", 1>>     \* with ARCHIVE_VERSION

result_to_archive_document(result) ==
  [format |-> ARCHIVE_FORMAT,
   outcome |-> result.outcome, iterations |-> result.iterations,
   node_count |-> result.node_count, error |-> result.error,
   best_path |-> result.best_path, tree |-> to_dict(result.tree),
   phase_history |->
     [i \in DOMAIN result.phase_history |->
        LET entry == result.phase_history[i]
        IN  [source |-> entry.transition.source, target |-> entry.transition.target,
             note |-> entry.transition.note, timestamp |-> entry.timestamp]]]

(***************************************************************************)
(* from_dict(): parents come from the nesting.  The loop takes payloads    *)
(* off the pending list, rebuilds their nodes and puts the payloads nested *)
(* in them on it; here a round takes all that are pending.  The index      *)
(* holds every node the walk from the root meets.                          *)
(***************************************************************************)
_bare_from_payload(payload, above) ==
  [parent |-> above,
   children |-> [i \in DOMAIN payload.children |-> payload.children[i].id],
   depth |-> payload.depth, content |-> payload.content, status |-> payload.status,
   score |-> payload.score, visits |-> payload.visits,
   value_sum |-> payload.value_sum, metadata |-> payload.metadata]

Nested(entry) ==
  {[data |-> entry.data.children[i], above |-> entry.data.id] :
     i \in DOMAIN entry.data.children}

Levels(payload) ==
  LET round[k \in Nat] ==
        IF k = 0 THEN {[data |-> payload, above |-> NoNode]}
                 ELSE UNION {Nested(entry) : entry \in round[k - 1]}
  IN  round

\* Bound: a document nests no deeper than the tree it was written from.
Rounds == 0..MaxDepth

from_dict(payload) ==
  LET pending == Levels(payload.root)
      entries == UNION {pending[k] : k \in Rounds}
      holder(n) == CHOOSE entry \in entries : entry.data.id = n
  IN  [n \in {entry.data.id : entry \in entries} |->
         _bare_from_payload(holder(n).data, holder(n).above)]

ArchiveFormatError == "archive format error"

archive_from_document(document) ==
  LET tree == from_dict(document.tree)
      ids  == {document.best_path[i] : i \in DOMAIN document.best_path}
  IN  IF document.format # ARCHIVE_FORMAT \/ ~(ids \subseteq DOMAIN tree)
      THEN ArchiveFormatError
      ELSE [outcome |-> document.outcome, iterations |-> document.iterations,
            node_count |-> document.node_count, error |-> document.error,
            best_path |-> document.best_path, tree |-> tree,
            phase_history |->
              [i \in DOMAIN document.phase_history |->
                 LET entry == document.phase_history[i]
                 IN  [transition |->
                        PhaseTransition(entry.source, entry.target, entry.note),
                      timestamp |-> entry.timestamp]]]

-----------------------------------------------------------------------------
(***************************************************************************)
(* An archived run reads back as the run it was: every field, the shape of *)
(* the tree and every node, with scores and value sums to the nearest      *)
(* millionth.                                                              *)
(***************************************************************************)
ArchiveFaithful ==
  LET live == LiveResult
      archived == archive_from_document(result_to_archive_document(live))
      rounded == [n \in Nodes |->
                    [live.tree[n] EXCEPT !.score = Millionths(@, ScoreScale),
                                         !.value_sum = Millionths(@, ValueScale)]]
  IN  pc = "done" =>
        archived = [live EXCEPT !.tree = rounded]
=============================================================================
