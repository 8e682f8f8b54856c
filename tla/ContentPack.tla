----------------------------- MODULE ContentPack -----------------------------
(***************************************************************************)
(* Content packs: which directories load_pack accepts, the indexes it      *)
(* builds, and the knowledge-base search over them.                        *)
(*                                                                         *)
(* A directory d is a record: whether pack.yaml, simulator-profile.yaml,   *)
(* scenarios/ and kb/ are there and fit their schemas (d.whole), the pack  *)
(* ids of pack.yaml and of simulator-profile.yaml (d.id, d.profile), the   *)
(* monitoring adapter, the assets, the scenario files in the order of      *)
(* their names, the articles in kb/ and the log bundles.  A scenario file keeps what is referred to:    *)
(* whether it fits the schema, its own id and pack id, its asset, the      *)
(* article its reference leads to, its bundle, its signatures, and the     *)
(* number of log lines it emits.                                           *)
(***************************************************************************)
EXTENDS Naturals, Sequences

ScenarioFiles(d) == {d.files[i] : i \in DOMAIN d.files}

ProfileFits(d) == d.whole /\ d.profile = d.id

ScenariosFit(d) ==
  /\ d.files # <<>>
  /\ \A f \in ScenarioFiles(d) : f.valid /\ f.pack = d.id /\ f.asset \in d.assets

ArticlesFit(d) == \A f \in ScenarioFiles(d) : f.article \in d.kb

BundlesFit(d) == \A f \in ScenarioFiles(d) : f.bundle \in d.logs

\* Mutant of Loadable: references to articles go unchecked.
LoadableUnchecked(d) == ProfileFits(d) /\ ScenariosFit(d) /\ BundlesFit(d)

\* load_pack; every failing check raises PackLoadError.
Loadable(d) == ProfileFits(d) /\ ScenariosFit(d) /\ ArticlesFit(d) /\ BundlesFit(d)

LastFile(d, indices) == d.files[CHOOSE i \in indices : \A j \in indices : j <= i]

\* scenarios_by_id: of two scenarios with one id the later one is kept.
ScenarioById(d, s) == LastFile(d, {i \in DOMAIN d.files : d.files[i].id = s})

\* signature_index[signature], if it is there: the later scenario's article.
Indexed(d, signature) ==
  LET known == {i \in DOMAIN d.files : signature \in d.files[i].signatures}
  IN IF known = {} THEN {} ELSE {LastFile(d, known).article}

\* Mutant of Deterministic: what the caller falls back on comes first.
DeterministicFallbackFirst(d, signature, fallback) ==
  (IF fallback # {} THEN fallback ELSE Indexed(d, signature)) \cap d.kb

\* KBIndex.search after the semantic search: the exact signature, then the
\* caller's fallback (no article or one), if it is an article of the pack.
Deterministic(d, signature, fallback) ==
  (IF Indexed(d, signature) # {} THEN Indexed(d, signature) ELSE fallback) \cap d.kb
=============================================================================
