---------------------------- MODULE MCConversation ----------------------------
(* Model checking Conversation: a pipeline of three layers as in QUICKSTART, *)
(* with a memory layer and a budgeted, summarized conversation; and the one  *)
(* layer a turn needs, for what turns leave in the archive and the ledger.   *)
EXTENDS Conversation

Layer(resolvers, transformers, target, category, condition) ==
  [resolvers |-> resolvers, transformers |-> transformers, target |-> target,
   category |-> category, condition |-> condition, prefix |-> FALSE, budget |-> 0, threshold |-> 0]

MCLayers ==
  <<Layer(<<"static">>, <<>>, "system", "system", "none"),
    Layer(<<"memory">>, <<"memory_extraction">>, "system", "memory", "area"),
    [Layer(<<"session", "input">>, <<"summarization">>, "messages", "history", "none")
       EXCEPT !.budget = 5, !.threshold = 5]>>
MCLevels == <<{"system", "memory", "history"}, {"system", "history"}, {"system"}>>
MCAreas == {{}, {"area"}}

MCOneLayer == <<Layer(<<"session", "input">>, <<>>, "messages", "none", "none")>>
MCNoLadder == <<{"none"}>>
MCNoAreas == {{}}

(* The second word is the name of the kind of corrections. *)
MCKindWord == [correction |-> 2, constraint |-> 3]

Saying(phrase, about) == [phrase |-> phrase, about |-> about, token |-> {}]
Naming(phrase, words) == [phrase |-> phrase, about |-> words, token |-> words]
MCSays == {Saying("claim", {1}), Saying("correction", {1}), Saying("confirmation", {1}),
            Naming("correction", {2})}
MCReplies == {Saying("claim", {2})}
MCAClaim == {Saying("claim", {1})}
MCNothing == {Saying("claim", {})}
=============================================================================
