----------------------------- MODULE MCEventBus -----------------------------
(* Values of the constants of EventBus for model checking: a subscriber to  *)
(* everything, as the processor and the dashboard are, and one to nothing.  *)
EXTENDS EventBus

MCTopicSets == {{TopicAll}, {}}
=============================================================================
