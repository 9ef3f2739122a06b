---------------------------- MODULE MCDataPlane ----------------------------
(* A small instance of DataPlane for TLC. *)
EXTENDS DataPlane, TLC

CONSTANTS k1, k2, b1, r1, r2, r3

MCOwner == k1 :> "alice" @@ k2 :> "bob"

\* Two public names of one vLLM model, and a model elsewhere.
MCRoutes == "chat" :> [kind |-> "vllm", base_url |-> "gpu", upstream_model |-> "m"]
            @@ "chat-long" :> [kind |-> "vllm", base_url |-> "gpu", upstream_model |-> "m"]
            @@ "hosted" :> [kind |-> "openai", base_url |-> "api", upstream_model |-> "m"]

\* Anybody may send the salt of alice.
MCOwn == {Salt("alice")}

B(model, salt) == [model |-> model, prompt |-> "p", stream |-> TRUE, usage |-> FALSE,
                   cache_salt |-> salt]

MCBodies == {B("chat", None), B("chat-long", Salt("alice")), B("hosted", Salt("alice")),
             B("unknown", None)}

Symmetry == Permutations({r1, r2, r3})

=============================================================================
