----------------------------- MODULE MCLifespan -----------------------------
(* A small instance of Lifespan for TLC. *)
EXTENDS Lifespan, TLC

CONSTANTS q1

MCVars == {"AUTH_MODE", "AUTH_JWT_SECRET", "AUTH_OIDC_JWKS_URL", "RATE_LIMIT_BACKEND", "HF_TOKEN"}
MCValues == {"", Blank, "dev", "hs256", "oidc", "redis", "memory", "other", "secret", "token"}

MCDefault == [v \in MCVars |-> CASE v = "AUTH_MODE" -> "dev"
                                 [] v = "RATE_LIMIT_BACKEND" -> "redis"
                                 [] OTHER -> ""]

Unset == [v \in MCVars |-> Absent]

\* A laptop sets everything in .env, a container in its environment.
Settings ==
    {Unset,
     "AUTH_MODE" :> "hs256" @@ "AUTH_JWT_SECRET" :> "secret" @@ "HF_TOKEN" :> "token" @@ Unset,
     "AUTH_MODE" :> "hs256" @@ "AUTH_JWT_SECRET" :> "" @@ "RATE_LIMIT_BACKEND" :> "memory" @@ Unset,
     "AUTH_MODE" :> "oidc" @@ "HF_TOKEN" :> "token" @@ Unset,
     "AUTH_OIDC_JWKS_URL" :> "other" @@ "RATE_LIMIT_BACKEND" :> "memory" @@ Unset,
     "HF_TOKEN" :> Blank @@ Unset,
     "HF_TOKEN" :> "" @@ Unset,
     "HF_TOKEN" :> "token" @@ "RATE_LIMIT_BACKEND" :> "other" @@ Unset}

R(url, key) == [name |-> "chat", base_url |-> url, key |-> key]

Registries ==
    {Absent, [refs |-> {}, routes |-> {}], [refs |-> {}, routes |-> {R("broken", Absent)}],
     [refs |-> {"HF_TOKEN"}, routes |-> {R("url", "HF_TOKEN")}],
     \* the comment above a route without a key mentions ${HF_TOKEN}
     [refs |-> {"HF_TOKEN"}, routes |-> {R("url", Absent)}]}

MCDeployments == [env: Settings, dotenv: Settings, registry: Registries]

=============================================================================
