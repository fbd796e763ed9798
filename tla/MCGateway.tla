----------------------------- MODULE MCGateway -----------------------------
(* Two users, one key that may be revoked, an OpenAI provider and an OAuth     *)
(* provider without tools, and configurations that differ in every field.      *)
EXTENDS Gateway, TLC

CONSTANTS r1, r2, u1, u2, k1

Prov(t, a, act, key) == [type |-> t, auth |-> a, active |-> act, key |-> key]
Conf(ps, toks, own, bl, m) ==
  [providers |-> ps, userTokens |-> toks, userOwnKeys |-> own, blocked |-> bl, mask |-> m]

Full == [p \in {"p", "q"} |-> IF p = "p" THEN Prov("openai", "api_key", TRUE, TRUE)
                                        ELSE Prov("anthropic", "oauth2", TRUE, FALSE)]
Disabled == [p \in {"p", "q"} |-> IF p = "p" THEN Prov("openai", "api_key", FALSE, TRUE)
                                            ELSE Prov("anthropic", "oauth2", TRUE, FALSE)]
Keyless == [p \in {"p"} |-> Prov("openai", "api_key", TRUE, FALSE)]

Configs == {Conf(Full, {<<u1, "q">>}, {}, {}, TRUE),
            Conf(Disabled, {}, {<<u2, "openai">>}, {}, FALSE),
            Conf(Keyless, {}, {<<u2, "openai">>}, {}, TRUE),
            Conf(Full, {}, {}, {k1}, TRUE)}

In(u, k, p, f, tools, stream) ==
  [signed |-> TRUE, user |-> u, kid |-> k, provider |-> p, sound |-> TRUE,
   finding |-> f, tools |-> tools, stream |-> stream]
Inputs == {In(u1, k1, "p", "mask", FALSE, TRUE), In(u2, None, "p", None, TRUE, FALSE),
           In(u1, k1, "q", None, TRUE, FALSE), In(u1, k1, "p", "block", FALSE, FALSE),
           In(u1, k1, "q", None, FALSE, TRUE),
           [In(u1, k1, "p", None, FALSE, FALSE) EXCEPT !.signed = FALSE],
           [In(u1, k1, "p", None, FALSE, FALSE) EXCEPT !.sound = FALSE]}
Symmetry == Permutations(Request)
=============================================================================
