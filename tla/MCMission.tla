----------------------------- MODULE MCMission -----------------------------
(* One or a few missions, one or two Controllers: constants for TLC.        *)
EXTENDS ControllerProperties, TLC

Symmetric == Permutations(Workers) \cup Permutations(Profiles)
SymmetricMissions == Permutations(Missions)

\* MissionCore: everything but dependencies and claims by name.
AllAnswers == DispatchAnswers
CoreEnv == EnvVerbs \ {"byId", "depend"}

\* MissionGraph: a layer that answers plainly, an operator that declares edges
\* and runs missions by name.
GoodAnswers == {"ok"}
GraphEnv == {"depend", "byId"}

\* MissionLive: a layer that says anything a receipt admits but "blocked".
LiveAnswers == DispatchAnswers \ {"blocked"}
LiveEnv == {"crash", "gate"}
=============================================================================
