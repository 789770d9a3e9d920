------------------------------ MODULE MCConfGen ------------------------------
EXTENDS ConfGen, LibretroCores, RetroarchRules, SwitchRules, NintendoRules, SonyRules, ArcadeRules,
        ConsoleRules, EngineRules

\* The cores of RetroArch, with one that has no options of its own.
Cores == DOMAIN CoreOptions \cup {"stella"}
CoreUnit(c) == Late(OptionsOfACore(c),
                    IF c \in DOMAIN CoreOptionsOfGuns THEN CoreOptionsOfGuns[c] ELSE {})

MCTable == [c \in Cores |-> CoreUnit(c)] @@ ("retroarch" :> RetroarchUnit)
           @@ SwitchUnits @@ NintendoUnits @@ SonyUnits @@ ArcadeUnits
           @@ ConsoleUnits @@ EngineUnits
=============================================================================
