-------------------------- MODULE MCDeviceScripts --------------------------
EXTENDS DeviceScriptsProps, TLC
CONSTANTS j1, j2
MCKindChoices ==
    {(j1 :> k[1] @@ j2 :> k[2]) : k \in {<<"grant", "revoke">>, <<"library", "library">>, <<"restart", "install">>}}
=============================================================================
