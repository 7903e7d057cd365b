---------------------------- MODULE MCDevSession ----------------------------
\* Two profiles: the provider, and the root that needs it and declares a service.
EXTENDS DevSession

MCOrder == <<"provider", "root">>
=============================================================================
