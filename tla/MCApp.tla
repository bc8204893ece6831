------------------------------- MODULE MCApp -------------------------------
(* Model-checking instance of AppLifecycle. *)
EXTENDS AppLifecycle

\* One setting wrong at a time, next to its bounds, and settings that are odd but pass.
OneOdd ==
    {[Default EXCEPT !.sqlitePath = "empty"], [Default EXCEPT !.categories = 0],
     [Default EXCEPT !.maxResults = 30001], [Default EXCEPT !.maxWords = 0],
     [Default EXCEPT !.signalBuffer = 0], [Default EXCEPT !.jobExpiry = 0],
     [Default EXCEPT !.mineruPath = "empty"], [Default EXCEPT !.mineruTimeout = 0],
     [Default EXCEPT !.pdfRoot = "file"], [Default EXCEPT !.retention = 0],
     [Default EXCEPT !.subscriberBuffer = 0], [Default EXCEPT !.provider = "anthropic"],
     [Default EXCEPT !.secret = 31], [Default EXCEPT !.ttl = 0], [Default EXCEPT !.signalBuffer = 1]}

\* The Env of the tests, in which what they do not use is zero.
TestEnv == {[Default EXCEPT !.retention = 0, !.subscriberBuffer = 0, !.secret = 0, !.ttl = 0]}

=============================================================================
