--------------------------- MODULE MCAuthSessions ---------------------------
\* Two usernames and two addresses, typed with blanks and capitals, and one of
\* each that is refused.
EXTENDS AuthSessions

TypedNames == {<<" ", "a">>, <<"b">>, <<"-", "a">>}
TypedEmails == {<<"A", "@", "1", ".", "1">>, <<"b", "@", "1", ".", "1">>,
                <<"b", "@", "1">>}

\* Logging in by the page, which asks the limiter, and registering without it:
\* the limiter of the register page is the same code under another key.
SomeClients == {<<"register", "api">>, <<"login", "page">>,
                <<"use", "api">>, <<"logout", "api">>, <<"logout_submit", "page">>}
=============================================================================
