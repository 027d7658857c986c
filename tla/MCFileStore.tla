---------------------------- MODULE MCFileStore ----------------------------
\* Two names, one of them with something below: enough to move a directory
\* onto a name that is taken or free, and to use a file as a directory.
EXTENDS FileStore

Inner == <<"a", "b">>
Targets == {<<"a">>, <<"b">>, <<"a", "b">>}
TwoNames == {<<"a">>, <<"b">>, <<"a", "b">>, <<"b", "b">>}
=============================================================================
