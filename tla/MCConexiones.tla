------------------------------ MODULE MCConexiones ------------------------------
(* One query with a line of each kind, on one page.                            *)
EXTENDS Conexiones

MCArchivos ==
    [todo |-> <<<<"TRUNCATE", <<"F", "T">>, 4>>,
                <<"WRITE", <<"F", "T">>, 0, 2>>,
                <<"READ", <<"F", "T">>, 2, 1>>,
                <<"COMMIT", <<"F", "T">>>>,
                <<"TAG", <<"F", "T">>, <<"G", "U">>>>,
                <<"DELETE", <<"F", "U">>>>,
                <<"OTRA">>,
                <<"END">>>>]

MCPeticiones == {<<"todo", 0>>, <<"todo", -1>>}

MCIds == {1, -1}

MCSucias == {<<"F", "T", 0>>}
=============================================================================
