---------------------------- MODULE ConfigServiceMC ----------------------------
(* Model checking of ConfigService on a cut-down schema.                   *)
EXTENDS ConfigService

Lower(w) == <<w, "lower">>
Upper(w) == <<w, "upper">>

MCWords == {"opc", "port", "eventbuffer", "maxsize"}
MCKnown == {"opc", "eventbuffer"}

(* opc.port and eventBuffer.maxSize                                        *)
MCSchema == {<<Lower("opc"), Lower("port")>>,
             <<<<"eventbuffer", "camel">>, <<"maxsize", "camel">>>>}

(* OPC_PORT, OPC_, OPC_PORT_MAXSIZE, EVENTBUFFER_MAXSIZE, PORT_OPC         *)
MCNames == {<<Upper("opc"), Upper("port")>>,
            <<Upper("opc"), Blank>>,
            <<Upper("opc"), Upper("port"), Upper("maxsize")>>,
            <<Upper("eventbuffer"), Upper("maxsize")>>,
            <<Upper("port"), Upper("opc")>>}
=============================================================================
