----------------------- MODULE MCExpressKernelServer -----------------------
\* Two calls of run() and of close(), and three items: a hook that is awaited
\* before the controllers, a route of the kernel and a controller.
EXTENDS ExpressKernelServer, TLC

CONSTANTS r1, r2, c1, c2, tracing, user, health

MCKindOf ==
    tracing :> "beforeControllersHooks" @@ user :> "routes"
        @@ health :> "controllers"
=============================================================================
